----------------------------- MODULE StackProofs -----------------------------
(* For any number of callers, any chain of providers however built and whatever    *)
(* they answer: a call fails for a reason and after all it may try was tried, and    *)
(* what still reaches a provider behind an open breaker is bounded; what a stream     *)
(* yields tells the answer; and a provider is sent all the images of a request, each   *)
(* from where it may fetch.                                                             *)
EXTENDS ProviderStack, FiniteSetTheorems, SequenceTheorems, WellFoundedInduction, TLAPS

-----------------------------------------------------------------------------
(* The invariant.                                                                     *)

Places == {"idle", "limit", "gate", "prepare", "pause", "sent", "reading"} \cup Settled
Steps == 0 .. MaxAttempts - 1
Content == {Formats!TextPart("words"), Formats!UrlPart("png")}
             \cup {Formats!ImagePart(s.mime, <<s>>) : s \in Sites}
Sized(c) == Len(copy[c]) \in {0, ImagesOf(c) + 1}

Typed ==
  /\ Vendor \in Deployments /\ pc \in [Callers -> Places]
  /\ target \in [Callers -> 1 .. Len(Chain)] /\ attempt \in [Callers -> Steps]
  /\ refused \in [Callers -> BOOLEAN] /\ rejected \in [Callers -> SUBSET Provider]
  /\ tries \in [Callers -> [Provider -> Nat]] /\ late \in [Provider -> Nat]
  /\ breaker \in [Provider -> [state : {"closed", "open", "half-open"}, fails : Nat]]
Copied == copy \in [Callers -> Seq(Content)] /\ \A c \in Callers : Sized(c)

(* A call has exhausted the providers before its own, and has not asked those behind it;   *)
(* its own it has asked as often as the series counts.                                       *)
Exhausted(c, n) == tries[c][Chain[n]] = MaxAttempts \/ Chain[n] \in rejected[c]
Course(c) ==
  /\ \A n \in 1 .. Len(Chain) : n < target[c] => Exhausted(c, n)
  /\ \A n \in 1 .. Len(Chain) : n > target[c] => tries[c][Chain[n]] = 0
  /\ \A n \in 1 .. Len(Chain) : tries[c][Chain[n]] <= MaxAttempts
  /\ pc[c] \in {"idle", "limit", "gate"} => tries[c][Chain[target[c]]] = 0
  /\ pc[c] \in {"prepare", "pause", "sent"} => tries[c][Chain[target[c]]] = attempt[c]
  /\ pc[c] = "failed" /\ ~refused[c] => target[c] = Len(Chain) /\ Exhausted(c, target[c])
  /\ refused[c] => pc[c] = "failed"

(* The requests callers inside a breaker may yet send. While it is open nobody joins them.  *)
Pending(c, i) == (pc[c] \in {"prepare", "pause"} /\ i >= attempt[c]) \/ (pc[c] = "sent" /\ i > attempt[c])
Left(p) == {x \in Callers \X Steps : P(x[1]) = p /\ Pending(x[1], x[2])}
Most == (Cardinality(Callers) - 1) * MaxAttempts
Bounded(p) ==
  /\ late[p] <= Most
  /\ breaker[p].state = "open" => late[p] + Cardinality(Left(p)) <= Most

Inv ==
  /\ Typed /\ Copied
  /\ \A c \in Callers : Course(c)
  /\ \A p \in Provider : Bounded(p)

-----------------------------------------------------------------------------
(* The chain, and sets of requests.                                                   *)

LEMMA ChainIs ==
  /\ Len(Chain) \in Nat \ {0} /\ DOMAIN Chain = 1 .. Len(Chain)
  /\ \A n \in 1 .. Len(Chain) : Chain[n] \in Provider
  /\ \A p \in Provider : \E n \in 1 .. Len(Chain) : p = Chain[n]
  /\ \A m, n \in 1 .. Len(Chain) : Chain[m] = Chain[n] => m = n
BY StackAssumption DEF IsInjective, Provider, Range

LEMMA Numbers ==
  /\ IsFiniteSet(Callers) /\ Cardinality(Callers) \in Nat \ {0}
  /\ MaxAttempts \in Nat \ {0} /\ Most \in Nat
  /\ IsFiniteSet(Steps) /\ Cardinality(Steps) = MaxAttempts
<1>1. IsFiniteSet(Callers) /\ Callers # {} /\ MaxAttempts \in Nat \ {0} BY StackAssumption
<1>2. Cardinality(Callers) \in Nat \ {0}
  BY <1>1, FS_CardinalityType, FS_EmptySet
<1>3. Most \in Nat
  <2>1. \A x, y \in Nat : x * y \in Nat OBVIOUS
  <2> QED BY <2>1, <1>1, <1>2 DEF Most
<1>4. IsFiniteSet(Steps) /\ Cardinality(Steps) = MaxAttempts
  BY <1>1, FS_Interval DEF Steps
<1> QED BY <1>1, <1>2, <1>3, <1>4

LEMMA FiniteLeft ==
  ASSUME NEW p
  PROVE  IsFiniteSet(Left(p)) /\ Cardinality(Left(p)) \in Nat
<1>1. IsFiniteSet(Callers \X Steps) BY Numbers, FS_Product
<1>2. Left(p) \in SUBSET (Callers \X Steps) BY DEF Left
<1>3. IsFiniteSet(Left(p)) BY <1>1, <1>2, FS_Subset
<1> QED BY <1>3, FS_CardinalityType

LEMMA PlaceIs ==
  ASSUME Typed, NEW c \in Callers
  PROVE  P(c) \in Provider /\ target[c] \in 1 .. Len(Chain) /\ P(c) = Chain[target[c]]
BY ChainIs DEF Typed, P

(* A step after which no caller may send what it could not before keeps the bound.      *)
LEMMA Kept ==
  ASSUME Typed, NEW p \in Provider, Bounded(p), late'[p] = late[p],
         breaker'[p].state = "open" => breaker[p].state = "open",
         breaker'[p].state = "open" =>
           \A c \in Callers : \A i \in Steps :
             Chain[target'[c]] = p /\ Pending(c, i)' => P(c) = p /\ Pending(c, i)
  PROVE  Bounded(p)'
<1>1. late'[p] <= Most BY DEF Bounded
<1>2. CASE breaker'[p].state = "open"
  <2>1. Left(p)' \in SUBSET Left(p)
    BY <1>2 DEF Left, P
  <2>2. Cardinality(Left(p)') <= Cardinality(Left(p))
    BY <2>1, FiniteLeft, FS_Subset
  <2>3. Cardinality(Left(p)') \in Nat
    BY <2>1, FiniteLeft, FS_Subset, FS_CardinalityType
  <2>4. late[p] \in Nat BY DEF Typed
  <2>5. late[p] + Cardinality(Left(p)) <= Most BY <1>2 DEF Bounded
  <2>6. late'[p] + Cardinality(Left(p)') <= Most
    BY <2>2, <2>3, <2>4, <2>5, FiniteLeft, Numbers
  <2> QED BY <1>1, <2>6 DEF Bounded, Most
<1>3. CASE breaker'[p].state # "open"
  BY <1>1, <1>3 DEF Bounded, Most
<1> QED BY <1>2, <1>3

(* When a breaker opens, every caller but the one whose failure it was may have a series.  *)
LEMMA Opened ==
  ASSUME NEW p \in Provider, NEW c \in Callers, late'[p] = 0, \A i \in Steps : ~Pending(c, i)'
  PROVE  Bounded(p)'
<1> DEFINE Rest == (Callers \ {c}) \X Steps
<1>1. Left(p)' \in SUBSET Rest BY DEF Left
<1>2. IsFiniteSet(Callers \ {c}) /\ Cardinality(Callers \ {c}) = Cardinality(Callers) - 1
  BY Numbers, FS_RemoveElement
<1>3. IsFiniteSet(Rest) /\ Cardinality(Rest) = Most
  BY <1>2, Numbers, FS_Product DEF Most
<1>4. Cardinality(Left(p)') <= Most
  BY <1>1, <1>3, FS_Subset
<1>5. Cardinality(Left(p)') \in Nat
  BY <1>1, <1>3, FS_Subset, FS_CardinalityType
<1> QED BY <1>4, <1>5, Numbers DEF Bounded, Most

-----------------------------------------------------------------------------
(* One caller at a time.                                                              *)

(* What a call would still send is what it may send: it moves on only when that is nothing. *)
Within(c) == \A i \in Steps : Pending(c, i)' => target'[c] = target[c] /\ Pending(c, i)
Alone(c) == \A d \in Callers \ {c} :
  /\ pc'[d] = pc[d] /\ target'[d] = target[d] /\ attempt'[d] = attempt[d]
  /\ tries'[d] = tries[d] /\ rejected'[d] = rejected[d] /\ refused'[d] = refused[d]

LEMMA Courses ==
  ASSUME \A d \in Callers : Course(d), NEW c \in Callers, Alone(c), Course(c)'
  PROVE  \A d \in Callers : Course(d)'
<1>1. ASSUME NEW d \in Callers, d # c PROVE Course(d)'
  <2>1. Course(d) OBVIOUS
  <2>2. /\ pc'[d] = pc[d] /\ target'[d] = target[d] /\ attempt'[d] = attempt[d]
        /\ tries'[d] = tries[d] /\ rejected'[d] = rejected[d] /\ refused'[d] = refused[d]
    BY <1>1 DEF Alone
  <2> QED BY <2>1, <2>2 DEF Course, Exhausted
<1> QED BY <1>1

LEMMA Quiet ==
  ASSUME Typed, NEW p \in Provider, Bounded(p), NEW c \in Callers, Within(c), Alone(c),
         late'[p] = late[p], breaker'[p].state = "open" => breaker[p].state = "open"
  PROVE  Bounded(p)'
<1>1. ASSUME NEW d \in Callers, NEW i \in Steps, Chain[target'[d]] = p, Pending(d, i)'
      PROVE  P(d) = p /\ Pending(d, i)
  <2>1. CASE d = c BY <1>1, <2>1 DEF Within, P
  <2>2. CASE d # c BY <1>1, <2>2 DEF Alone, Pending, P
  <2> QED BY <2>1, <2>2
<1> QED BY <1>1, Kept

LEMMA ErrorsBounded ==
  ASSUME Typed, \A p \in Provider : Bounded(p), NEW c \in Callers, Errors(P(c)), Alone(c),
         \A i \in Steps : ~Pending(c, i)'
  PROVE  /\ \A p \in Provider : Bounded(p)'
         /\ late' \in [Provider -> Nat]
         /\ breaker' \in [Provider -> [state : {"closed", "open", "half-open"}, fails : Nat]]
<1>1. PICK q \in Provider : q = P(c) BY PlaceIs
<1>2. Within(c) BY DEF Within
<1>3. breaker[q] \in [state : {"closed", "open", "half-open"}, fails : Nat]
  BY <1>1 DEF Typed
<1>4. breaker[q].fails \in Nat /\ breaker[q].state \in {"closed", "open", "half-open"} BY <1>3
<1>5. CASE Trips(q)
  <2>1. /\ breaker' = [breaker EXCEPT ![q] = [state |-> "open", fails |-> breaker[q].fails + 1]]
        /\ late' = [late EXCEPT ![q] = 0]
    BY <1>1, <1>5 DEF Errors
  <2>2. late'[q] = 0 BY <2>1, <1>1 DEF Typed
  <2>3. Bounded(q)' BY <2>2, <1>1, Opened
  <2>4. ASSUME NEW p \in Provider, p # q PROVE Bounded(p)'
    <3>1. late'[p] = late[p] /\ breaker'[p] = breaker[p] BY <2>1, <2>4 DEF Typed
    <3> QED BY <3>1, <1>2, Quiet
  <2>5. late' \in [Provider -> Nat] BY <2>1 DEF Typed
  <2>6. [state |-> "open", fails |-> breaker[q].fails + 1] \in [state : {"closed", "open", "half-open"}, fails : Nat]
    BY <1>4
  <2>7. breaker' \in [Provider -> [state : {"closed", "open", "half-open"}, fails : Nat]]
    BY <2>1, <2>6 DEF Typed
  <2> QED BY <2>3, <2>4, <2>5, <2>7
<1>6. CASE ~Trips(q)
  <2>1. PICK n \in Nat : breaker' = [breaker EXCEPT ![q].fails = n]
    <3>1. breaker' = [breaker EXCEPT ![q].fails = IF breaker[q].state = "closed" THEN breaker[q].fails + 1 ELSE breaker[q].fails]
        BY <1>6, <1>1 DEF Errors, Typed
    <3> DEFINE n == IF breaker[q].state = "closed" THEN breaker[q].fails + 1 ELSE breaker[q].fails
    <3>2. n \in Nat BY <1>4
    <3> HIDE DEF n
    <3>3. breaker' = [breaker EXCEPT ![q].fails = n] BY <3>1 DEF n
    <3> QED BY <3>2, <3>3
  <2>2. late' = late BY <1>1, <1>6 DEF Errors
  <2>3. [breaker[q] EXCEPT !.fails = n] \in [state : {"closed", "open", "half-open"}, fails : Nat]
    BY <1>3
  <2>4. breaker' = [breaker EXCEPT ![q] = [breaker[q] EXCEPT !.fails = n]] BY <2>1
  <2>5. breaker' \in [Provider -> [state : {"closed", "open", "half-open"}, fails : Nat]]
    BY <2>3, <2>4 DEF Typed
  <2>6. ASSUME NEW p \in Provider PROVE breaker'[p].state = breaker[p].state
    <3>1. CASE p = q BY <3>1, <2>4, <1>3 DEF Typed
    <3>2. CASE p # q BY <3>2, <2>4 DEF Typed
    <3> QED BY <3>1, <3>2
  <2>7. ASSUME NEW p \in Provider PROVE Bounded(p)'
    BY <2>2, <2>6, <1>2, Quiet
  <2> QED BY <2>2, <2>5, <2>7 DEF Typed
<1> QED BY <1>5, <1>6

-----------------------------------------------------------------------------
(* The ends of an attempt.                                                            *)

LEMMA TransientKeeps ==
  ASSUME Inv, NEW c \in Callers, pc[c] \in {"prepare", "sent"}, Transient(c), UNCHANGED <<Vendor, rejected>>
  PROVE  Typed' /\ (\A d \in Callers : Course(d)') /\ \A p \in Provider : Bounded(p)'
<1>0. Typed /\ Course(c) BY DEF Inv
<1>1. PICK t \in 1 .. Len(Chain), q \in Provider : t = target[c] /\ q = P(c) /\ q = Chain[t]
  BY <1>0, PlaceIs
<1>2. tries' = [tries EXCEPT ![c][q] = @ + 1] /\ UNCHANGED refused
  BY <1>1 DEF Transient
<1>3. /\ tries' \in [Callers -> [Provider -> Nat]]
      /\ tries'[c][q] = attempt[c] + 1
      /\ \A p \in Provider : p # q => tries'[c][p] = tries[c][p]
      /\ \A d \in Callers : d # c => tries'[d] = tries[d]
  <2>1. tries[c][q] = attempt[c] BY <1>0, <1>1 DEF Course
  <2>2. tries \in [Callers -> [Provider -> Nat]] BY <1>0 DEF Typed
  <2> QED BY <1>1, <1>2, <2>1, <2>2
<1>4. attempt[c] \in Steps /\ MaxAttempts \in Nat \ {0} /\ refused[c] = FALSE
  BY <1>0, Numbers DEF Typed, Course
<1>5. \A n \in 1 .. Len(Chain) : n # t => tries'[c][Chain[n]] = tries[c][Chain[n]]
  BY <1>1, <1>3, ChainIs
<1>6. CASE attempt[c] + 1 < MaxAttempts
  <2>1. /\ pc' = [pc EXCEPT ![c] = "pause"] /\ attempt' = [attempt EXCEPT ![c] = @ + 1]
        /\ UNCHANGED <<target, breaker, late>>
    BY <1>6 DEF Transient
  <2>2. Typed' BY <2>1, <1>0, <1>2, <1>3, <1>4, <1>6 DEF Typed, Places, Steps
  <2>3. Alone(c) BY <2>1, <1>0, <1>2, <1>3 DEF Alone, Typed
  <2>4. pc'[c] = "pause" /\ attempt'[c] = attempt[c] + 1 /\ target'[c] = t
    BY <2>1, <1>0, <1>1 DEF Typed
  <2>5. Course(c)'
    BY <2>4, <1>0, <1>1, <1>2, <1>3, <1>4, <1>5, <1>6, ChainIs DEF Course, Exhausted, Steps
  <2>6. Within(c) BY <2>4, <1>1, <1>4 DEF Within, Pending, Steps
  <2>7. \A p \in Provider : Bounded(p)' BY <2>1, <2>3, <2>6, Quiet DEF Inv
  <2> QED BY <2>2, <2>3, <2>5, <2>7, Courses DEF Inv
<1>7. CASE ~(attempt[c] + 1 < MaxAttempts)
  <2>1. Cascade(c) /\ Errors(P(c)) /\ UNCHANGED attempt BY <1>7 DEF Transient
  <2>2. tries'[c][q] = MaxAttempts BY <1>3, <1>4, <1>7 DEF Steps
  <2>3. \E u \in {"limit", "failed"} : pc' = [pc EXCEPT ![c] = u]
    BY <2>1 DEF Cascade
  <2>4. target' \in [Callers -> 1 .. Len(Chain)] /\ \A d \in Callers : d # c => target'[d] = target[d]
    <3>1. target \in [Callers -> 1 .. Len(Chain)] /\ Len(Chain) \in Nat BY <1>0, ChainIs DEF Typed
    <3>2. CASE t < Len(Chain)
      <4>1. target' = [target EXCEPT ![c] = t + 1] BY <2>1, <1>1, <3>2 DEF Cascade
      <4>2. t + 1 \in 1 .. Len(Chain) BY <3>1, <3>2
      <4> QED BY <3>1, <4>1, <4>2
    <3>3. CASE ~(t < Len(Chain))
      <4>1. target' = target BY <2>1, <1>1, <3>3 DEF Cascade
      <4> QED BY <3>1, <4>1
    <3> QED BY <3>2, <3>3
  <2>5. Alone(c) BY <2>1, <2>3, <2>4, <1>0, <1>2, <1>3 DEF Alone, Typed
  <2>6. \A i \in Steps : ~Pending(c, i)' BY <2>3, <1>0 DEF Pending, Typed
  <2>7. /\ \A p \in Provider : Bounded(p)'
        /\ late' \in [Provider -> Nat]
        /\ breaker' \in [Provider -> [state : {"closed", "open", "half-open"}, fails : Nat]]
    BY <2>1, <2>5, <2>6, <1>0, ErrorsBounded DEF Inv
  <2>8. Typed'
    <3>1. pc' \in [Callers -> Places] BY <2>3, <1>0 DEF Typed, Places, Settled
    <3> QED BY <3>1, <2>1, <2>4, <2>7, <1>0, <1>2, <1>3 DEF Typed
  <2>9. Course(c)'
    <3>1. CASE t < Len(Chain)
      <4>1. target'[c] = t + 1 /\ pc'[c] = "limit"
        BY <3>1, <2>1, <1>0, <1>1 DEF Cascade, Typed
      <4>2. \A n \in 1 .. Len(Chain) : n < t + 1 => Exhausted(c, n)'
        BY <2>2, <1>0, <1>1, <1>5, ChainIs DEF Course, Exhausted
      <4>3. \A n \in 1 .. Len(Chain) : n > t => tries'[c][Chain[n]] = 0
        BY <1>0, <1>1, <1>5, ChainIs DEF Course
      <4>4. \A n \in 1 .. Len(Chain) : tries'[c][Chain[n]] <= MaxAttempts
        BY <2>2, <1>0, <1>1, <1>4, <1>5, ChainIs DEF Course
      <4> QED BY <4>1, <4>2, <4>3, <4>4, <3>1, <1>0, <1>1, <1>2, <1>4, ChainIs DEF Course
    <3>2. CASE ~(t < Len(Chain))
      <4>1. target'[c] = t /\ pc'[c] = "failed" /\ t = Len(Chain)
        BY <3>2, <2>1, <1>0, <1>1, ChainIs DEF Cascade, Typed
      <4>2. \A n \in 1 .. Len(Chain) : n < t + 1 => Exhausted(c, n)'
        BY <2>2, <1>0, <1>1, <1>5, ChainIs DEF Course, Exhausted
      <4>4. \A n \in 1 .. Len(Chain) : tries'[c][Chain[n]] <= MaxAttempts
        BY <2>2, <1>0, <1>1, <1>4, <1>5, ChainIs DEF Course
      <4> QED BY <4>1, <4>2, <4>4, <1>0, <1>1, <1>2, <1>4, ChainIs DEF Course
    <3> QED BY <3>1, <3>2
  <2> QED BY <2>5, <2>7, <2>8, <2>9, Courses DEF Inv
<1> QED BY <1>6, <1>7

LEMMA RefusalKeeps ==
  ASSUME Inv, NEW c \in Callers, pc[c] \in {"prepare", "sent"}, Refusal(c), UNCHANGED <<Vendor, rejected>>
  PROVE  Typed' /\ (\A d \in Callers : Course(d)') /\ \A p \in Provider : Bounded(p)'
<1>0. Typed /\ Course(c) BY DEF Inv
<1>1. PICK t \in 1 .. Len(Chain), q \in Provider : t = target[c] /\ q = P(c) /\ q = Chain[t]
  BY <1>0, PlaceIs
<1>2. /\ tries' = [tries EXCEPT ![c][q] = @ + 1] /\ refused' = [refused EXCEPT ![c] = TRUE]
      /\ pc' = [pc EXCEPT ![c] = "failed"] /\ Errors(P(c)) /\ UNCHANGED <<attempt, target>>
  BY <1>1 DEF Refusal
<1>3. /\ tries' \in [Callers -> [Provider -> Nat]]
      /\ tries'[c][q] = attempt[c] + 1
      /\ \A p \in Provider : p # q => tries'[c][p] = tries[c][p]
      /\ \A d \in Callers : d # c => tries'[d] = tries[d]
  <2>1. tries[c][q] = attempt[c] BY <1>0, <1>1 DEF Course
  <2>2. tries \in [Callers -> [Provider -> Nat]] BY <1>0 DEF Typed
  <2> QED BY <1>1, <1>2, <2>1, <2>2
<1>4. attempt[c] \in Steps /\ MaxAttempts \in Nat \ {0}
  BY <1>0, Numbers DEF Typed
<1>5. \A n \in 1 .. Len(Chain) : n # t => tries'[c][Chain[n]] = tries[c][Chain[n]]
  BY <1>1, <1>3, ChainIs
<1>6. Alone(c) BY <1>0, <1>2, <1>3 DEF Alone, Typed
<1>7. \A i \in Steps : ~Pending(c, i)' BY <1>0, <1>2 DEF Pending, Typed
<1>8. /\ \A p \in Provider : Bounded(p)'
      /\ late' \in [Provider -> Nat]
      /\ breaker' \in [Provider -> [state : {"closed", "open", "half-open"}, fails : Nat]]
  BY <1>0, <1>2, <1>6, <1>7, ErrorsBounded DEF Inv
<1>9. Typed' BY <1>0, <1>2, <1>3, <1>8 DEF Typed, Places, Settled
<1>10. Course(c)'
  <2>1. pc'[c] = "failed" /\ refused'[c] /\ target'[c] = t BY <1>0, <1>1, <1>2 DEF Typed
  <2>2. \A n \in 1 .. Len(Chain) : n < t => Exhausted(c, n)'
    BY <1>0, <1>1, <1>5, ChainIs DEF Course, Exhausted
  <2>3. \A n \in 1 .. Len(Chain) : tries'[c][Chain[n]] <= MaxAttempts
    <3>1. \A n \in 1 .. Len(Chain) : tries[c][Chain[n]] <= MaxAttempts
      BY <1>0 DEF Course
    <3>2. attempt[c] + 1 <= MaxAttempts
      BY <1>4 DEF Steps
    <3>3. Chain[t] = q
      BY <1>1
    <3> QED BY <1>3, <1>5, <3>1, <3>2, <3>3
  <2> QED BY <2>1, <2>2, <2>3, <1>0, <1>1, <1>5, ChainIs DEF Course
<1> QED BY <1>6, <1>8, <1>9, <1>10, Courses DEF Inv

-----------------------------------------------------------------------------
(* Copies of requests.                                                                *)

LEMMA AskedIs ==
  ASSUME NEW c \in Callers
  PROVE  Asked(c) \in Seq(Content) /\ Len(Asked(c)) = ImagesOf(c) + 1
<1> DEFINE words == Formats!TextPart("words")
           url == Formats!UrlPart("png")
           k == ImagesOf(c)
<1>1. k \in Nat BY StackAssumption DEF ImagesOf
<1>2. words \in Content /\ url \in Content BY DEF Content
<1> HIDE DEF words, url, k
<1>3. <<words>> \in Seq(Content) /\ Len(<<words>>) = 1 BY <1>2
<1>4. [n \in 1 .. k |-> url] \in Seq(Content) /\ Len([n \in 1 .. k |-> url]) = k
  BY <1>1, <1>2, LenProperties
<1>5. Asked(c) = <<words>> \o [n \in 1 .. k |-> url] BY DEF Asked, words, url, k
<1> QED BY <1>1, <1>3, <1>4, <1>5, ConcatProperties DEF k

LEMMA CopyKeeps ==
  ASSUME Copied, NEW c \in Callers, NEW f \in Seq(Content), Len(f) \in {0, ImagesOf(c) + 1},
         copy' = [copy EXCEPT ![c] = f]
  PROVE  Copied'
<1>1. copy' \in [Callers -> Seq(Content)] BY DEF Copied
<1>2. ASSUME NEW d \in Callers PROVE Sized(d)'
  <2>1. CASE d = c BY <2>1 DEF Copied, Sized, ImagesOf
  <2>2. CASE d # c BY <2>2 DEF Copied, Sized, ImagesOf
  <2> QED BY <2>1, <2>2
<1>3. Content' = Content BY DEF Content
<1> QED BY <1>1, <1>2 DEF Copied, Content

LEMMA CopyEmptied ==
  ASSUME Copied, NEW c \in Callers, copy' = [copy EXCEPT ![c] = <<>>]
  PROVE  Copied'
<1>1. <<>> \in Seq(Content) /\ Len(<<>>) = 0 OBVIOUS
<1> QED BY <1>1, CopyKeeps

LEMMA CopyFilled ==
  ASSUME Copied, NEW c \in Callers, copy' = [copy EXCEPT ![c] = Asked(c)]
  PROVE  Copied'
BY AskedIs, CopyKeeps

(* An image takes the place of a URL.                                                   *)
LEMMA CopyReplaced ==
  ASSUME Copied, NEW c \in Callers, NEW n, NEW part \in Content, copy' = [copy EXCEPT ![c][n] = part]
  PROVE  Copied'
<1> DEFINE f == [copy[c] EXCEPT ![n] = part]
<1>1. copy[c] \in Seq(Content) /\ Len(copy[c]) \in {0, ImagesOf(c) + 1} BY DEF Copied, Sized
<1>2. f \in Seq(Content) /\ Len(f) = Len(copy[c])
  <2>1. CASE n \in 1 .. Len(copy[c]) BY <2>1, <1>1, ExceptSeq
  <2>2. CASE n \notin 1 .. Len(copy[c])
    <3>1. f = copy[c] BY <2>2, <1>1
    <3> QED BY <3>1, <1>1
  <2> QED BY <2>1, <2>2
<1>3. copy' = [copy EXCEPT ![c] = f] OBVIOUS
<1> HIDE DEF f
<1> QED BY <1>1, <1>2, <1>3, CopyKeeps

LEMMA FetchedIs ==
  ASSUME NEW p, NEW s
  PROVE  Fetched(p, s) \in {"image", "Transport", "Invalid"}
<1>1. \A o : FetchOne(o, s) \in {"image", "Transport", "Invalid"}
  BY DEF FetchOne
<1> QED BY <1>1 DEF Fetched, OlFetchOne

-----------------------------------------------------------------------------
(* The steps.                                                                         *)

Staying == UNCHANGED <<Vendor, target, attempt, tries, rejected>>

LEMMA Walks ==
  ASSUME Typed, NEW c \in Callers, NEW u \in Places, NEW b \in BOOLEAN, pc' = [pc EXCEPT ![c] = u],
         refused' = [refused EXCEPT ![c] = b], Staying
  PROVE  /\ pc' \in [Callers -> Places] /\ refused' \in [Callers -> BOOLEAN] /\ Alone(c)
         /\ pc'[c] = u /\ refused'[c] = b
BY DEF Typed, Staying, Alone

(* A caller that only moves, and not to where it may send more.                          *)
LEMMA MovesKeep ==
  ASSUME Inv, NEW c \in Callers, NEW u \in Places, NEW b \in BOOLEAN, pc' = [pc EXCEPT ![c] = u],
         refused' = [refused EXCEPT ![c] = b], Staying, UNCHANGED <<late, breaker>>, Copied',
         \/ pc[c] = "idle" /\ u = "limit" /\ b = refused[c]
         \/ pc[c] = "limit" /\ u = "gate" /\ b = refused[c]
         \/ pc[c] = "pause" /\ u = "prepare" /\ b = refused[c]
         \/ pc[c] = "reading" /\ u = (IF b THEN "failed" ELSE "done")
         \/ pc[c] # "failed" /\ u = "dropped" /\ b = refused[c]
  PROVE  Inv'
<1>1. Typed /\ Course(c) BY DEF Inv
<1>2. /\ pc' \in [Callers -> Places] /\ refused' \in [Callers -> BOOLEAN] /\ Alone(c)
      /\ pc'[c] = u /\ refused'[c] = b
  BY <1>1, Walks
<1>3. Typed' BY <1>1, <1>2 DEF Typed, Staying
<1>4. UNCHANGED <<target, attempt, tries, rejected>> BY DEF Staying
<1>5. Course(c)' BY <1>1, <1>2, <1>4 DEF Course, Exhausted
<1>6. Within(c) BY <1>2, <1>4 DEF Within, Pending
<1>7. \A p \in Provider : Bounded(p)' BY <1>2, <1>6, Quiet DEF Inv
<1> QED BY <1>2, <1>3, <1>5, <1>7, Courses DEF Inv

LEMMA BeginKeeps ==
  ASSUME Inv, NEW c \in Callers, Begin(c) PROVE Inv'
<1>1. Typed /\ Copied /\ refused[c] \in BOOLEAN BY DEF Inv, Typed
<1>2. /\ pc[c] = "idle" /\ pc' = [pc EXCEPT ![c] = "limit"] /\ UNCHANGED <<refused, late, breaker, copy>> /\ Staying
  BY DEF Begin, Staying
<1>3. Copied' BY <1>1, <1>2 DEF Copied, Sized, ImagesOf, Content
<1>4. refused' = [refused EXCEPT ![c] = refused[c]] BY <1>1, <1>2 DEF Typed
<1>5. "limit" \in Places BY DEF Places
<1> QED BY <1>1, <1>2, <1>3, <1>4, <1>5, MovesKeep

LEMMA AcquireKeeps ==
  ASSUME Inv, NEW c \in Callers, Acquire(c) PROVE Inv'
<1>1. Typed /\ Copied /\ refused[c] \in BOOLEAN BY DEF Inv, Typed
<1>2. /\ pc[c] = "limit" /\ pc' = [pc EXCEPT ![c] = "gate"] /\ UNCHANGED <<refused, late, breaker, copy>> /\ Staying
  BY DEF Acquire, Staying
<1>3. Copied' BY <1>1, <1>2 DEF Copied, Sized, ImagesOf, Content
<1>4. refused' = [refused EXCEPT ![c] = refused[c]] BY <1>1, <1>2 DEF Typed
<1>5. "gate" \in Places BY DEF Places
<1> QED BY <1>1, <1>2, <1>3, <1>4, <1>5, MovesKeep

LEMMA WakeKeeps ==
  ASSUME Inv, NEW c \in Callers, Wake(c) PROVE Inv'
<1>1. Typed /\ Copied /\ refused[c] \in BOOLEAN BY DEF Inv, Typed
<1>2. /\ pc[c] = "pause" /\ pc' = [pc EXCEPT ![c] = "prepare"] /\ UNCHANGED <<refused, late, breaker>> /\ Staying
      /\ copy' = [copy EXCEPT ![c] = Asked(c)]
  BY DEF Wake, Staying
<1>3. Copied' BY <1>1, <1>2, CopyFilled
<1>4. refused' = [refused EXCEPT ![c] = refused[c]] BY <1>1, <1>2 DEF Typed
<1>5. "prepare" \in Places BY DEF Places
<1> QED BY <1>1, <1>2, <1>3, <1>4, <1>5, MovesKeep

LEMMA DropKeeps ==
  ASSUME Inv, NEW c \in Callers, Drop(c) PROVE Inv'
<1>1. Typed /\ Copied /\ refused[c] \in BOOLEAN BY DEF Inv, Typed
<1>2. /\ pc[c] # "failed" /\ pc' = [pc EXCEPT ![c] = "dropped"] /\ UNCHANGED <<refused, late, breaker, copy>> /\ Staying
  BY DEF Drop, Staying, Settled
<1>3. Copied' BY <1>1, <1>2 DEF Copied, Sized, ImagesOf, Content
<1>4. refused' = [refused EXCEPT ![c] = refused[c]] BY <1>1, <1>2 DEF Typed
<1>5. "dropped" \in Places BY DEF Places, Settled
<1> QED BY <1>1, <1>2, <1>3, <1>4, <1>5, MovesKeep

LEMMA FinishedKeeps ==
  ASSUME Inv, NEW c \in Callers, Finished(c) PROVE Inv'
<1> DEFINE b == Consumed
<1>1. Typed /\ Copied /\ b \in BOOLEAN BY DEF Inv, Consumed
<1>2. /\ pc[c] = "reading" /\ pc' = [pc EXCEPT ![c] = IF b THEN "failed" ELSE "done"]
      /\ refused' = [refused EXCEPT ![c] = b] /\ UNCHANGED <<late, breaker, copy>> /\ Staying
  BY DEF Finished, Staying
<1>3. Copied' BY <1>1, <1>2 DEF Copied, Sized, ImagesOf, Content
<1> HIDE DEF b
<1>4. PICK u \in Places : u = IF b THEN "failed" ELSE "done" BY DEF Places, Settled
<1>5. pc' = [pc EXCEPT ![c] = u] BY <1>2, <1>4
<1>6. PICK v \in BOOLEAN : v = b BY <1>1
<1>7. refused' = [refused EXCEPT ![c] = v] BY <1>2, <1>6
<1>8. pc[c] = "reading" /\ u = (IF v THEN "failed" ELSE "done") BY <1>2, <1>4, <1>6
<1> QED BY <1>2, <1>3, <1>5, <1>7, <1>8, MovesKeep

(* Only a breaker that is not open lets a caller in.                                     *)
LEMMA EnterKeeps ==
  ASSUME Inv, NEW c \in Callers, Enter(c) PROVE Inv'
<1>1. Typed /\ Copied /\ Course(c) /\ pc[c] = "gate" /\ refused[c] = FALSE
  BY DEF Inv, Enter, Typed, Course
<1>2. PICK t \in 1 .. Len(Chain), q \in Provider : t = target[c] /\ q = P(c) /\ q = Chain[t]
  BY <1>1, PlaceIs
<1>3. UNCHANGED <<Vendor, refused, tries, breaker, late>> BY DEF Enter
<1>4. CASE breaker[q].state = "open"
  <2>1. rejected' = [rejected EXCEPT ![c] = @ \union {q}] /\ Cascade(c) /\ UNCHANGED <<attempt, copy>>
    BY <1>2, <1>4 DEF Enter
  <2>2. Copied' BY <1>1, <2>1 DEF Copied, Sized, ImagesOf, Content
  <2>3. /\ rejected' \in [Callers -> SUBSET Provider] /\ q \in rejected'[c]
        /\ \A p \in rejected[c] : p \in rejected'[c]
        /\ \A d \in Callers : d # c => rejected'[d] = rejected[d]
    BY <2>1, <1>1 DEF Typed
  <2>4. \A n \in 1 .. Len(Chain) : n < t + 1 => Exhausted(c, n)'
    BY <2>3, <1>1, <1>2, <1>3, ChainIs DEF Course, Exhausted
  <2>5. PICK m \in 1 .. Len(Chain), u \in {"limit", "failed"} :
          /\ pc' = [pc EXCEPT ![c] = u] /\ target' = [target EXCEPT ![c] = m]
          /\ \/ m = t + 1 /\ u = "limit"
             \/ m = t /\ t = Len(Chain) /\ u = "failed"
    <3>1. CASE t < Len(Chain)
      <4>1. t + 1 \in 1 .. Len(Chain) BY <3>1, ChainIs
      <4>2. pc' = [pc EXCEPT ![c] = "limit"] /\ target' = [target EXCEPT ![c] = t + 1]
        BY <2>1, <3>1, <1>2 DEF Cascade
      <4> QED BY <4>1, <4>2
    <3>2. CASE ~(t < Len(Chain))
      <4>1. pc' = [pc EXCEPT ![c] = "failed"] /\ target' = target /\ t = Len(Chain)
        BY <2>1, <3>2, <1>2, ChainIs DEF Cascade
      <4>2. target' = [target EXCEPT ![c] = t] BY <4>1, <1>1, <1>2 DEF Typed
      <4> QED BY <4>1, <4>2
    <3> QED BY <3>1, <3>2
  <2>6. Typed' BY <1>1, <1>3, <2>1, <2>3, <2>5 DEF Typed, Places, Settled
  <2>7. pc'[c] = u /\ target'[c] = m BY <2>5, <1>1 DEF Typed
  <2>8. Alone(c) BY <1>1, <1>3, <2>1, <2>3, <2>5 DEF Alone, Typed
  <2>9. \A n \in 1 .. Len(Chain) : n > t => tries'[c][Chain[n]] = 0
    BY <1>1, <1>2, <1>3 DEF Course
  <2>10. Course(c)'
    <3>1. CASE m = t + 1 /\ u = "limit"
      BY <3>1, <2>4, <2>7, <2>9, <1>1, <1>2, <1>3, ChainIs DEF Course
    <3>2. CASE m = t /\ t = Len(Chain) /\ u = "failed"
      BY <3>2, <2>4, <2>7, <2>9, <1>1, <1>2, <1>3, ChainIs DEF Course
    <3> QED BY <3>1, <3>2, <2>5
  <2>11. Within(c) BY <2>5, <2>7 DEF Within, Pending
  <2>12. \A p \in Provider : Bounded(p)' BY <1>3, <1>1, <2>8, <2>11, Quiet DEF Inv
  <2> QED BY <2>2, <2>6, <2>8, <2>10, <2>12, Courses DEF Inv
<1>5. CASE breaker[q].state # "open"
  <2>1. /\ pc' = [pc EXCEPT ![c] = "prepare"] /\ attempt' = [attempt EXCEPT ![c] = 0]
        /\ copy' = [copy EXCEPT ![c] = Asked(c)] /\ UNCHANGED <<rejected, target>>
    BY <1>2, <1>5 DEF Enter
  <2>2. Copied' BY <1>1, <2>1, CopyFilled
  <2>3. 0 \in Steps BY Numbers DEF Steps
  <2>4. Typed' BY <1>1, <1>3, <2>1, <2>3 DEF Typed, Places
  <2>5. Alone(c) /\ pc'[c] = "prepare" /\ attempt'[c] = 0 BY <1>1, <1>3, <2>1 DEF Alone, Typed
  <2>6. Course(c)' BY <1>1, <1>3, <2>1, <2>5 DEF Course, Exhausted
  <2>7. ASSUME NEW p \in Provider PROVE Bounded(p)'
    <3>1. Bounded(p) /\ late'[p] = late[p] /\ breaker'[p] = breaker[p] BY <1>3 DEF Inv
    <3>2. CASE p = q BY <3>1, <3>2, <1>5 DEF Bounded, Most
    <3>3. CASE p # q
      <4>1. ASSUME NEW d \in Callers, NEW i \in Steps, Chain[target'[d]] = p, Pending(d, i)'
            PROVE  P(d) = p /\ Pending(d, i)
        <5>1. P(d) = p BY <4>1, <2>1 DEF P
        <5>2. d # c BY <5>1, <3>3, <1>2
        <5> QED BY <5>1, <5>2, <4>1, <2>5 DEF Alone, Pending
      <4> QED BY <3>1, <4>1, <1>1, Kept
    <3> QED BY <3>2, <3>3
  <2> QED BY <2>2, <2>4, <2>5, <2>6, <2>7, Courses DEF Inv
<1> QED BY <1>4, <1>5

LEMMA FetchKeeps ==
  ASSUME Inv, NEW c \in Callers, Fetch(c) PROVE Inv'
<1>1. Typed /\ Copied /\ pc[c] \in {"prepare", "sent"} /\ UNCHANGED <<Vendor, rejected>>
  BY DEF Inv, Fetch
<1>2. PICK s \in Sites :
        LET got == Fetched(P(c), s) IN
        CASE got = "image" -> /\ copy' = [copy EXCEPT ![c][Min(Fetching(c))] = Formats!ImagePart(s.mime, <<s>>)]
                              /\ UNCHANGED <<pc, target, attempt, refused, tries, breaker, openings, late>>
          [] got = "Transport" -> Transient(c) /\ copy' = [copy EXCEPT ![c] = <<>>]
          [] got = "Invalid" -> Refusal(c) /\ copy' = [copy EXCEPT ![c] = <<>>]
  BY DEF Fetch
<1> DEFINE got == Fetched(P(c), s)
<1>3. got \in {"image", "Transport", "Invalid"} BY FetchedIs
<1>4. CASE got = "image"
  <2>1. Formats!ImagePart(s.mime, <<s>>) \in Content BY DEF Content
  <2>2. /\ copy' = [copy EXCEPT ![c][Min(Fetching(c))] = Formats!ImagePart(s.mime, <<s>>)]
        /\ UNCHANGED <<pc, target, attempt, refused, tries, breaker, openings, late>>
    BY <1>2, <1>4
  <2>3. Copied' BY <2>1, <2>2, <1>1, CopyReplaced
  <2>4. Typed' BY <1>1, <2>2 DEF Typed
  <2>5. \A d \in Callers : Course(d)' BY <1>1, <2>2 DEF Inv, Course, Exhausted
  <2>6. Alone(c) /\ Within(c) BY <1>1, <2>2 DEF Alone, Within, Pending
  <2>7. \A p \in Provider : Bounded(p)' BY <1>1, <2>2, <2>6, Quiet DEF Inv
  <2> QED BY <2>3, <2>4, <2>5, <2>7 DEF Inv
<1>5. CASE got = "Transport"
  <2>1. Transient(c) /\ copy' = [copy EXCEPT ![c] = <<>>] BY <1>2, <1>5
  <2> QED BY <2>1, <1>1, TransientKeeps, CopyEmptied DEF Inv
<1>6. CASE got = "Invalid"
  <2>1. Refusal(c) /\ copy' = [copy EXCEPT ![c] = <<>>] BY <1>2, <1>6
  <2> QED BY <2>1, <1>1, RefusalKeeps, CopyEmptied DEF Inv
<1> QED BY <1>3, <1>4, <1>5, <1>6

(* A request to a provider behind an open breaker is one of those that were left.        *)
LEMMA RequestKeeps ==
  ASSUME Inv, NEW c \in Callers, Request(c) PROVE Inv'
<1>1. Typed /\ Copied /\ Course(c) /\ pc[c] = "prepare" BY DEF Inv, Request
<1>2. PICK q \in Provider : q = P(c) BY <1>1, PlaceIs
<1>3. /\ pc' = [pc EXCEPT ![c] = "sent"] /\ UNCHANGED <<refused, breaker, copy>> /\ Staying
      /\ late' = [late EXCEPT ![q] = IF breaker[q].state = "open" THEN @ + 1 ELSE @]
  BY <1>2 DEF Request, Staying
<1>4. Copied' BY <1>1, <1>3 DEF Copied, Sized, ImagesOf, Content
<1>5. "sent" \in Places /\ refused[c] \in BOOLEAN /\ refused' = [refused EXCEPT ![c] = refused[c]]
  BY <1>1, <1>3 DEF Places, Typed
<1>6. Alone(c) /\ pc'[c] = "sent" /\ pc' \in [Callers -> Places] BY <1>1, <1>3, <1>5, Walks
<1>7. late' \in [Provider -> Nat] BY <1>1, <1>3 DEF Typed
<1>8. Typed' BY <1>1, <1>3, <1>6, <1>7 DEF Typed, Staying
<1>9. UNCHANGED <<target, attempt, tries, rejected, refused>> BY <1>3 DEF Staying
<1>10. Course(c)' BY <1>1, <1>6, <1>9 DEF Course, Exhausted
<1>11. Within(c) BY <1>1, <1>6, <1>9, Numbers DEF Within, Pending, Steps, Typed
<1>12. ASSUME NEW p \in Provider PROVE Bounded(p)'
  <2>1. Bounded(p) BY DEF Inv
  <2>2. breaker' = breaker BY <1>3
  <2>3. CASE p # q \/ breaker[q].state # "open"
    <3>1. late'[p] = late[p] BY <2>3, <1>1, <1>3 DEF Typed
    <3> QED BY <3>1, <2>1, <2>2, <1>1, <1>6, <1>11, Quiet
  <2>4. CASE p = q /\ breaker[q].state = "open"
    <3> DEFINE x == <<c, attempt[c]>>
    <3>1. late'[p] = late[p] + 1 /\ late[p] \in Nat BY <2>4, <1>1, <1>3 DEF Typed
    <3>2. x \in Left(p)
      BY <2>4, <1>1, <1>2 DEF Left, Pending, Typed, Steps
    <3>3. Left(p)' \in SUBSET (Left(p) \ {x})
      <4>1. ASSUME NEW d \in Callers, NEW i \in Steps, P(d)' = p, Pending(d, i)'
            PROVE  P(d) = p /\ Pending(d, i) /\ <<d, i>> # x
        <5>1. P(d) = p BY <4>1, <1>9 DEF P
        <5>2. CASE d = c BY <5>1, <5>2, <4>1, <1>1, <1>6, <1>9, Numbers DEF Pending, Typed, Steps
        <5>3. CASE d # c BY <5>1, <5>3, <4>1, <1>6 DEF Alone, Pending
        <5> QED BY <5>2, <5>3
      <4> HIDE DEF x
      <4> QED BY <4>1 DEF Left
    <3>4. IsFiniteSet(Left(p) \ {x}) /\ Cardinality(Left(p) \ {x}) = Cardinality(Left(p)) - 1
      BY <3>2, FiniteLeft, FS_RemoveElement
    <3>5. IsFiniteSet(Left(p)') /\ Cardinality(Left(p)') <= Cardinality(Left(p)) - 1
      BY <3>3, <3>4, FS_Subset
    <3>6. Cardinality(Left(p)') \in Nat BY <3>5, FS_CardinalityType
    <3>7. late[p] + Cardinality(Left(p)) <= Most BY <2>1, <2>4 DEF Bounded
    <3>8. late'[p] + Cardinality(Left(p)') <= Most /\ late'[p] <= Most
      BY <3>1, <3>5, <3>6, <3>7, FiniteLeft, Numbers
    <3> QED BY <3>8 DEF Bounded, Most
  <2> QED BY <2>3, <2>4
<1> QED BY <1>4, <1>6, <1>8, <1>10, <1>12, Courses DEF Inv

LEMMA RepliedKeeps ==
  ASSUME Inv, NEW c \in Callers, Replied(c) PROVE Inv'
<1>1. Typed /\ Copied /\ Course(c) /\ pc[c] = "sent" /\ UNCHANGED <<Vendor, rejected>>
  BY DEF Inv, Replied
<1>2. Copied' BY <1>1, CopyEmptied DEF Replied
<1>3. PICK r \in Replies :
        LET e == ErrorOf(Vendor[P(c)], r) IN
        IF e = "none"
        THEN /\ tries' = [tries EXCEPT ![c][P(c)] = @ + 1] /\ Succeeds(P(c))
             /\ pc' = [pc EXCEPT ![c] = IF streams THEN "reading" ELSE "done"]
             /\ IF streams THEN vendor = None /\ Opens(DecoderOf(Vendor[P(c)])) ELSE UNCHANGED decoderVars
             /\ UNCHANGED <<target, attempt, refused>>
        ELSE /\ IF IsTransient(e) THEN Transient(c) ELSE Refusal(c)
             /\ UNCHANGED decoderVars
  BY DEF Replied
<1> DEFINE e == ErrorOf(Vendor[P(c)], r)
<1>4. CASE e # "none"
  <2>1. Transient(c) \/ Refusal(c) BY <1>3, <1>4
  <2> QED BY <2>1, <1>1, <1>2, TransientKeeps, RefusalKeeps DEF Inv
<1>5. CASE e = "none"
  <2>1. PICK t \in 1 .. Len(Chain), q \in Provider : t = target[c] /\ q = P(c) /\ q = Chain[t]
    BY <1>1, PlaceIs
  <2>2. PICK u \in {"reading", "done"} : pc' = [pc EXCEPT ![c] = u] BY <1>3, <1>5
  <2>3. /\ tries' = [tries EXCEPT ![c][q] = @ + 1] /\ Succeeds(q) /\ UNCHANGED <<target, attempt, refused>>
    BY <1>3, <1>5, <2>1
  <2>4. breaker[q] \in [state : {"closed", "open", "half-open"}, fails : Nat] BY <1>1 DEF Typed
  <2>5. PICK b \in [state : {"closed", "open", "half-open"}, fails : Nat] :
          breaker' = [breaker EXCEPT ![q] = b] /\ (b.state = "open" => breaker[q].state = "open")
    <3> DEFINE b == [state |-> IF breaker[q].state = "half-open" THEN "closed" ELSE breaker[q].state, fails |-> 0]
    <3>1. b \in [state : {"closed", "open", "half-open"}, fails : Nat] BY <2>4
    <3>2. b.state = "open" => breaker[q].state = "open" OBVIOUS
    <3>3. breaker' = [breaker EXCEPT ![q] = b] BY <2>3 DEF Succeeds
    <3> HIDE DEF b
    <3> QED BY <3>1, <3>2, <3>3
  <2>6. late' = late BY <2>3 DEF Succeeds
  <2>7. /\ tries' \in [Callers -> [Provider -> Nat]]
        /\ tries'[c][q] = tries[c][q] + 1
        /\ \A p \in Provider : p # q => tries'[c][p] = tries[c][p]
        /\ \A d \in Callers : d # c => tries'[d] = tries[d]
    <3>1. tries \in [Callers -> [Provider -> Nat]] BY <1>1 DEF Typed
    <3> QED BY <2>3, <3>1
  <2>8. Typed'
    <3>1. pc' \in [Callers -> Places] BY <1>1, <2>2 DEF Typed, Places, Settled
    <3>2. breaker' \in [Provider -> [state : {"closed", "open", "half-open"}, fails : Nat]]
      BY <1>1, <2>5 DEF Typed
    <3> QED BY <3>1, <3>2, <2>3, <2>6, <2>7, <1>1 DEF Typed
  <2>9. Alone(c) /\ pc'[c] = u BY <1>1, <2>2, <2>3, <2>7 DEF Alone, Typed
  <2>10. Course(c)'
    <3>1. tries[c][q] = attempt[c] /\ attempt[c] \in Steps /\ refused[c] = FALSE
      BY <1>1, <2>1 DEF Course, Typed
    <3>2. \A n \in 1 .. Len(Chain) : n # t => tries'[c][Chain[n]] = tries[c][Chain[n]]
      BY <2>1, <2>7, ChainIs
    <3>3. tries'[c][q] <= MaxAttempts BY <3>1, <2>7, Numbers DEF Steps
    <3> QED BY <1>1, <2>1, <2>3, <2>9, <3>1, <3>2, <3>3, ChainIs DEF Course, Exhausted
  <2>11. Within(c) BY <2>9 DEF Within, Pending
  <2>12. ASSUME NEW p \in Provider PROVE Bounded(p)'
    <3>1. breaker'[p].state = "open" => breaker[p].state = "open" BY <1>1, <2>5 DEF Typed
    <3> QED BY <3>1, <2>6, <2>9, <2>11, <1>1, Quiet DEF Inv
  <2> QED BY <1>2, <2>8, <2>9, <2>10, <2>12, Courses DEF Inv
<1> QED BY <1>4, <1>5

(* A breaker that cools off lets callers in again; what was sent behind it is not undone. *)
LEMMA CoolsKeeps ==
  ASSUME Inv, NEW q \in Provider, Cools(q) PROVE Inv'
<1>1. Typed /\ Copied /\ UNCHANGED <<Vendor, pc, target, attempt, copy, refused, tries, rejected, late>>
  BY DEF Inv, Cools
<1>2. breaker' = [breaker EXCEPT ![q].state = "half-open"] BY DEF Cools
<1>3. [breaker[q] EXCEPT !.state = "half-open"] \in [state : {"closed", "open", "half-open"}, fails : Nat]
  <2>1. breaker[q] \in [state : {"closed", "open", "half-open"}, fails : Nat] BY <1>1 DEF Typed
  <2> QED BY <2>1
<1>4. breaker' = [breaker EXCEPT ![q] = [breaker[q] EXCEPT !.state = "half-open"]] BY <1>2
<1>5. Typed' BY <1>1, <1>3, <1>4 DEF Typed
<1>6. Copied' BY <1>1 DEF Copied, Sized, ImagesOf, Content
<1>7. \A c \in Callers : Course(c)' BY <1>1 DEF Inv, Course, Exhausted
<1>8. ASSUME NEW p \in Provider PROVE Bounded(p)'
  <2>1. breaker'[p].state = "open" => breaker[p].state = "open" BY <1>1, <1>2 DEF Typed
  <2>2. \A c \in Callers : \A i \in Steps :
           Chain[target'[c]] = p /\ Pending(c, i)' => P(c) = p /\ Pending(c, i)
    BY <1>1 DEF P, Pending
  <2> QED BY <2>1, <2>2, <1>1, Kept DEF Inv
<1> QED BY <1>5, <1>6, <1>7, <1>8 DEF Inv

-----------------------------------------------------------------------------
(* The theorem.                                                                       *)

LEMMA Starts == Init => Inv
<1> SUFFICES ASSUME Init PROVE Inv OBVIOUS
<1>1. Typed
  BY ChainIs, Numbers DEF Init, Typed, Places, Steps
<1>2. Copied BY DEF Init, Copied, Sized
<1>3. \A c \in Callers : Course(c)
  BY ChainIs, Numbers DEF Init, Course, Exhausted
<1>4. \A p \in Provider : Bounded(p) BY Numbers DEF Init, Bounded
<1> QED BY <1>1, <1>2, <1>3, <1>4 DEF Inv

LEMMA Stays == Inv /\ [Next \/ Clocks]_vars => Inv'
<1> SUFFICES ASSUME Inv, [Next \/ Clocks]_vars PROVE Inv' OBVIOUS
<1>1. ASSUME NEW c \in Callers, Call(c) \/ Drop(c) PROVE Inv'
  BY <1>1, BeginKeeps, AcquireKeeps, EnterKeeps, WakeKeeps, FetchKeeps, RequestKeeps, RepliedKeeps,
     FinishedKeeps, DropKeeps DEF Call
<1>2. ASSUME UNCHANGED <<Vendor, pc, target, attempt, copy, refused, tries, rejected, breaker, late>> PROVE Inv'
  <2>1. Typed' /\ Copied' BY <1>2 DEF Inv, Typed, Copied, Sized, ImagesOf, Content
  <2>2. \A c \in Callers : Course(c)' BY <1>2 DEF Inv, Course, Exhausted
  <2>3. \A p \in Provider : Left(p)' = Left(p) BY <1>2 DEF Left, P, Pending
  <2>4. \A p \in Provider : Bounded(p)' BY <1>2, <2>3 DEF Inv, Bounded, Most
  <2> QED BY <2>1, <2>2, <2>4 DEF Inv
<1>3. CASE Read BY <1>3, <1>2 DEF Read, stackVars
<1>4. ASSUME NEW p \in Provider, Cools(p) \/ Refills(p) PROVE Inv'
  <2>1. CASE Cools(p) BY <2>1, CoolsKeeps
  <2>2. CASE Refills(p) BY <2>2, <1>2 DEF Refills
  <2> QED BY <1>4, <2>1, <2>2
<1>5. CASE UNCHANGED vars BY <1>5, <1>2 DEF vars, stackVars
<1> QED BY <1>1, <1>3, <1>4, <1>5 DEF Next, Clocks

LEMMA Suffices == Inv => FailsRightly
<1> SUFFICES ASSUME Inv PROVE FailsRightly OBVIOUS
<1>1. Typed /\ Copied /\ \A c \in Callers : Course(c) BY DEF Inv
<1>2. TypeOK
  <2>1. ASSUME NEW c \in Callers, NEW p \in Provider PROVE tries[c][p] \in 0 .. MaxAttempts
    <3>1. Course(c) /\ tries[c][p] \in Nat BY <1>1 DEF Typed
    <3> QED BY <3>1, ChainIs, Numbers DEF Course
  <2>2. \A p \in Provider : breaker[p].state \in {"closed", "open", "half-open"} BY <1>1 DEF Typed
  <2>3. \A c \in Callers : Len(copy[c]) \in {0, ImagesOf(c) + 1} BY <1>1 DEF Copied, Sized
  <2> QED BY <1>1, <2>1, <2>2, <2>3, ChainIs DEF TypeOK, Typed, Places, Steps
<1>3. RefusalEnds BY <1>1 DEF RefusalEnds, Course
<1>4. FailsAfterAll
  <2> SUFFICES ASSUME NEW c \in Callers, pc[c] = "failed", NEW n \in 1 .. Len(Chain),
                      n < target[c] \/ ~refused[c]
               PROVE  Exhausted(c, n)
    BY ChainIs DEF FailsAfterAll, Exhausted
  <2>1. Course(c) /\ target[c] \in 1 .. Len(Chain) BY <1>1 DEF Typed
  <2>2. CASE n < target[c] BY <2>1, <2>2 DEF Course
  <2>3. CASE ~refused[c] /\ ~(n < target[c])
    <3>1. target[c] = Len(Chain) /\ Exhausted(c, target[c]) BY <2>1, <2>3 DEF Course
    <3>2. Len(Chain) \in Nat /\ n \in 1 .. Len(Chain) BY ChainIs
    <3>3. n >= Len(Chain) BY <3>1, <3>2, <2>3
    <3>4. n = target[c] BY <3>1, <3>2, <3>3
    <3> QED BY <3>1, <3>4
  <2> QED BY <2>2, <2>3
<1>5. LateRequestsBounded BY DEF Inv, Bounded, LateRequestsBounded, Most
<1> QED BY <1>2, <1>3, <1>4, <1>5 DEF FailsRightly

(* A call fails only by a refusal or after every provider before its end was asked as often  *)
(* as the retries allow or was behind an open breaker, no provider is asked more often, and     *)
(* behind an open breaker a provider hears at most a series of each caller but one               *)
(* (fallback.rs:50-93, breaker.rs:64-80, retry.rs:33-61).                                         *)
THEOREM CallsFailRightly == Spec => []FailsRightly
<1>1. Spec => []Inv BY Starts, Stays, PTL DEF Spec
<1> QED BY <1>1, Suffices, PTL

-----------------------------------------------------------------------------
(* The stream of a connected call: what its decoder has yielded tells what the     *)
(* vendor has sent.                                                                  *)

Decoders == {"openai", "mistral", "anthropic", "bedrock", "vertex", "ollama", "sse", "ndjson", "python"}
Silent == {"sse", "ndjson"}
Why == Words \cup {"calls"}
Finishes == {"Stop", "Length", "ToolCalls", "ContentFilter", "Other", "Error"}
Chunk == {Text, Error} \cup {End(x) : x \in Finishes}
           \cup {CallPiece(i, id, p) : i \in Nat, id \in Nat \cup {None}, p \in Nat}

(* The index of call i, and which of its pieces the chunks have.                    *)
IndexOf(i) == IF vendor \in {"anthropic", "ollama"} /\ answer.texts > 0 THEN i ELSE i - 1
Came(i, p) ==
  IF vendor \in Silent THEN FALSE
  ELSE IF vendor = "ollama" THEN given.ends /\ p = 1
  ELSE p <= given.calls[i]
Told(i, p) == CallPiece(IndexOf(i), IF p = 1 THEN i ELSE None, p)
Calling == 1 .. answer.calls

Asked0 ==
  /\ vendor \in Decoders /\ answer \in Answers
  /\ given.texts \in 0 .. answer.texts /\ given.ends \in BOOLEAN
  /\ given = [texts |-> given.texts, calls |-> given.calls, ends |-> given.ends]
  /\ given.calls \in [Calling -> 0 .. 2]
  /\ \A i \in Calling : given.calls[i] <= Pieces(vendor)
  /\ given.ends => AllSaid
  /\ line \in {"up", "closed", "cut", "broken"} /\ chunks \in Seq(Chunk)
InOrder == vendor \in {"anthropic", "bedrock", "vertex", "python"} =>
  \A i, j \in Calling : j < i /\ given.calls[i] > 0 => given.calls[j] = Pieces(vendor)
TextsTold == Cardinality(ChunksOf("text")) = given.texts
CallsTold ==
  /\ \A n \in ChunksOf("call") : \E i \in Calling, p \in 1 .. 2 : Came(i, p) /\ chunks[n] = Told(i, p)
  /\ \A i \in Calling, p \in 1 .. 2 : Came(i, p) => \E n \in ChunksOf("call") : chunks[n] = Told(i, p)
  /\ \A m, n \in ChunksOf("call") : m < n /\ chunks[m].index = chunks[n].index => chunks[m].piece < chunks[n].piece

(* What a decoder remembers while it reads.                                           *)
Learnt ==
  IF vendor = "vertex" /\ answer.why = "calls" THEN "Stop"
  ELSE IF vendor = "anthropic" /\ answer.why = "filter" THEN "Other" ELSE Reasons[answer.why]
Known == {i \in Calling : given.calls[i] > 0}
FinishKnown == finish = (IF given.ends /\ vendor # "python" THEN Learnt ELSE None)
LeftLoop == vendor \in {"ollama", "ndjson"} => ~given.ends
ToolsKnown ==
  /\ vendor = "bedrock" => tools = [b \in {Block(i) : i \in Known} |-> IF answer.texts > 0 THEN b - 1 ELSE b]
  /\ vendor = "vertex" => tools = [b \in {i - 1 : i \in Known} |-> b]
Remembers == line = "up" => FinishKnown /\ LeftLoop /\ ToolsKnown

(* How it ended. *)
LastSays(x) == Last(chunks).finish = x
Ended ==
  /\ EndsOnce /\ CutShows
  /\ line = "closed" => given.ends
  /\ (line = "closed" \/ (vendor = "python" /\ given.ends)) /\ ~Consumed /\ answer.why # "filter" => LastSays(Reasons[answer.why])

Reads == Asked0 /\ InOrder /\ TextsTold /\ CallsTold /\ Remembers /\ Ended
DecInv == (vendor = None /\ line = "none" /\ chunks = <<>>) \/ Reads

LEMMA FramesAre == ASSUME NEW f \in Frames
  PROVE /\ f.is \in {"text", "finish", "done", "garbled", "fault", "eof", "call"}
        /\ f.is = "call" => f.call \in Nat
  BY DecoderAssumption DEF Frames, Frame

Adds(cs, l) == chunks' = chunks \o cs /\ line' = l
Keeps == UNCHANGED <<tools, finish>>

Outcome(f) ==
  \/ f.is = "text" /\ Adds(<<Text>>, "up") /\ Keeps
  \/ /\ f.is = "call" /\ vendor \notin Silent \cup {"ollama"}
     /\ Adds(<<Told(f.call, given.calls[f.call] + 1)>>, "up") /\ UNCHANGED finish
     /\ vendor = "bedrock" => tools' = [b \in DOMAIN tools \cup {Block(f.call)} |-> IF answer.texts > 0 THEN b - 1 ELSE b]
     /\ vendor = "vertex" => tools' = [b \in DOMAIN tools \cup {f.call - 1} |-> b]
  \/ f.is = "call" /\ vendor \in Silent /\ UNCHANGED <<chunks, line>> /\ Keeps
  \/ f.is = "finish" /\ vendor \notin {"ndjson", "ollama", "python"} /\ UNCHANGED <<chunks, line, tools>> /\ finish' = Learnt
  \/ f.is = "finish" /\ vendor = "python" /\ Adds(<<End(Reasons[answer.why])>>, "up") /\ Keeps
  \/ f.is = "finish" /\ vendor = "ndjson" /\ Adds(<<End(Reasons[answer.why])>>, "closed")
  \/ f.is = "finish" /\ vendor = "ollama" /\ chunks' = chunks \o OllamaCalls \o <<End(OllamaReason)>> /\ line' = "closed"
  \/ f.is = "garbled" /\ vendor # "bedrock" /\ Adds(<<Error>>, "up") /\ Keeps
  \/ f.is \in {"fault", "garbled"} /\ vendor # "python" /\ chunks' = chunks \o <<Error>> \o <<End("Error")>> /\ line' = "broken"
  \/ f.is = "fault" /\ vendor = "python" /\ Adds(<<Error>>, "broken")
  \/ f.is = "done" /\ vendor \in {"vertex", "python"} /\ UNCHANGED <<chunks, line>> /\ Keeps
  \/ f.is = "eof" /\ vendor = "python" /\ UNCHANGED chunks /\ line' = IF given.ends THEN "closed" ELSE "cut"
  \/ /\ f.is \in {"done", "eof"} /\ vendor # "python" /\ line' = (IF given.ends THEN "closed" ELSE "cut")
     /\ \E x \in Finishes :
          /\ chunks' = chunks \o <<End(x)>>
          /\ given.ends /\ answer.why # "filter" => x = Reasons[answer.why]
          /\ ~given.ends /\ vendor \notin {"vertex", "ollama"} => x = "Other"

LEMMA ReasonsAre == ASSUME answer \in Answers
  PROVE /\ Reasons[answer.why] \in Finishes \ {"Other", "Error"} /\ answer.why \in Why
        /\ answer.why = "calls" => Reasons[answer.why] = "ToolCalls"
        /\ answer.calls \in Nat /\ answer.texts \in Nat /\ (answer.why = "calls" <=> answer.calls > 0)
        /\ answer.why = "length" => Reasons[answer.why] = "Length"
        /\ answer.why = "end" => Reasons[answer.why] = "Stop"
        /\ None \notin Finishes /\ None \notin Nat
  BY DecoderAssumption DEF Answers, Reasons, Finishes, Why, Words


Gives(f, ts, fi, cs, l) == Decoded(f) = [tools |-> ts, finish |-> fi, out |-> cs, last |-> l]
LineAfter(f, l) ==
  IF f.is = "fault" \/ l = "Error" THEN "broken"
  ELSE IF f.is = "eof" \/ l # None THEN IF given'.ends THEN "closed" ELSE "cut"
  ELSE "up"

LEMMA Received ==
  ASSUME Reads, NEW f \in Frames, Receive(f), NEW ts, NEW fi, NEW cs, NEW l, Gives(f, ts, fi, cs, l)
  PROVE  /\ tools' = ts /\ finish' = fi
         /\ chunks' = chunks \o cs \o (IF l = None THEN <<>> ELSE <<End(l)>>)
         /\ line' = LineAfter(f, l)
         /\ Sends(f) /\ line = "up" /\ answer \in Answers /\ chunks \in Seq(Chunk) /\ vendor \in Decoders
         /\ finish = (IF given.ends /\ vendor # "python" THEN Learnt ELSE None)
         /\ given' = [given EXCEPT !.ends = given'.ends, !.texts = given'.texts, !.calls = given'.calls]
         /\ UNCHANGED <<vendor, answer>>
  <1>1. line = "up" /\ answer \in Answers /\ chunks \in Seq(Chunk) /\ Sends(f) /\ vendor \in Decoders
    BY DEF Receive, Reading, Reads, Asked0
  <1>2. finish = (IF given.ends /\ vendor # "python" THEN Learnt ELSE None)
    BY <1>1 DEF Reads, Remembers, FinishKnown, LeftLoop, ToolsKnown
  <1>3. PICK d : d = Decoded(f)
    OBVIOUS
  <1>4. d.tools = ts /\ d.finish = fi /\ d.out = cs /\ d.last = l
    BY <1>3 DEF Gives
  <1>5. /\ tools' = d.tools /\ finish' = d.finish
        /\ chunks' = chunks \o d.out \o (IF d.last = None THEN <<>> ELSE <<End(d.last)>>)
        /\ line' = LineAfter(f, d.last)
        /\ UNCHANGED <<vendor, answer>>
    BY <1>3 DEF Receive, LineAfter
  <1>6. given' = [given EXCEPT !.ends = given'.ends, !.texts = given'.texts, !.calls = given'.calls]
    BY <1>1, FramesAre DEF Sends, Reads, Asked0
  <1> QED
    BY ONLY <1>1, <1>2, <1>4, <1>5, <1>6

LEMMA OpenAiGives ==
  ASSUME vendor \in {"openai", "mistral"}, NEW f \in Frames
  PROVE  /\ f.is = "text" => Gives(f, tools, finish, <<Text>>, None)
         /\ f.is = "call" => Gives(f, tools, finish, <<Piece(f.call, f.call - 1)>>, None)
         /\ f.is = "finish" => Gives(f, tools, Reasons[answer.why], <<>>, None)
         /\ f.is = "garbled" => Gives(f, tools, finish, <<Error>>, None)
         /\ f.is = "fault" => Gives(f, tools, "Error", <<Error>>, "Error")
         /\ f.is \in {"done", "eof"} => Gives(f, tools, finish, <<>>, LastFinish("Other"))
  BY DEF Gives, Decoded, OpenAi, Mistral, Yields, Learns, Leaves, Breaks

LEMMA AnthropicGives ==
  ASSUME vendor = "anthropic", NEW f \in Frames
  PROVE  /\ f.is = "text" => Gives(f, tools, finish, <<Text>>, None)
         /\ f.is = "call" => Gives(f, tools, finish, <<Piece(f.call, Block(f.call))>>, None)
         /\ f.is = "finish" => Gives(f, tools, IF answer.why = "filter" THEN "Other" ELSE Reasons[answer.why], <<>>, None)
         /\ f.is = "garbled" => Gives(f, tools, finish, <<Error>>, None)
         /\ f.is = "fault" => Gives(f, tools, "Error", <<Error>>, "Error")
         /\ f.is \in {"done", "eof"} => Gives(f, tools, finish, <<>>, LastFinish("Other"))
  BY DEF Gives, Decoded, Anthropic, Yields, Learns, Leaves, Breaks

BlocksAfter(f, n) == [b \in DOMAIN tools \union {Block(f.call)} |-> IF b \in DOMAIN tools THEN tools[b] ELSE n]
LEMMA BedrockGives ==
  ASSUME vendor = "bedrock", NEW f \in Frames
  PROVE  /\ f.is = "text" => Gives(f, tools, finish, <<Text>>, None)
         /\ f.is = "call" /\ Block(f.call) \in DOMAIN tools =>
              Gives(f, tools, finish, <<Piece(f.call, tools[Block(f.call)])>>, None)
         /\ f.is = "call" /\ Block(f.call) \notin DOMAIN tools =>
              Gives(f, BlocksAfter(f, Cardinality(DOMAIN tools)), finish, <<Piece(f.call, Cardinality(DOMAIN tools))>>, None)
         /\ f.is = "finish" => Gives(f, tools, Reasons[answer.why], <<>>, None)
         /\ f.is \in {"garbled", "fault"} => Gives(f, tools, "Error", <<Error>>, "Error")
         /\ f.is \in {"done", "eof"} => Gives(f, tools, finish, <<>>, LastFinish("Other"))
  BY DEF Gives, Decoded, Bedrock, Yields, Learns, Leaves, Breaks, BlocksAfter

VertexEnd == IF tools # NoTools /\ LastFinish("Other") \in {"Stop", "Other"} THEN "ToolCalls" ELSE LastFinish("Other")
LEMMA VertexGives ==
  ASSUME vendor = "vertex", NEW f \in Frames
  PROVE  /\ f.is = "text" => Gives(f, tools, finish, <<Text>>, None)
         /\ f.is = "call" =>
              Gives(f, [b \in DOMAIN tools \union {Cardinality(DOMAIN tools)} |-> b], finish, <<Piece(f.call, Cardinality(DOMAIN tools))>>, None)
         /\ f.is = "finish" => Gives(f, tools, IF answer.why = "calls" THEN "Stop" ELSE Reasons[answer.why], <<>>, None)
         /\ f.is = "garbled" => Gives(f, tools, finish, <<Error>>, None)
         /\ f.is = "fault" => Gives(f, tools, "Error", <<Error>>, "Error")
         /\ f.is = "done" => Gives(f, tools, finish, <<>>, None)
         /\ f.is = "eof" => Gives(f, tools, finish, <<>>, VertexEnd)
  BY DEF Gives, Decoded, Vertex, Yields, Learns, Leaves, Breaks, Nothing, VertexEnd

LEMMA OllamaGives ==
  ASSUME vendor = "ollama", NEW f \in Frames, f.is # "call"
  PROVE  /\ f.is = "text" => Gives(f, tools, finish, <<Text>>, None)
         /\ f.is = "finish" => Gives(f, tools, finish, OllamaCalls, OllamaReason)
         /\ f.is = "garbled" => Gives(f, tools, finish, <<Error>>, None)
         /\ f.is = "fault" => Gives(f, tools, "Error", <<Error>>, "Error")
         /\ f.is \in {"done", "eof"} => Gives(f, tools, finish, <<>>, LastFinish("Stop"))
  BY DEF Gives, Decoded, Ollama, Yields, Learns, Leaves, Breaks, Nothing

LEMMA GenericGives ==
  ASSUME vendor \in Silent, NEW f \in Frames
  PROVE  /\ f.is = "text" => Gives(f, tools, finish, <<Text>>, None)
         /\ f.is = "call" => Gives(f, tools, finish, <<>>, None)
         /\ f.is = "finish" /\ vendor = "sse" => Gives(f, tools, Reasons[answer.why], <<>>, None)
         /\ f.is = "finish" /\ vendor = "ndjson" => Gives(f, tools, finish, <<>>, Reasons[answer.why])
         /\ f.is = "garbled" => Gives(f, tools, finish, <<Error>>, None)
         /\ f.is = "fault" => Gives(f, tools, "Error", <<Error>>, "Error")
         /\ f.is \in {"done", "eof"} => Gives(f, tools, finish, <<>>, LastFinish("Other"))
  BY DEF Gives, Decoded, GenericSse, GenericNdjson, Yields, Learns, Leaves, Breaks, Nothing, Silent

LEMMA PythonGives ==
  ASSUME vendor = "python", NEW f \in Frames
  PROVE  /\ f.is = "text" => Gives(f, tools, finish, <<Text>>, None)
         /\ f.is = "call" => Gives(f, tools, finish, <<Piece(f.call, f.call - 1)>>, None)
         /\ f.is = "finish" => Gives(f, tools, finish, <<End(Reasons[answer.why])>>, None)
         /\ f.is \in {"garbled", "fault"} => Gives(f, tools, finish, <<Error>>, None)
         /\ f.is \in {"done", "eof"} => Gives(f, tools, finish, <<>>, None)
  BY DEF Gives, Decoded, PythonChunks, Yields, Learns, Leaves, Breaks, Nothing

LEMMA ChunksAre ==
  /\ Text \in Chunk /\ Error \in Chunk /\ \A x \in Finishes : End(x) \in Chunk
  /\ \A i, p \in Nat, id \in Nat \cup {None} : CallPiece(i, id, p) \in Chunk
  <1>1. Text \in Chunk /\ Error \in Chunk
    BY DEF Chunk
  <1>2. ASSUME NEW x \in Finishes PROVE End(x) \in Chunk
    BY DEF Chunk
  <1>3. ASSUME NEW i \in Nat, NEW p \in Nat, NEW id \in Nat \cup {None} PROVE CallPiece(i, id, p) \in Chunk
    <2>1. CallPiece(i, id, p) \in {CallPiece(j, d, q) : j \in Nat, d \in Nat \cup {None}, q \in Nat}
      OBVIOUS
    <2> QED
      BY <2>1 DEF Chunk
  <1> QED
    BY <1>1, <1>2, <1>3

LEMMA Glued ==
  /\ \A s \in Seq(Chunk) : s \o <<>> = s
  /\ \A s \in Seq(Chunk), c \in Chunk : s \o <<c>> \in Seq(Chunk) /\ s \o <<c>> \o <<>> = s \o <<c>>
                                        /\ s \o <<>> \o <<c>> = s \o <<c>>
  <1>1. ASSUME NEW s \in Seq(Chunk) PROVE s \o <<>> = s
    BY ConcatEmptySeq
  <1>2. ASSUME NEW s \in Seq(Chunk), NEW c \in Chunk PROVE s \o <<c>> \in Seq(Chunk)
    OBVIOUS
  <1> QED
    BY <1>1, <1>2

LEMMA Plain ==
  ASSUME Reads, NEW f \in Frames, Receive(f)
  PROVE  /\ f.is = "text" /\ Gives(f, tools, finish, <<Text>>, None) => Outcome(f)
         /\ f.is = "garbled" /\ vendor # "bedrock" /\ Gives(f, tools, finish, <<Error>>, None) => Outcome(f)
         /\ vendor # "python" /\ f.is \in {"fault", "garbled"} /\ Gives(f, tools, "Error", <<Error>>, "Error") => Outcome(f)
         /\ f.is = "done" /\ vendor \in {"vertex", "python"} /\ Gives(f, tools, finish, <<>>, None) => Outcome(f)
  <1>1. ASSUME NEW ts, NEW fi, NEW c \in Chunk, Gives(f, ts, fi, <<c>>, None), f.is \in {"text", "garbled"}
        PROVE  Adds(<<c>>, "up") /\ tools' = ts /\ finish' = fi
    <2>1. chunks' = chunks \o <<c>> \o <<>> /\ line' = LineAfter(f, None) /\ tools' = ts /\ finish' = fi
          /\ chunks \in Seq(Chunk)
      BY <1>1, Received
    <2>2. None # "Error"
      BY DecoderAssumption
    <2> QED
      BY <1>1, <2>1, <2>2, Glued DEF Adds, LineAfter
  <1>2. f.is = "text" /\ Gives(f, tools, finish, <<Text>>, None) => Outcome(f)
    BY <1>1, ChunksAre DEF Outcome, Keeps
  <1>3. f.is = "garbled" /\ vendor # "bedrock" /\ Gives(f, tools, finish, <<Error>>, None) => Outcome(f)
    BY <1>1, ChunksAre DEF Outcome, Keeps
  <1>4. ASSUME vendor # "python", f.is \in {"fault", "garbled"}, Gives(f, tools, "Error", <<Error>>, "Error")
        PROVE  Outcome(f)
    <2>1. "Error" # None
      BY DecoderAssumption
    <2>2. Error \in Chunk /\ End("Error") \in Chunk
      BY ChunksAre DEF Finishes
    <2>6. PICK l : l = "Error" /\ l # None
      BY <2>1
    <2>7. PICK e : e = Error
      OBVIOUS
    <2>8. PICK g : g = End(l)
      OBVIOUS
    <2>5. Gives(f, tools, l, <<e>>, l)
      BY <1>4, <2>6, <2>7
    <2>9. PICK t : t = IF l = None THEN <<>> ELSE <<End(l)>>
      OBVIOUS
    <2>10. chunks' = chunks \o <<e>> \o t /\ line' = LineAfter(f, l)
      BY ONLY <2>5, <2>9, Received, Reads, Receive(f), f \in Frames
    <2>11. t = <<g>>
      BY ONLY <2>6, <2>8, <2>9
    <2>3. chunks' = chunks \o <<e>> \o <<g>> /\ line' = LineAfter(f, l)
      BY ONLY <2>10, <2>11
    <2>4. line' = "broken" /\ chunks' = chunks \o <<Error>> \o <<End("Error")>>
      BY <2>3, <2>6, <2>7, <2>8 DEF LineAfter
    <2> QED
      BY <1>4, <2>3, <2>4 DEF Outcome
  <1>5. ASSUME f.is = "done", vendor \in {"vertex", "python"}, Gives(f, tools, finish, <<>>, None)
        PROVE  Outcome(f)
    <2>1. chunks' = chunks \o <<>> \o <<>> /\ line' = LineAfter(f, None) /\ Keeps /\ line = "up" /\ chunks \in Seq(Chunk)
      BY <1>5, Received DEF Keeps
    <2>2. None # "Error"
      BY DecoderAssumption
    <2>3. UNCHANGED <<chunks, line>>
      BY <2>1, <2>2, <1>5, Glued DEF LineAfter
    <2> QED
      BY <1>5, <2>1, <2>3 DEF Outcome
  <1> QED
    BY <1>2, <1>3, <1>4, <1>5

LEMMA Calls ==
  ASSUME Reads, NEW f \in Frames, Receive(f), f.is = "call", vendor \notin Silent \cup {"ollama"},
         NEW ts, Gives(f, ts, finish, <<Piece(f.call, IndexOf(f.call))>>, None),
         vendor = "bedrock" => ts = [b \in DOMAIN tools \cup {Block(f.call)} |-> IF answer.texts > 0 THEN b - 1 ELSE b],
         vendor = "vertex" => ts = [b \in DOMAIN tools \cup {f.call - 1} |-> b]
  PROVE  Outcome(f)
  <1>1. CallMayCome(f.call)
    BY Received, FramesAre DEF Sends
  <1>2. f.call \in Calling /\ given.calls[f.call] \in 0 .. 2 /\ answer.calls \in Nat
    BY <1>1, ReasonsAre DEF CallMayCome, Reads, Asked0, Calling
  <1>3. Piece(f.call, IndexOf(f.call)) = Told(f.call, given.calls[f.call] + 1)
    BY <1>2 DEF Piece, Told, Id
  <1>4. Piece(f.call, IndexOf(f.call)) \in Chunk
    <2>1. IndexOf(f.call) \in Nat /\ f.call \in Nat /\ given.calls[f.call] + 1 \in Nat
      BY <1>2 DEF Calling, IndexOf
    <2> QED
      BY <2>1, ChunksAre DEF Piece, Id
  <1>5. /\ chunks' = chunks \o <<Piece(f.call, IndexOf(f.call))>> \o <<>> /\ line' = LineAfter(f, None)
        /\ tools' = ts /\ finish' = finish /\ chunks \in Seq(Chunk)
    BY Received
  <1>6. None # "Error"
    BY DecoderAssumption
  <1>7. Adds(<<Told(f.call, given.calls[f.call] + 1)>>, "up")
    BY <1>3, <1>4, <1>5, <1>6, Glued DEF Adds, LineAfter
  <1> QED
    BY <1>5, <1>7 DEF Outcome

LEMMA Finishing ==
  ASSUME Reads, NEW f \in Frames, Receive(f)
  PROVE  /\ f.is = "finish" /\ vendor \notin {"ndjson", "ollama", "python"} /\ Gives(f, tools, Learnt, <<>>, None) => Outcome(f)
         /\ f.is = "finish" /\ vendor = "python" /\ Gives(f, tools, finish, <<End(Reasons[answer.why])>>, None) => Outcome(f)
         /\ f.is = "finish" /\ vendor = "ndjson" /\ Gives(f, tools, finish, <<>>, Reasons[answer.why]) => Outcome(f)
         /\ f.is = "eof" /\ vendor = "python" /\ Gives(f, tools, finish, <<>>, None) => Outcome(f)
         /\ f.is = "call" /\ vendor \in Silent /\ Gives(f, tools, finish, <<>>, None) => Outcome(f)
  <1>1. answer \in Answers /\ chunks \in Seq(Chunk) /\ line = "up"
    BY DEF Reads, Asked0, Receive, Reading
  <1>2. None # "Error" /\ End(Reasons[answer.why]) \in Chunk /\ Reasons[answer.why] # None /\ Reasons[answer.why] # "Error"
    BY <1>1, DecoderAssumption, ReasonsAre, ChunksAre
  <1>3. ASSUME f.is = "finish", vendor \notin {"ndjson", "ollama", "python"}, Gives(f, tools, Learnt, <<>>, None)
        PROVE  Outcome(f)
    <2>1. chunks' = chunks \o <<>> \o <<>> /\ line' = LineAfter(f, None) /\ tools' = tools /\ finish' = Learnt
      BY <1>3, Received
    <2>2. UNCHANGED <<chunks, line, tools>>
      BY <2>1, <1>1, <1>2, <1>3, Glued DEF LineAfter
    <2> QED
      BY <2>1, <2>2, <1>3 DEF Outcome
  <1>4. ASSUME f.is = "finish", vendor = "python", Gives(f, tools, finish, <<End(Reasons[answer.why])>>, None)
        PROVE  Outcome(f)
    <2>1. chunks' = chunks \o <<End(Reasons[answer.why])>> \o <<>> /\ line' = LineAfter(f, None) /\ tools' = tools /\ finish' = finish
      BY <1>4, Received
    <2>2. Adds(<<End(Reasons[answer.why])>>, "up") /\ Keeps
      BY <2>1, <1>1, <1>2, <1>4, Glued DEF LineAfter, Adds, Keeps
    <2> QED
      BY <2>2, <1>4 DEF Outcome
  <1>5. ASSUME f.is = "finish", vendor = "ndjson", Gives(f, tools, finish, <<>>, Reasons[answer.why])
        PROVE  Outcome(f)
    <2>1. chunks' = chunks \o <<>> \o <<End(Reasons[answer.why])>> /\ line' = LineAfter(f, Reasons[answer.why])
      BY <1>5, <1>2, Received
    <2>2. given'.ends
      BY <1>5, Received DEF Sends, Reads, Asked0
    <2>3. Adds(<<End(Reasons[answer.why])>>, "closed")
      BY <2>1, <2>2, <1>1, <1>2, <1>5, Glued DEF LineAfter, Adds
    <2> QED
      BY <2>3, <1>5 DEF Outcome
  <1>6. ASSUME f.is = "eof", vendor = "python", Gives(f, tools, finish, <<>>, None)
        PROVE  Outcome(f)
    <2>1. chunks' = chunks \o <<>> \o <<>> /\ line' = LineAfter(f, None)
      BY <1>6, Received
    <2>2. given' = given
      BY <1>6, Received DEF Sends
    <2>3. chunks' = chunks /\ line' = IF given.ends THEN "closed" ELSE "cut"
      BY <2>1, <2>2, <1>1, <1>2, <1>6, Glued DEF LineAfter
    <2> QED
      BY <2>3, <1>6 DEF Outcome
  <1>7. ASSUME f.is = "call", vendor \in Silent, Gives(f, tools, finish, <<>>, None)
        PROVE  Outcome(f)
    <2>1. chunks' = chunks \o <<>> \o <<>> /\ line' = LineAfter(f, None) /\ Keeps
      BY <1>7, Received DEF Keeps
    <2>2. UNCHANGED <<chunks, line>>
      BY <2>1, <1>1, <1>2, <1>7, Glued DEF LineAfter
    <2> QED
      BY <2>1, <2>2, <1>7 DEF Outcome
  <1> QED
    BY <1>3, <1>4, <1>5, <1>6, <1>7

LEMMA Closing ==
  ASSUME Reads, NEW f \in Frames, Receive(f), f.is \in {"done", "eof"}, vendor # "python",
         NEW x \in Finishes, x # "Error", Gives(f, tools, finish, <<>>, x),
         given.ends /\ answer.why # "filter" => x = Reasons[answer.why],
         ~given.ends /\ vendor \notin {"vertex", "ollama"} => x = "Other"
  PROVE  Outcome(f)
  <1>1. answer \in Answers /\ chunks \in Seq(Chunk) /\ line = "up"
    BY DEF Reads, Asked0, Receive, Reading
  <1>2. x # None /\ End(x) \in Chunk
    BY <1>1, ReasonsAre, ChunksAre
  <1>3. chunks' = chunks \o <<>> \o <<End(x)>> /\ line' = LineAfter(f, x)
    BY <1>2, Received
  <1>4. given'.ends = given.ends
    BY Received DEF Sends
  <1>5. chunks' = chunks \o <<End(x)>> /\ line' = IF given.ends THEN "closed" ELSE "cut"
    BY <1>1, <1>2, <1>3, <1>4, Glued DEF LineAfter
  <1> QED
    BY <1>5 DEF Outcome

LEMMA LastFinishIs ==
  ASSUME Reads, line = "up", vendor # "python", NEW x \in {"Other", "Stop"}
  PROVE  LastFinish(x) = IF given.ends THEN Learnt ELSE x
  BY ReasonsAre DEF LastFinish, Reads, Remembers, FinishKnown, LeftLoop, ToolsKnown, Asked0, Learnt, Finishes

LEMMA LearntIs ==
  ASSUME Reads
  PROVE  /\ Learnt \in Finishes \ {"Error"}
         /\ vendor # "vertex" /\ answer.why # "filter" => Learnt = Reasons[answer.why]
  BY ReasonsAre DEF Reads, Asked0, Learnt, Finishes

(* A decoder that leaves with the reason it learnt.                                    *)
LEMMA LeavesRight ==
  ASSUME Reads, NEW f \in Frames, Receive(f), f.is \in {"done", "eof"}, vendor \notin {"python", "vertex", "ollama"},
         Gives(f, tools, finish, <<>>, LastFinish("Other"))
  PROVE  Outcome(f)
  <1>1. line = "up"
    BY DEF Receive, Reading
  <1>2. PICK x : x = LastFinish("Other")
    OBVIOUS
  <1>3. x = IF given.ends THEN Learnt ELSE "Other"
    BY <1>1, <1>2, LastFinishIs
  <1>4. x \in Finishes /\ x # "Error"
    BY <1>3, LearntIs DEF Finishes
  <1>5. /\ given.ends /\ answer.why # "filter" => x = Reasons[answer.why]
        /\ ~given.ends => x = "Other"
    BY <1>3, LearntIs
  <1> QED
    BY <1>2, <1>4, <1>5, Closing

LEMMA OpenAiDoes ==
  ASSUME Reads, vendor \in {"openai", "mistral"}, NEW f \in Frames, Receive(f)
  PROVE  Outcome(f)
  <1>1. IndexOf(f.call) = f.call - 1 /\ Learnt = Reasons[answer.why]
    BY DEF IndexOf, Learnt
  <1>2. f.is \in {"text", "finish", "done", "garbled", "fault", "eof", "call"}
    BY FramesAre
  <1>3. CASE f.is \in {"text", "garbled", "fault"}
    BY <1>3, OpenAiGives, Plain
  <1>4. CASE f.is = "call"
    BY <1>1, <1>4, OpenAiGives, Calls DEF Silent
  <1>5. CASE f.is = "finish"
    BY <1>1, <1>5, OpenAiGives, Finishing
  <1>6. CASE f.is \in {"done", "eof"}
    BY <1>6, OpenAiGives, LeavesRight
  <1> QED
    BY <1>2, <1>3, <1>4, <1>5, <1>6

LEMMA AnthropicDoes ==
  ASSUME Reads, vendor = "anthropic", NEW f \in Frames, Receive(f)
  PROVE  Outcome(f)
  <1>1. IndexOf(f.call) = Block(f.call) /\ Learnt = IF answer.why = "filter" THEN "Other" ELSE Reasons[answer.why]
    BY DEF IndexOf, Block, Learnt
  <1>2. f.is \in {"text", "finish", "done", "garbled", "fault", "eof", "call"}
    BY FramesAre
  <1>3. CASE f.is \in {"text", "garbled", "fault"}
    BY <1>3, AnthropicGives, Plain
  <1>4. CASE f.is = "call"
    BY <1>1, <1>4, AnthropicGives, Calls DEF Silent
  <1>5. CASE f.is = "finish"
    BY <1>1, <1>5, AnthropicGives, Finishing
  <1>6. CASE f.is \in {"done", "eof"}
    BY <1>6, AnthropicGives, LeavesRight
  <1> QED
    BY <1>2, <1>3, <1>4, <1>5, <1>6

LEMMA GenericDoes ==
  ASSUME Reads, vendor \in Silent, NEW f \in Frames, Receive(f)
  PROVE  Outcome(f)
  <1>1. Learnt = Reasons[answer.why] /\ vendor \notin {"python", "vertex", "ollama", "bedrock"}
    BY DEF Learnt, Silent
  <1>2. f.is \in {"text", "finish", "done", "garbled", "fault", "eof", "call"}
    BY FramesAre
  <1>3. CASE f.is \in {"text", "garbled", "fault"}
    BY <1>1, <1>3, GenericGives, Plain
  <1>4. CASE f.is = "call"
    BY <1>4, GenericGives, Finishing
  <1>5. CASE f.is = "finish"
    BY <1>1, <1>5, GenericGives, Finishing DEF Silent
  <1>6. CASE f.is \in {"done", "eof"}
    BY <1>1, <1>6, GenericGives, LeavesRight
  <1> QED
    BY <1>2, <1>3, <1>4, <1>5, <1>6

LEMMA PythonDoes ==
  ASSUME Reads, vendor = "python", NEW f \in Frames, Receive(f)
  PROVE  Outcome(f)
  <1>1. IndexOf(f.call) = f.call - 1
    BY DEF IndexOf
  <1>2. f.is \in {"text", "finish", "done", "garbled", "fault", "eof", "call"}
    BY FramesAre
  <1>3. CASE f.is \in {"text", "garbled", "done"}
    BY <1>3, PythonGives, Plain
  <1>4. CASE f.is = "call"
    BY <1>1, <1>4, PythonGives, Calls DEF Silent
  <1>5. CASE f.is \in {"finish", "eof"}
    BY <1>5, PythonGives, Finishing
  <1>6. CASE f.is = "fault"
    <2>1. Gives(f, tools, finish, <<Error>>, None)
      BY <1>6, PythonGives
    <2>2. chunks' = chunks \o <<Error>> \o <<>> /\ line' = LineAfter(f, None) /\ chunks \in Seq(Chunk)
      BY <2>1, Received
    <2>3. Adds(<<Error>>, "broken")
      BY <1>6, <2>2, Glued, ChunksAre DEF Adds, LineAfter
    <2> QED
      BY <1>6, <2>3 DEF Outcome
  <1> QED
    BY <1>2, <1>3, <1>4, <1>5, <1>6

LEMMA Shifted ==
  ASSUME NEW n \in Nat, NEW k \in {0, 1}
  PROVE  Cardinality({j - k : j \in 1 .. n}) = n
  <1>1. {j - k : j \in 1 .. n} = 1 - k .. n - k
    <2>1. ASSUME NEW b \in 1 - k .. n - k PROVE b \in {j - k : j \in 1 .. n}
      <3>1. b + k \in 1 .. n /\ b = (b + k) - k
        OBVIOUS
      <3> QED
        BY <3>1
    <2> QED
      BY <2>1
  <1>2. 1 - k \in Int /\ n - k \in Int /\ (1 - k > n - k <=> n = 0) /\ n - k - (1 - k) + 1 = n
    OBVIOUS
  <1>3. PICK a, b \in Int : a = 1 - k /\ b = n - k
    BY <1>2
  <1>4. Cardinality(a .. b) = IF a > b THEN 0 ELSE b - a + 1
    BY FS_Interval
  <1> QED
    BY <1>1, <1>2, <1>3, <1>4

LEMMA KnownIs ==
  ASSUME Reads, line = "up", NEW i, CallMayCome(i), vendor \in {"bedrock", "vertex"}
  PROVE  /\ i \in Calling /\ i \in Nat \ {0} /\ given.calls[i] \in Nat
         /\ Known = IF given.calls[i] > 0 THEN 1 .. i ELSE 1 .. i - 1
         /\ vendor = "vertex" => given.calls[i] = 0
  <1>1. answer.calls \in Nat /\ i \in Calling /\ given.calls \in [Calling -> 0 .. 2] /\ DOMAIN given.calls = Calling
    BY ReasonsAre DEF Reads, Asked0, CallMayCome
  <1>2. given.calls[i] < Pieces(vendor) /\ Pieces(vendor) \in 1 .. 2 /\ vendor = "vertex" => Pieces(vendor) = 1
    BY DEF CallMayCome, Pieces
  <1>3. \A j \in Calling : j < i => given.calls[j] > 0
    <2>1. \A j \in 1 .. i - 1 : given.calls[j] = Pieces(vendor)
      BY DEF CallMayCome, Blocks, Whole
    <2>2. Pieces(vendor) > 0
      BY DEF Pieces
    <2> QED
      BY <1>1, <2>1, <2>2 DEF Calling
  <1>4. \A j \in Calling : j > i => ~(given.calls[j] > 0)
    <2>1. \A j \in Calling : i < j /\ given.calls[j] > 0 => given.calls[i] = Pieces(vendor)
      BY <1>1 DEF Reads, InOrder
    <2>2. given.calls[i] < Pieces(vendor) /\ given.calls[i] \in Nat /\ Pieces(vendor) \in Nat
      BY <1>1 DEF CallMayCome, Pieces
    <2> QED
      BY <1>1, <2>1, <2>2 DEF Calling
  <1>5. i \in 1 .. answer.calls
    BY <1>1 DEF Calling
  <1>6. Known = IF given.calls[i] > 0 THEN 1 .. i ELSE 1 .. i - 1
    <2>1. ASSUME NEW j \in Nat PROVE j \in Known <=> j \in IF given.calls[i] > 0 THEN 1 .. i ELSE 1 .. i - 1
      <3>1. CASE j < i
        BY <3>1, <1>1, <1>3, <1>5, <2>1 DEF Known, Calling
      <3>2. CASE j = i
        BY <3>2, <1>1, <1>5 DEF Known, Calling
      <3>3. CASE j > i
        BY <3>3, <1>1, <1>4, <1>5 DEF Known, Calling
      <3> QED
        BY <3>1, <3>2, <3>3, <1>5, <2>1
    <2>2. Known \subseteq Nat
      BY <1>1 DEF Known, Calling
    <2>3. ASSUME given.calls[i] > 0 PROVE Known = 1 .. i
      <3>1. \A j \in Nat : j \in Known <=> j \in 1 .. i
        BY ONLY <2>1, <2>3
      <3>2. 1 .. i \subseteq Nat
        BY ONLY <1>5
      <3>3. PICK K, S : K = Known /\ S = 1 .. i
        OBVIOUS
      <3>4. K \subseteq Nat /\ S \subseteq Nat /\ \A j \in Nat : j \in K <=> j \in S
        BY ONLY <2>2, <3>1, <3>2, <3>3
      <3>5. K = S
        BY ONLY <3>4
      <3> QED
        BY ONLY <3>3, <3>5
    <2>4. ASSUME ~(given.calls[i] > 0) PROVE Known = 1 .. i - 1
      <3>1. \A j \in Nat : j \in Known <=> j \in 1 .. i - 1
        BY ONLY <2>1, <2>4
      <3>2. 1 .. i - 1 \subseteq Nat
        BY ONLY <1>5
      <3>3. PICK K, S : K = Known /\ S = 1 .. i - 1
        OBVIOUS
      <3>4. K \subseteq Nat /\ S \subseteq Nat /\ \A j \in Nat : j \in K <=> j \in S
        BY ONLY <2>2, <3>1, <3>2, <3>3
      <3>5. K = S
        BY ONLY <3>4
      <3> QED
        BY ONLY <3>3, <3>5
    <2> QED
      BY ONLY <2>3, <2>4
  <1>7. vendor = "vertex" => given.calls[i] = 0
    <2>1. vendor = "vertex" => Pieces(vendor) = 1
      BY DEF Pieces
    <2> QED
      BY <1>1, <2>1 DEF CallMayCome
  <1> QED
    BY <1>1, <1>5, <1>6, <1>7

LEMMA BedrockDoes ==
  ASSUME Reads, vendor = "bedrock", NEW f \in Frames, Receive(f)
  PROVE  Outcome(f)
  <1>1. IndexOf(f.call) = f.call - 1 /\ Learnt = Reasons[answer.why] /\ line = "up"
    BY DEF IndexOf, Learnt, Receive, Reading
  <1>2. f.is \in {"text", "finish", "done", "garbled", "fault", "eof", "call"}
    BY FramesAre
  <1>3. CASE f.is \in {"text", "garbled", "fault"}
    BY <1>3, BedrockGives, Plain
  <1>4. CASE f.is = "call"
    <2> DEFINE i == f.call
    <2>1. CallMayCome(i)
      BY <1>4, Received, BedrockGives DEF Receive, Sends
    <2>2. /\ i \in Calling /\ i \in Nat \ {0} /\ given.calls[i] \in Nat
          /\ Known = IF given.calls[i] > 0 THEN 1 .. i ELSE 1 .. i - 1
      BY <1>1, <2>1, KnownIs
    <2>3. tools = [b \in {Block(j) : j \in Known} |-> IF answer.texts > 0 THEN b - 1 ELSE b]
      BY <1>1 DEF Reads, Remembers, FinishKnown, LeftLoop, ToolsKnown
    <2>4. CASE Block(i) \in DOMAIN tools
      <3>1. tools[Block(i)] = i - 1
        BY <2>2, <2>3, <2>4 DEF Block
      <3>2. tools = [b \in DOMAIN tools \cup {Block(i)} |-> IF answer.texts > 0 THEN b - 1 ELSE b]
        BY <2>3, <2>4
      <3>3. Gives(f, tools, finish, <<Piece(f.call, IndexOf(f.call))>>, None)
        BY <1>1, <1>4, <2>4, <3>1, BedrockGives
      <3> QED
        BY <1>4, <3>2, <3>3, Calls DEF Silent
    <2>5. CASE Block(i) \notin DOMAIN tools
      <3>1. given.calls[i] = 0 /\ Known = 1 .. i - 1
        BY <2>2, <2>3, <2>5
      <3>2. DOMAIN tools = {Block(j) : j \in 1 .. i - 1}
        BY <2>3, <3>1
      <3>3. PICK k \in {0, 1} : k = IF answer.texts > 0 THEN 0 ELSE 1
        OBVIOUS
      <3>7. DOMAIN tools = {j - k : j \in 1 .. i - 1}
        BY <3>2, <3>3, <2>2 DEF Block
      <3>8. i - 1 \in Nat
        BY <2>2
      <3>4. Cardinality(DOMAIN tools) = i - 1
        BY <3>7, <3>8, Shifted
      <3>5. BlocksAfter(f, Cardinality(DOMAIN tools)) = [b \in DOMAIN tools \cup {Block(i)} |-> IF answer.texts > 0 THEN b - 1 ELSE b]
        BY <2>2, <2>3, <2>5, <3>4 DEF BlocksAfter, Block
      <3>6. Gives(f, BlocksAfter(f, Cardinality(DOMAIN tools)), finish, <<Piece(f.call, IndexOf(f.call))>>, None)
        BY <1>1, <1>4, <2>5, <3>4, BedrockGives
      <3> QED
        BY <1>4, <3>5, <3>6, Calls DEF Silent
    <2> QED
      BY <2>4, <2>5
  <1>5. CASE f.is = "finish"
    BY <1>1, <1>5, BedrockGives, Finishing
  <1>6. CASE f.is \in {"done", "eof"}
    BY <1>6, BedrockGives, LeavesRight
  <1> QED
    BY <1>2, <1>3, <1>4, <1>5, <1>6

LEMMA VertexDoes ==
  ASSUME Reads, vendor = "vertex", NEW f \in Frames, Receive(f)
  PROVE  Outcome(f)
  <1>1. IndexOf(f.call) = f.call - 1 /\ Learnt = (IF answer.why = "calls" THEN "Stop" ELSE Reasons[answer.why]) /\ line = "up"
    BY DEF IndexOf, Learnt, Receive, Reading
  <1>2. f.is \in {"text", "finish", "done", "garbled", "fault", "eof", "call"}
    BY FramesAre
  <1>3. CASE f.is \in {"text", "garbled", "fault", "done"}
    BY <1>3, VertexGives, Plain
  <1>7. tools = [b \in {j - 1 : j \in Known} |-> b]
    BY <1>1 DEF Reads, Remembers, FinishKnown, LeftLoop, ToolsKnown
  <1>4. CASE f.is = "call"
    <2> DEFINE i == f.call
    <2>1. CallMayCome(i)
      BY <1>4, Received, VertexGives DEF Receive, Sends
    <2>2. i \in Nat \ {0} /\ Known = 1 .. i - 1
      BY <1>1, <2>1, KnownIs
    <2>3. DOMAIN tools = {j - 1 : j \in 1 .. i - 1} /\ i - 1 \in Nat
      BY <1>7, <2>2
    <2>4. Cardinality(DOMAIN tools) = i - 1
      BY <2>3, Shifted
    <2>5. Gives(f, [b \in DOMAIN tools \cup {i - 1} |-> b], finish, <<Piece(f.call, IndexOf(f.call))>>, None)
      BY <1>1, <1>4, <2>4, VertexGives
    <2> QED
      BY <1>4, <2>5, Calls DEF Silent
  <1>5. CASE f.is = "finish"
    BY <1>1, <1>5, VertexGives, Finishing
  <1>6. CASE f.is = "eof"
    <2>1. PICK x : x = VertexEnd
      OBVIOUS
    <2>2. PICK l : l = LastFinish("Other")
      OBVIOUS
    <2>3. l = (IF given.ends THEN Learnt ELSE "Other") /\ answer \in Answers
      BY <1>1, <2>2, LastFinishIs DEF Reads, Asked0
    <2>4. x = IF tools # NoTools /\ l \in {"Stop", "Other"} THEN "ToolCalls" ELSE l
      BY <2>1, <2>2 DEF VertexEnd
    <2>5. x \in Finishes /\ x # "Error"
      BY <2>3, <2>4, LearntIs DEF Finishes
    <2>6. ASSUME given.ends, answer.why # "filter" PROVE x = Reasons[answer.why]
      <3>1. l = IF answer.why = "calls" THEN "Stop" ELSE Reasons[answer.why]
        BY <1>1, <2>3, <2>6
      <3>2. CASE answer.why = "calls"
        <4>1. 1 \in Known
          <5>1. 1 \in Calling
            BY <2>3, <3>2, ReasonsAre DEF Calling
          <5>2. given.calls \in [Calling -> 0 .. 2] /\ given.calls[1] = Pieces(vendor) /\ Pieces(vendor) = 1
            BY <2>6, <5>1 DEF Reads, Asked0, AllSaid, Pieces
          <5> QED
            BY <5>1, <5>2 DEF Known
        <4>2. DOMAIN tools # {}
          BY <1>7, <4>1
        <4>3. DOMAIN NoTools = {}
          BY DEF NoTools
        <4>4. x = "ToolCalls"
          BY <2>4, <3>1, <3>2, <4>2, <4>3
        <4> QED
          BY <2>3, <3>2, <4>4, ReasonsAre
      <3>3. CASE answer.why # "calls"
        <4>1. Known = {}
          BY <2>3, <3>3, ReasonsAre DEF Known, Calling
        <4>2. tools = NoTools
          BY <1>7, <4>1 DEF NoTools
        <4> QED
          BY <2>4, <3>1, <3>3, <4>2
      <3> QED
        BY <3>2, <3>3
    <2>7. Gives(f, tools, finish, <<>>, x)
      BY <1>6, <2>1, VertexGives
    <2> QED
      BY <1>6, <2>5, <2>6, <2>7, Closing
  <1> QED
    BY <1>2, <1>3, <1>4, <1>5, <1>6

LEMMA OllamaDoes ==
  ASSUME Reads, vendor = "ollama", NEW f \in Frames, Receive(f)
  PROVE  Outcome(f)
  <1>1. line = "up" /\ ~given.ends /\ chunks \in Seq(Chunk) /\ answer \in Answers
    BY DEF Receive, Reading, Reads, Remembers, FinishKnown, LeftLoop, ToolsKnown, Asked0
  <1>2. f.is \in {"text", "finish", "done", "garbled", "fault", "eof"}
    BY FramesAre DEF Receive, Sends, CallMayCome
  <1>3. CASE f.is \in {"text", "garbled", "fault"}
    BY <1>3, OllamaGives, Plain
  <1>4. CASE f.is = "finish"
    <2>1. PICK x : x = OllamaReason
      OBVIOUS
    <2>2. x # None /\ x # "Error"
      BY <2>1, ReasonsAre, <1>1 DEF OllamaReason, Finishes
    <2>3. PICK cs : cs = OllamaCalls
      OBVIOUS
    <2>4. Gives(f, tools, finish, cs, x)
      BY <1>4, <2>1, <2>3, OllamaGives
    <2>5. chunks' = chunks \o cs \o <<End(x)>> /\ line' = LineAfter(f, x)
      BY <2>2, <2>4, Received
    <2>6. given'.ends
      BY <1>4 DEF Receive, Sends, Reads, Asked0
    <2>7. line' = "closed"
      BY <1>4, <2>2, <2>5, <2>6 DEF LineAfter
    <2> QED
      BY <1>4, <2>1, <2>3, <2>5, <2>7 DEF Outcome
  <1>5. CASE f.is \in {"done", "eof"}
    <2>1. PICK x : x = LastFinish("Stop")
      OBVIOUS
    <2>2. x = "Stop"
      BY <1>1, <2>1, LastFinishIs
    <2>3. Gives(f, tools, finish, <<>>, x)
      BY <1>5, <2>1, OllamaGives
    <2> QED
      BY <1>1, <1>5, <2>2, <2>3, Closing DEF Finishes
  <1> QED
    BY <1>2, <1>3, <1>4, <1>5

LEMMA Does == ASSUME Reads, NEW f \in Frames, Receive(f) PROVE Outcome(f)
  BY OpenAiDoes, AnthropicDoes, BedrockDoes, VertexDoes, OllamaDoes, GenericDoes, PythonDoes
  DEF Reads, Asked0, Decoders, Silent

-----------------------------------------------------------------------------
(* What a step adds to the chunks. *)

Kinds(s, k) == {n \in DOMAIN s : s[n].kind = k}
Extends(s, t) == Len(s) <= Len(t) /\ \A n \in DOMAIN s : n \in DOMAIN t /\ t[n] = s[n]

Longer(s, c, t) ==
  /\ t \in Seq(Chunk) /\ Len(t) = Len(s) + 1 /\ Len(s) \in Nat /\ Last(t) = c /\ t[Len(s) + 1] = c /\ Extends(s, t)
  /\ Len(s) + 1 \in DOMAIN t /\ Len(s) + 1 \notin DOMAIN s
  /\ \A k : Kinds(t, k) = IF c.kind = k THEN Kinds(s, k) \cup {Len(s) + 1} ELSE Kinds(s, k)
LEMMA OneMore ==
  ASSUME NEW s \in Seq(Chunk), NEW c \in Chunk, NEW t, t = s \o <<c>>
  PROVE  Longer(s, c, t)
  <1>1. t \in Seq(Chunk) /\ Len(t) = Len(s) + 1 /\ Len(s) \in Nat /\ t[Len(s) + 1] = c
    OBVIOUS
  <1>2. DOMAIN s = 1 .. Len(s) /\ DOMAIN t = 1 .. Len(s) + 1 /\ \A n \in 1 .. Len(s) : t[n] = s[n]
    OBVIOUS
  <1>3. Last(t) = c
    BY <1>1 DEF Last
  <1>4. DOMAIN t = DOMAIN s \cup {Len(s) + 1} /\ Len(s) + 1 \notin DOMAIN s
    BY <1>1, <1>2
  <1>5. ASSUME NEW k
        PROVE  Kinds(t, k) = IF c.kind = k THEN Kinds(s, k) \cup {Len(s) + 1} ELSE Kinds(s, k)
    BY <1>1, <1>2, <1>4, Zenon DEF Kinds
  <1>6. Extends(s, t)
    BY <1>1, <1>2 DEF Extends
  <1> QED
    BY <1>1, <1>3, <1>4, <1>5, <1>6 DEF Longer

LEMMA KindsAre ==
  /\ Text.kind = "text" /\ Error.kind = "error" /\ (\A x : End(x).kind = "end" /\ End(x).finish = x)
  /\ \A i, id, p : /\ CallPiece(i, id, p).kind = "call" /\ CallPiece(i, id, p).index = i
                   /\ CallPiece(i, id, p).id = id /\ CallPiece(i, id, p).piece = p
  BY DEF Text, Error, End, CallPiece

LEMMA OneAdded ==
  ASSUME chunks \in Seq(Chunk), NEW c \in Chunk, chunks' = chunks \o <<c>>
  PROVE  /\ chunks' \in Seq(Chunk) /\ Extends(chunks, chunks') /\ Last(chunks') = c /\ Len(chunks') = Len(chunks) + 1
         /\ chunks'[Len(chunks) + 1] = c /\ Len(chunks) \in Nat /\ Len(chunks) + 1 \in DOMAIN chunks' /\ Len(chunks) + 1 \notin DOMAIN chunks
         /\ \A k : ChunksOf(k)' = IF c.kind = k THEN ChunksOf(k) \cup {Len(chunks) + 1} ELSE ChunksOf(k)
  <1>1. PICK s, t : s = chunks /\ t = chunks' /\ s \in Seq(Chunk) /\ t = s \o <<c>>
    OBVIOUS
  <1>2. \A k : ChunksOf(k) = Kinds(s, k) /\ ChunksOf(k)' = Kinds(t, k)
    BY <1>1 DEF ChunksOf, Kinds
  <1>3. Longer(s, c, t)
    BY <1>1, OneMore
  <1> QED
    BY <1>1, <1>2, <1>3, Zenon DEF Longer

LEMMA BothAdded ==
  ASSUME chunks \in Seq(Chunk), chunks' = chunks \o <<Error>> \o <<End("Error")>>
  PROVE  /\ chunks' \in Seq(Chunk) /\ Extends(chunks, chunks') /\ Consumed'
         /\ ChunksOf("text")' = ChunksOf("text") /\ ChunksOf("call")' = ChunksOf("call")
         /\ ChunksOf("end")' = ChunksOf("end") \cup {Len(chunks')}
  <1>1. PICK s, u, t, g : /\ s = chunks /\ t = chunks' /\ s \in Seq(Chunk) /\ u = s \o <<Error>>
                          /\ g = End("Error") /\ t = u \o <<g>>
    OBVIOUS
  <1>2. \A k : ChunksOf(k) = Kinds(s, k) /\ ChunksOf(k)' = Kinds(t, k)
    BY <1>1 DEF ChunksOf, Kinds
  <1>4. End("Error") \in Chunk /\ Error \in Chunk
    BY ChunksAre DEF Finishes
  <1>3. Longer(s, Error, u)
    BY <1>1, <1>4, OneMore
  <1>11. u \in Seq(Chunk) /\ g \in Chunk
    BY <1>1, <1>3, <1>4 DEF Longer
  <1>12. Longer(u, g, t)
    BY <1>1, <1>11, OneMore
  <1>5. Longer(u, End("Error"), t)
    BY <1>1, <1>12
  <1>10. /\ Len(u) = Len(s) + 1 /\ Len(s) \in Nat /\ Extends(s, u) /\ u[Len(s) + 1] = Error /\ Len(s) + 1 \in DOMAIN u
         /\ t \in Seq(Chunk) /\ Len(t) = Len(u) + 1 /\ Extends(u, t)
    BY <1>3, <1>5 DEF Longer
  <1>6. Extends(s, t)
    BY <1>10 DEF Extends
  <1>7. t[Len(s) + 1] = Error /\ Len(s) + 1 \in DOMAIN t
    BY <1>10 DEF Extends
  <1>8. Consumed'
    BY <1>1, <1>7 DEF Consumed
  <1>9. Kinds(t, "text") = Kinds(s, "text") /\ Kinds(t, "call") = Kinds(s, "call") /\ Kinds(t, "end") = Kinds(s, "end") \cup {Len(t)}
    <2>1. /\ Kinds(u, "text") = Kinds(s, "text") /\ Kinds(u, "call") = Kinds(s, "call") /\ Kinds(u, "end") = Kinds(s, "end")
      BY <1>3, KindsAre DEF Longer
    <2>2. /\ Kinds(t, "text") = Kinds(u, "text") /\ Kinds(t, "call") = Kinds(u, "call") /\ Kinds(t, "end") = Kinds(u, "end") \cup {Len(u) + 1}
      BY <1>5, KindsAre DEF Longer
    <2> QED
      BY <1>10, <2>1, <2>2
  <1> QED
    BY <1>1, <1>2, <1>10, <1>6, <1>8, <1>9

LEMMA CallsAdded ==
  ASSUME chunks \in Seq(Chunk), answer \in Answers, vendor = "ollama", NEW x \in Finishes,
         chunks' = chunks \o OllamaCalls \o <<End(x)>>
  PROVE  /\ chunks' \in Seq(Chunk) /\ Extends(chunks, chunks') /\ Last(chunks') = End(x) /\ Len(chunks) \in Nat
         /\ ChunksOf("text")' = ChunksOf("text") /\ ChunksOf("end")' = ChunksOf("end") \cup {Len(chunks')}
         /\ ChunksOf("call")' = ChunksOf("call") \cup {Len(chunks) + i : i \in Calling}
         /\ \A i \in Calling : chunks'[Len(chunks) + i] = Told(i, 1)
  <1>1. PICK s, cs, u, t, g : /\ s = chunks /\ t = chunks' /\ s \in Seq(Chunk) /\ cs = OllamaCalls /\ u = s \o cs
                              /\ g = End(x) /\ t = u \o <<g>>
    OBVIOUS
  <1>2. answer.calls \in Nat /\ answer.texts \in Nat
    BY ReasonsAre
  <1>3. ASSUME NEW i \in Calling PROVE cs[i] = Told(i, 1) /\ Told(i, 1) \in Chunk /\ Told(i, 1).kind = "call"
    <2>1. i \in Nat \ {0} /\ IndexOf(i) \in Nat
      BY <1>2 DEF Calling, IndexOf
    <2>2. cs[i] = CallPiece(IndexOf(i), i, 1)
      BY <1>1, <1>3 DEF OllamaCalls, Calling, IndexOf
    <2>3. Told(i, 1) = CallPiece(IndexOf(i), i, 1)
      BY DEF Told
    <2> QED
      BY <2>1, <2>2, <2>3, KindsAre, ChunksAre
  <1>4. cs \in Seq(Chunk) /\ Len(cs) = answer.calls
    <2>1. cs = [i \in 1 .. answer.calls |-> Told(i, 1)]
      BY <1>1, <1>3 DEF OllamaCalls, Calling
    <2>2. cs \in [1 .. answer.calls -> Chunk]
      BY <2>1, <1>3 DEF Calling
    <2>3. PICK n \in Nat : n = answer.calls
      BY <1>2
    <2>4. cs \in [1 .. n -> Chunk] /\ DOMAIN cs = 1 .. n
      BY <2>2, <2>3
    <2>5. cs \in Seq(Chunk) /\ Len(cs) = n
      BY ONLY <2>3, <2>4
    <2> QED
      BY <2>3, <2>5
  <1>5. /\ u \in Seq(Chunk) /\ Len(u) = Len(s) + answer.calls /\ Len(s) \in Nat
        /\ \A n \in 1 .. Len(s) : u[n] = s[n]
        /\ \A i \in 1 .. answer.calls : u[Len(s) + i] = cs[i]
        /\ DOMAIN s = 1 .. Len(s) /\ DOMAIN u = 1 .. Len(s) + answer.calls
    BY <1>1, <1>2, <1>4
  <1>6. Extends(s, u)
    BY <1>2, <1>5 DEF Extends
  <1>7. DOMAIN u = DOMAIN s \cup {Len(s) + i : i \in Calling} /\ DOMAIN s \cap {Len(s) + i : i \in Calling} = {}
    <2>1. ASSUME NEW n \in DOMAIN u, n \notin DOMAIN s PROVE n \in {Len(s) + i : i \in Calling}
      <3>1. n - Len(s) \in 1 .. answer.calls /\ n = Len(s) + (n - Len(s))
        BY <1>2, <1>5, <2>1
      <3> QED
        BY <3>1 DEF Calling
    <2>2. ASSUME NEW i \in Calling PROVE Len(s) + i \in DOMAIN u /\ Len(s) + i \notin DOMAIN s
      BY <1>2, <1>5 DEF Calling
    <2>3. DOMAIN s \subseteq DOMAIN u
      BY <1>2, <1>5
    <2> QED
      BY <2>1, <2>2, <2>3
  <1>8. ASSUME NEW i \in Calling PROVE u[Len(s) + i] = Told(i, 1)
    BY <1>3, <1>5 DEF Calling
  <1>9. /\ Kinds(u, "call") = Kinds(s, "call") \cup {Len(s) + i : i \in Calling}
        /\ Kinds(u, "text") = Kinds(s, "text") /\ Kinds(u, "end") = Kinds(s, "end")
    <2>1. \A n \in DOMAIN s : u[n] = s[n]
      BY <1>5
    <2>2. \A n \in {Len(s) + i : i \in Calling} : u[n].kind = "call"
      BY <1>3, <1>8
    <2> QED
      BY <1>7, <2>1, <2>2 DEF Kinds
  <1>10. g \in Chunk
    BY <1>1, ChunksAre
  <1>11. Longer(u, g, t)
    BY <1>1, <1>5, <1>10, OneMore
  <1>12. /\ t \in Seq(Chunk) /\ Extends(u, t) /\ Last(t) = g /\ Len(t) = Len(u) + 1
         /\ Kinds(t, "text") = Kinds(u, "text") /\ Kinds(t, "call") = Kinds(u, "call") /\ Kinds(t, "end") = Kinds(u, "end") \cup {Len(t)}
    BY <1>1, <1>11, KindsAre DEF Longer
  <1>13. Extends(s, t)
    BY <1>5, <1>6, <1>12 DEF Extends
  <1>14. \A i \in Calling : t[Len(s) + i] = Told(i, 1)
    BY <1>7, <1>8, <1>12 DEF Extends
  <1>15. \A k : ChunksOf(k) = Kinds(s, k) /\ ChunksOf(k)' = Kinds(t, k)
    BY <1>1 DEF ChunksOf, Kinds
  <1> QED
    BY <1>1, <1>5, <1>9, <1>12, <1>13, <1>14, <1>15

-----------------------------------------------------------------------------
(* What a step does to the texts, the calls and the end. *)

Grew(f) ==
  /\ chunks' \in Seq(Chunk) /\ Extends(chunks, chunks') /\ line' \in {"up", "closed", "cut", "broken"}
  /\ ChunksOf("text")' = IF f.is = "text" THEN ChunksOf("text") \cup {Len(chunks) + 1} ELSE ChunksOf("text")
  /\ (f.is # "call" \/ vendor \in Silent) /\ ~(f.is = "finish" /\ vendor = "ollama") => ChunksOf("call")' = ChunksOf("call")
  /\ vendor # "python" => ChunksOf("end")' = IF line' = "up" THEN ChunksOf("end") ELSE ChunksOf("end") \cup {Len(chunks')}

LEMMA Rests ==
  ASSUME Reads, NEW f, f.is # "text", UNCHANGED <<chunks, line>>, line = "up"
  PROVE  Grew(f)
  BY DEF Grew, Reads, Asked0, Extends, ChunksOf

LEMMA Growing ==
  ASSUME Reads, NEW f \in Frames, Receive(f), Outcome(f)
  PROVE  Grew(f)
  <1>1. chunks \in Seq(Chunk) /\ line = "up" /\ answer \in Answers
    BY DEF Reads, Asked0, Receive, Reading
  <1>2. Text \in Chunk /\ Error \in Chunk /\ Reasons[answer.why] \in Finishes
    BY <1>1, ChunksAre, ReasonsAre
  <1>3. ASSUME NEW c \in Chunk, NEW l \in {"up", "closed", "cut", "broken"}, Adds(<<c>>, l),
               c.kind = "text" <=> f.is = "text", c.kind = "call" => f.is = "call" /\ vendor \notin Silent,
               vendor # "python" => (c.kind = "end" <=> l # "up")
        PROVE  Grew(f)
    BY <1>1, <1>3, OneAdded DEF Adds, Grew
  <1>4. ASSUME chunks' = chunks \o <<Error>> \o <<End("Error")>>, line' = "broken", f.is # "text"
        PROVE  Grew(f)
    BY <1>1, <1>4, BothAdded DEF Grew
  <1>5. ASSUME NEW x \in Finishes, chunks' = chunks \o OllamaCalls \o <<End(x)>>, line' = "closed", vendor = "ollama", f.is = "finish"
        PROVE  Grew(f)
    BY <1>1, <1>5, CallsAdded DEF Grew
  <1>6. ASSUME NEW x \in Finishes, Adds(<<End(x)>>, line'), line' \in {"closed", "cut"} \/ (vendor = "python" /\ line' = "up"),
               f.is \notin {"text", "call"}
        PROVE  Grew(f)
    <2>1. End(x) \in Chunk
      BY ChunksAre
    <2> QED
      BY <1>3, <1>6, <2>1, KindsAre
  <1>7. CASE f.is = "text" /\ Adds(<<Text>>, "up")
    BY <1>2, <1>3, <1>7, KindsAre
  <1>8. CASE f.is = "call" /\ vendor \notin Silent \cup {"ollama"} /\ Adds(<<Told(f.call, given.calls[f.call] + 1)>>, "up")
    <2>1. CallMayCome(f.call)
      BY <1>8, FramesAre DEF Receive, Sends
    <2>2. f.call \in Calling /\ given.calls[f.call] \in 0 .. 2 /\ answer.calls \in Nat
      BY <2>1, ReasonsAre DEF CallMayCome, Reads, Asked0, Calling
    <2>3. IndexOf(f.call) \in Nat /\ f.call \in Nat /\ given.calls[f.call] + 1 \in Nat
      BY <2>2 DEF Calling, IndexOf
    <2>4. PICK c : c = Told(f.call, given.calls[f.call] + 1)
      OBVIOUS
    <2>6. PICK j \in Nat, id \in Nat \cup {None}, p \in Nat : c = CallPiece(j, id, p)
      BY <2>3, <2>4 DEF Told
    <2>5. c \in Chunk /\ c.kind = "call"
      BY <2>6, ChunksAre, KindsAre
    <2> QED
      BY <1>3, <1>8, <2>4, <2>5
  <1>9. CASE f.is = "call" /\ vendor \in Silent /\ UNCHANGED <<chunks, line>>
    BY <1>1, <1>9, Rests
  <1>10. CASE f.is = "finish" /\ vendor \notin {"ndjson", "ollama", "python"} /\ UNCHANGED <<chunks, line, tools>>
    BY <1>1, <1>10, Rests
  <1>11. CASE f.is = "finish" /\ vendor = "python" /\ Adds(<<End(Reasons[answer.why])>>, "up")
    BY <1>2, <1>6, <1>11 DEF Adds
  <1>12. CASE f.is = "finish" /\ vendor = "ndjson" /\ Adds(<<End(Reasons[answer.why])>>, "closed")
    BY <1>2, <1>6, <1>12 DEF Adds
  <1>13. CASE f.is = "finish" /\ vendor = "ollama" /\ chunks' = chunks \o OllamaCalls \o <<End(OllamaReason)>> /\ line' = "closed"
    <2>1. OllamaReason \in Finishes
      BY DEF OllamaReason, Finishes
    <2>2. PICK x : x = OllamaReason
      OBVIOUS
    <2> QED
      BY <1>5, <1>13, <2>1, <2>2
  <1>14. CASE f.is = "garbled" /\ Adds(<<Error>>, "up")
    BY <1>2, <1>3, <1>14, KindsAre
  <1>15. CASE f.is \in {"fault", "garbled"} /\ chunks' = chunks \o <<Error>> \o <<End("Error")>> /\ line' = "broken"
    BY <1>4, <1>15
  <1>16. CASE f.is = "fault" /\ vendor = "python" /\ Adds(<<Error>>, "broken")
    BY <1>2, <1>3, <1>16, KindsAre
  <1>17. CASE f.is = "done" /\ UNCHANGED <<chunks, line>>
    BY <1>1, <1>17, Rests
  <1>18. CASE f.is = "eof" /\ vendor = "python" /\ UNCHANGED chunks /\ line' = IF given.ends THEN "closed" ELSE "cut"
    BY <1>1, <1>18 DEF Grew, Extends, ChunksOf
  <1>19. CASE /\ f.is \in {"done", "eof"} /\ vendor # "python" /\ line' = (IF given.ends THEN "closed" ELSE "cut")
              /\ \E x \in Finishes : chunks' = chunks \o <<End(x)>>
    BY <1>6, <1>19 DEF Adds
  <1> QED
    BY <1>7, <1>8, <1>9, <1>10, <1>11, <1>12, <1>13, <1>14, <1>15, <1>16, <1>17, <1>18, <1>19 DEF Outcome

LEMMA Sent ==
  ASSUME Reads, NEW f \in Frames, Receive(f)
  PROVE  /\ f.is = "text" => ~given.ends /\ given.texts < answer.texts /\ given' = [given EXCEPT !.texts = given.texts + 1]
         /\ f.is = "call" => ~given.ends /\ CallMayCome(f.call) /\ given' = [given EXCEPT !.calls[f.call] = given.calls[f.call] + 1]
         /\ f.is = "finish" => ~given.ends /\ AllSaid /\ given' = [given EXCEPT !.ends = TRUE]
         /\ f.is = "done" => given.ends
         /\ f.is \notin {"text", "call", "finish"} => given' = given
         /\ UNCHANGED <<vendor, answer>> /\ line = "up" /\ ~Consumed
  BY FramesAre DEF Receive, Reading, Sends

LEMMA CallComes ==
  ASSUME Reads, NEW i, CallMayCome(i)
  PROVE  /\ i \in Calling /\ i \in Nat \ {0} /\ given.calls[i] \in 0 .. 1 /\ given.calls[i] + 1 <= Pieces(vendor) /\ vendor # "ollama"
         /\ \A j \in Calling : j < i /\ vendor \in {"anthropic", "bedrock", "vertex", "python"} => given.calls[j] = Pieces(vendor)
  <1>1. answer.calls \in Nat /\ i \in Calling /\ given.calls \in [Calling -> 0 .. 2]
    BY ReasonsAre DEF Reads, Asked0, CallMayCome
  <1>2. given.calls[i] < Pieces(vendor) /\ Pieces(vendor) \in 1 .. 2 /\ vendor # "ollama"
    BY DEF CallMayCome, Pieces
  <1>3. vendor \in {"anthropic", "bedrock", "vertex", "python"} => \A j \in 1 .. i - 1 : given.calls[j] = Pieces(vendor)
    BY DEF CallMayCome, Blocks, Whole
  <1>4. i \in Nat \ {0}
    BY <1>1 DEF Calling
  <1> QED
    BY <1>1, <1>2, <1>3, <1>4 DEF Calling

LEMMA AskedStays ==
  ASSUME Reads, NEW f \in Frames, Receive(f), Grew(f)
  PROVE  Asked0' /\ InOrder'
  <1>1. /\ UNCHANGED <<vendor, answer>> /\ chunks' \in Seq(Chunk) /\ line' \in {"up", "closed", "cut", "broken"}
        /\ Calling' = Calling
    BY Sent DEF Grew, Calling
  <1>2. /\ given.texts \in 0 .. answer.texts /\ given.ends \in BOOLEAN
        /\ given = [texts |-> given.texts, calls |-> given.calls, ends |-> given.ends]
        /\ given.calls \in [Calling -> 0 .. 2]
        /\ \A i \in Calling : given.calls[i] <= Pieces(vendor)
        /\ vendor \in Decoders /\ answer \in Answers /\ answer.texts \in Nat /\ InOrder /\ (given.ends => AllSaid)
    BY ReasonsAre DEF Reads, Asked0
  <1>3. CASE f.is = "text"
    <2>1. /\ given'.texts = given.texts + 1 /\ given'.calls = given.calls /\ given'.ends = FALSE
          /\ given' = [texts |-> given'.texts, calls |-> given'.calls, ends |-> given'.ends] /\ given.texts < answer.texts
      BY <1>2, <1>3, Sent
    <2>5. PICK a, b \in Nat : a = given.texts /\ b = answer.texts
      BY <1>2
    <2>6. a + 1 \in 0 .. b
      BY <2>1, <2>5
    <2>2. given'.texts \in 0 .. answer.texts /\ given'.ends \in BOOLEAN /\ ~given'.ends
      BY ONLY <2>1, <2>5, <2>6
    <2>3. Asked0'
      BY <1>1, <1>2, <2>1, <2>2 DEF Asked0
    <2>4. InOrder'
      BY <1>1, <1>2, <2>1 DEF InOrder
    <2> QED
      BY <2>3, <2>4
  <1>4. CASE f.is = "call"
    <2>1. PICK i \in Calling : i = f.call /\ CallMayCome(i)
      BY <1>4, Sent, CallComes
    <2>2. /\ given'.texts = given.texts /\ given'.calls = [given.calls EXCEPT ![i] = given.calls[i] + 1] /\ given'.ends = FALSE
          /\ given' = [texts |-> given'.texts, calls |-> given'.calls, ends |-> given'.ends] /\ ~given.ends
      BY <1>2, <1>4, <2>1, Sent
    <2>3. /\ given.calls[i] \in 0 .. 1 /\ given.calls[i] + 1 <= Pieces(vendor) /\ i \in Nat
          /\ \A j \in Calling : j < i /\ vendor \in {"anthropic", "bedrock", "vertex", "python"} => given.calls[j] = Pieces(vendor)
      BY <2>1, CallComes
    <2>4. given'.calls \in [Calling -> 0 .. 2] /\ (\A j \in Calling : given'.calls[j] = IF j = i THEN given.calls[i] + 1 ELSE given.calls[j])
      BY <1>2, <2>2, <2>3
    <2>5. Asked0'
      BY <1>1, <1>2, <2>2, <2>3, <2>4 DEF Asked0
    <2>6. ASSUME vendor \in {"anthropic", "bedrock", "vertex", "python"}, NEW m \in Calling, NEW j \in Calling, j < m, given'.calls[m] > 0
          PROVE  given'.calls[j] = Pieces(vendor)
      <3>1. answer.calls \in Nat /\ j \in Nat /\ m \in Nat /\ Pieces(vendor) \in Nat
        BY <1>2, ReasonsAre DEF Calling, Pieces
      <3>2. CASE m = i
        BY <2>3, <2>4, <2>6, <3>1, <3>2
      <3>3. CASE m # i
        <4>1. given.calls[m] > 0 /\ given.calls[j] = Pieces(vendor)
          BY <1>2, <2>4, <2>6, <3>3 DEF InOrder
        <4>2. j # i
          BY <2>3, <3>1, <4>1
        <4> QED
          BY <2>4, <4>1, <4>2
      <3> QED
        BY <3>2, <3>3
    <2> QED
      BY <1>1, <2>5, <2>6 DEF InOrder
  <1>5. CASE f.is = "finish"
    <2>1. /\ given'.texts = given.texts /\ given'.calls = given.calls /\ given'.ends = TRUE
          /\ given' = [texts |-> given'.texts, calls |-> given'.calls, ends |-> given'.ends] /\ AllSaid
      BY <1>2, <1>5, Sent
    <2>2. AllSaid'
      BY <1>1, <2>1 DEF AllSaid
    <2> QED
      BY <1>1, <1>2, <2>1, <2>2 DEF Asked0, InOrder
  <1>6. CASE f.is \notin {"text", "call", "finish"}
    <2>1. given' = given
      BY <1>6, Sent
    <2>2. AllSaid' <=> AllSaid
      BY <1>1, <2>1 DEF AllSaid
    <2> QED
      BY <1>1, <1>2, <2>1, <2>2 DEF Asked0, InOrder
  <1> QED
    BY <1>3, <1>4, <1>5, <1>6

LEMMA ChunksOfFinite ==
  ASSUME chunks \in Seq(Chunk), NEW k
  PROVE  ChunksOf(k) \subseteq 1 .. Len(chunks) /\ IsFiniteSet(ChunksOf(k)) /\ Cardinality(ChunksOf(k)) \in Nat
  <1>1. PICK n \in Nat : n = Len(chunks) /\ DOMAIN chunks = 1 .. n
    OBVIOUS
  <1>2. ChunksOf(k) \subseteq 1 .. n
    BY <1>1 DEF ChunksOf
  <1>3. IsFiniteSet(1 .. n)
    BY FS_Interval
  <1> QED
    BY <1>1, <1>2, <1>3, FS_Subset, FS_CardinalityType

LEMMA TextsStay ==
  ASSUME Reads, NEW f \in Frames, Receive(f), Grew(f)
  PROVE  TextsTold'
  <1>1. chunks \in Seq(Chunk) /\ Cardinality(ChunksOf("text")) = given.texts
        /\ given = [texts |-> given.texts, calls |-> given.calls, ends |-> given.ends]
    BY DEF Reads, Asked0, TextsTold
  <1>2. PICK T : T = ChunksOf("text")
    OBVIOUS
  <1>3. PICK U : U = ChunksOf("text")'
    OBVIOUS
  <1>4. IsFiniteSet(T) /\ T \subseteq 1 .. Len(chunks) /\ Len(chunks) \in Nat /\ Cardinality(T) = given.texts
    BY <1>1, <1>2, ChunksOfFinite
  <1>5. CASE f.is = "text"
    <2>1. U = T \cup {Len(chunks) + 1} /\ given'.texts = given.texts + 1
      BY <1>1, <1>2, <1>3, <1>5, Sent DEF Grew
    <2>2. Len(chunks) + 1 \notin T
      BY <1>4
    <2>3. Cardinality(U) = Cardinality(T) + 1
      BY <1>4, <2>1, <2>2, FS_AddElement
    <2> QED
      BY <1>3, <1>4, <2>1, <2>3 DEF TextsTold
  <1>6. CASE f.is # "text"
    <2>1. U = T
      BY <1>2, <1>3, <1>6 DEF Grew
    <2>2. given'.texts = given.texts
      BY <1>1, <1>6, Sent
    <2> QED
      BY <1>3, <1>4, <2>1, <2>2 DEF TextsTold
  <1> QED
    BY <1>5, <1>6

LEMMA ToldIs ==
  ASSUME NEW i, NEW p
  PROVE  /\ Told(i, p).kind = "call" /\ Told(i, p).index = IndexOf(i) /\ Told(i, p).piece = p
         /\ Told(i, p).id = IF p = 1 THEN i ELSE None
  BY KindsAre DEF Told

LEMMA IndicesDiffer ==
  ASSUME answer \in Answers, NEW i \in Calling, NEW j \in Calling
  PROVE  /\ IndexOf(i) = IndexOf(j) => i = j
         /\ i < j => IndexOf(i) < IndexOf(j)
         /\ i \in Nat /\ j \in Nat
  BY ReasonsAre DEF IndexOf, Calling

(* One more piece of call i.                                                             *)
LEMMA CallTold ==
  ASSUME Reads, NEW f \in Frames, Receive(f), Outcome(f), f.is = "call", vendor \notin Silent \cup {"ollama"}
  PROVE  CallsTold'
  <1>1. PICK i \in Calling : i = f.call /\ CallMayCome(i)
    BY Sent, CallComes
  <1>2. PICK q : q = given.calls[i] + 1
    OBVIOUS
  <1>3. /\ q \in 1 .. 2 /\ given.calls \in [Calling -> 0 .. 2] /\ answer \in Answers /\ chunks \in Seq(Chunk)
        /\ given = [texts |-> given.texts, calls |-> given.calls, ends |-> given.ends] /\ i \in Nat
    BY <1>1, <1>2, CallComes DEF Reads, Asked0
  <1>4. UNCHANGED <<vendor, answer>> /\ given'.calls = [given.calls EXCEPT ![i] = q]
    BY <1>1, <1>2, <1>3, Sent
  <1>5. chunks' = chunks \o << Told(i, q) >>
    BY <1>1, <1>2 DEF Outcome, Adds
  <1>6. PICK N : N = Len(chunks) + 1
    OBVIOUS
  <1>7. /\ Told(i, q) \in Chunk /\ Told(i, q).kind = "call"
    <2>1. IndexOf(i) \in Nat
      BY <1>3, ReasonsAre DEF IndexOf, Calling
    <2>2. PICK id \in Nat \cup {None} : id = IF q = 1 THEN i ELSE None
      BY <1>3
    <2>3. PICK k \in Nat : k = IndexOf(i)
      BY <2>1
    <2>4. Told(i, q) = CallPiece(k, id, q) /\ q \in Nat
      BY <1>3, <2>2, <2>3 DEF Told
    <2> QED
      BY <2>4, ChunksAre, KindsAre
  <1>8. /\ ChunksOf("call")' = ChunksOf("call") \cup {N} /\ chunks'[N] = Told(i, q) /\ N \in Nat
        /\ \A n \in ChunksOf("call") : chunks'[n] = chunks[n] /\ n \in Nat /\ n < N
    <2>1. PICK c : c = Told(i, q)
      OBVIOUS
    <2>2. chunks' = chunks \o <<c>> /\ c \in Chunk /\ c.kind = "call"
      BY <1>5, <1>7, <2>1
    <2>3. ChunksOf("call")' = ChunksOf("call") \cup {N} /\ chunks'[N] = c /\ Extends(chunks, chunks') /\ Len(chunks) \in Nat
      BY <1>3, <1>6, <2>2, OneAdded
    <2>4. ChunksOf("call") \subseteq 1 .. Len(chunks) /\ DOMAIN chunks = 1 .. Len(chunks)
      BY <1>3, ChunksOfFinite
    <2> QED
      BY <1>6, <2>1, <2>3, <2>4 DEF Extends
  <1>9. \A j, p : Told(j, p)' = Told(j, p)
    BY <1>4 DEF Told, IndexOf
  <1>10. /\ Calling' = Calling
         /\ \A j \in Calling, p \in 1 .. 2 : Came(j, p)' <=> Came(j, p) \/ (j = i /\ p = q)
    <2>1. Calling' = Calling
      BY <1>4 DEF Calling
    <2>2. \A j \in Calling : \A p : Came(j, p) <=> p <= given.calls[j]
      BY DEF Came
    <2>3. \A j \in Calling : \A p : Came(j, p)' <=> p <= given'.calls[j]
      BY <1>4 DEF Came
    <2>4. ASSUME NEW j \in Calling, NEW p \in 1 .. 2
          PROVE  p <= given'.calls[j] <=> p <= given.calls[j] \/ (j = i /\ p = q)
      <3>1. CASE j = i
        BY <1>2, <1>3, <1>4, <3>1
      <3>2. CASE j # i
        BY <1>3, <1>4, <3>2
      <3> QED
        BY <3>1, <3>2
    <2> QED
      BY <2>1, <2>2, <2>3, <2>4
  <1>11. CallsTold
    BY DEF Reads
  <1>12. ASSUME NEW n \in ChunksOf("call")'
         PROVE  \E j \in Calling, p \in 1 .. 2 : Came(j, p)' /\ chunks'[n] = Told(j, p)
    BY <1>3, <1>8, <1>10, <1>11 DEF CallsTold
  <1>13. ASSUME NEW j \in Calling, NEW p \in 1 .. 2, Came(j, p)'
         PROVE  \E n \in ChunksOf("call")' : chunks'[n] = Told(j, p)
    BY <1>8, <1>10, <1>11, <1>13 DEF CallsTold
  <1>14. ASSUME NEW m \in ChunksOf("call")', NEW n \in ChunksOf("call")', m < n, chunks'[m].index = chunks'[n].index
         PROVE  chunks'[m].piece < chunks'[n].piece
    <2>1. CASE n \in ChunksOf("call")
      <3>1. m \in ChunksOf("call")
        BY <1>8, <1>14, <2>1
      <3> QED
        BY <1>8, <1>11, <1>14, <2>1, <3>1 DEF CallsTold
    <2>2. CASE n = N
      <3>1. m \in ChunksOf("call")
        BY <1>8, <1>14, <2>2
      <3>2. PICK j \in Calling, p \in 1 .. 2 : Came(j, p) /\ chunks[m] = Told(j, p)
        BY <1>11, <3>1 DEF CallsTold
      <3>3. chunks'[m] = Told(j, p) /\ chunks'[n] = Told(i, q)
        BY <1>8, <2>2, <3>1, <3>2
      <3>4. IndexOf(j) = IndexOf(i)
        BY <1>14, <3>3, ToldIs
      <3>5. j = i
        BY <1>3, <3>4, IndicesDiffer
      <3>6. p <= given.calls[i]
        BY <3>2, <3>5 DEF Came
      <3>7. p < q
        BY <1>2, <1>3, <3>6
      <3> QED
        BY <3>3, <3>7, ToldIs
    <2> QED
      BY <1>8, <2>1, <2>2
  <1> QED
    BY <1>9, <1>10, <1>12, <1>13, <1>14 DEF CallsTold

(* All calls at once, in Ollama's last frame.                                            *)
LEMMA AllTold ==
  ASSUME Reads, NEW f \in Frames, Receive(f), Outcome(f), f.is = "finish", vendor = "ollama"
  PROVE  CallsTold'
  <1>1. /\ UNCHANGED <<vendor, answer>> /\ ~given.ends /\ given' = [given EXCEPT !.ends = TRUE]
        /\ answer \in Answers /\ chunks \in Seq(Chunk) /\ CallsTold
        /\ given = [texts |-> given.texts, calls |-> given.calls, ends |-> given.ends]
    BY Sent DEF Reads, Asked0
  <1>2. chunks' = chunks \o OllamaCalls \o <<End(OllamaReason)>> /\ OllamaReason \in Finishes
    BY DEF Outcome, OllamaReason, Finishes
  <1>3. PICK x : x = OllamaReason
    OBVIOUS
  <1>4. /\ ChunksOf("call")' = ChunksOf("call") \cup {Len(chunks) + i : i \in Calling}
        /\ \A i \in Calling : chunks'[Len(chunks) + i] = Told(i, 1)
        /\ Len(chunks) \in Nat
    BY <1>1, <1>2, <1>3, CallsAdded
  <1>5. ChunksOf("call") = {}
    BY <1>1 DEF CallsTold, Came, Silent
  <1>6. ChunksOf("call")' = {Len(chunks) + i : i \in Calling}
    BY <1>4, <1>5
  <1>7. \A j, p : Told(j, p)' = Told(j, p)
    BY <1>1 DEF Told, IndexOf
  <1>8. Calling' = Calling /\ \A j \in Calling, p \in 1 .. 2 : Came(j, p)' <=> p = 1
    BY <1>1 DEF Calling, Came, Silent
  <1>9. ASSUME NEW m \in ChunksOf("call")', NEW n \in ChunksOf("call")', m < n
        PROVE  chunks'[m].index # chunks'[n].index
    <2>1. PICK i \in Calling, j \in Calling : m = Len(chunks) + i /\ n = Len(chunks) + j
      BY <1>6
    <2>2. i # j
      BY <1>9, <2>1
    <2>3. IndexOf(i) # IndexOf(j)
      BY <1>1, <2>2, IndicesDiffer
    <2> QED
      BY <1>4, <2>1, <2>3, ToldIs
  <1>10. ASSUME NEW n \in ChunksOf("call")'
         PROVE  \E j \in Calling, p \in 1 .. 2 : Came(j, p)' /\ chunks'[n] = Told(j, p)
    BY <1>4, <1>6, <1>8
  <1>11. ASSUME NEW j \in Calling, NEW p \in 1 .. 2, Came(j, p)'
         PROVE  \E n \in ChunksOf("call")' : chunks'[n] = Told(j, p)
    BY <1>4, <1>6, <1>8, <1>11
  <1> QED
    BY <1>7, <1>8, <1>9, <1>10, <1>11 DEF CallsTold

LEMMA CallsStay ==
  ASSUME Reads, NEW f \in Frames, Receive(f), Outcome(f), Grew(f)
  PROVE  CallsTold'
  <1>1. CASE f.is = "call" /\ vendor \notin Silent \cup {"ollama"}
    BY <1>1, CallTold
  <1>2. CASE f.is = "finish" /\ vendor = "ollama"
    BY <1>2, AllTold
  <1>3. CASE (f.is # "call" \/ vendor \in Silent) /\ ~(f.is = "finish" /\ vendor = "ollama")
    <2>1. /\ ChunksOf("call")' = ChunksOf("call") /\ Extends(chunks, chunks') /\ UNCHANGED <<vendor, answer>>
          /\ CallsTold /\ given.ends \in BOOLEAN
          /\ given = [texts |-> given.texts, calls |-> given.calls, ends |-> given.ends]
      BY <1>3, Sent DEF Grew, Reads, Asked0
    <2>2. \A n \in ChunksOf("call") : chunks'[n] = chunks[n]
      BY <2>1 DEF Extends, ChunksOf
    <2>3. Calling' = Calling /\ \A j, p : Told(j, p)' = Told(j, p)
      BY <2>1 DEF Told, IndexOf, Calling
    <2>4. vendor = "ollama" => given'.ends = given.ends
      BY <1>3, <2>1, Sent
    <2>5. vendor \notin Silent => given'.calls = given.calls
      BY <1>3, <2>1, Sent
    <2>6. \A j \in Calling, p \in 1 .. 2 : Came(j, p)' <=> Came(j, p)
      BY <2>1, <2>4, <2>5 DEF Came
    <2> QED
      BY <2>1, <2>2, <2>3, <2>6 DEF CallsTold
  <1>4. CASE f.is = "call" /\ vendor = "ollama"
    BY <1>4, Sent DEF CallMayCome
  <1> QED
    BY <1>1, <1>2, <1>3, <1>4

LEMMA RemembersStays ==
  ASSUME Reads, NEW f \in Frames, Receive(f), Outcome(f)
  PROVE  Remembers'
  <1>1. /\ UNCHANGED <<vendor, answer>> /\ line = "up" /\ Remembers /\ given.ends \in BOOLEAN
        /\ given.calls \in [Calling -> 0 .. 2] /\ answer \in Answers
        /\ given = [texts |-> given.texts, calls |-> given.calls, ends |-> given.ends]
    BY Sent DEF Reads, Asked0
  <1>2. Calling' = Calling /\ Learnt' = Learnt /\ \A i : Block(i)' = Block(i)
    BY <1>1 DEF Calling, Learnt, Block
  <1>3. ASSUME given'.calls = given.calls PROVE Known' = Known
    BY <1>2, <1>3 DEF Known
  <1>12. ASSUME given'.calls = given.calls, tools' = tools PROVE ToolsKnown'
    <2>1. Known' = Known /\ vendor' = vendor /\ answer' = answer
      BY <1>1, <1>3, <1>12
    <2>2. {Block(j) : j \in Known}' = {Block(j) : j \in Known}
      BY <1>2, <2>1
    <2>3. PICK B, C : B = {Block(j) : j \in Known} /\ C = {j - 1 : j \in Known}
      OBVIOUS
    <2>4. /\ vendor = "bedrock" => tools = [b \in B |-> IF answer.texts > 0 THEN b - 1 ELSE b]
          /\ vendor = "vertex" => tools = [b \in C |-> b]
      BY <1>1, <2>3 DEF Remembers, ToolsKnown
    <2>5. {Block(j) : j \in Known}' = B /\ {j - 1 : j \in Known'} = C
      BY <2>1, <2>2, <2>3
    <2> QED
      BY <1>12, <2>1, <2>4, <2>5 DEF ToolsKnown
  <1>4. ASSUME given' = given, Keeps PROVE Remembers'
    BY <1>1, <1>2, <1>3, <1>4 DEF Remembers, FinishKnown, LeftLoop, ToolsKnown, Keeps
  <1>5. CASE f.is = "text" /\ Keeps
    <2>1. given'.calls = given.calls /\ given'.ends = given.ends
      BY <1>1, <1>5, Sent
    <2>2. FinishKnown' /\ LeftLoop'
      BY <1>1, <1>2, <1>5, <2>1 DEF Remembers, FinishKnown, LeftLoop, Keeps
    <2>3. ToolsKnown'
      BY <1>12, <1>5, <2>1 DEF Keeps
    <2> QED
      BY <2>2, <2>3 DEF Remembers
  <1>6. CASE /\ f.is = "call" /\ vendor \notin Silent \cup {"ollama"} /\ UNCHANGED finish
             /\ vendor = "bedrock" => tools' = [b \in DOMAIN tools \cup {Block(f.call)} |-> IF answer.texts > 0 THEN b - 1 ELSE b]
             /\ vendor = "vertex" => tools' = [b \in DOMAIN tools \cup {f.call - 1} |-> b]
    <2>1. PICK i \in Calling : i = f.call /\ CallMayCome(i)
      BY <1>6, Sent, CallComes
    <2>2. /\ given'.calls = [given.calls EXCEPT ![i] = given.calls[i] + 1] /\ given'.ends = FALSE /\ ~given.ends
          /\ given.calls[i] \in 0 .. 1
      BY <1>1, <1>6, <2>1, Sent, CallComes
    <2>3. Known' = Known \cup {i}
      <3>1. \A j \in Calling : given'.calls[j] > 0 <=> given.calls[j] > 0 \/ j = i
        BY <1>1, <2>2
      <3> QED
        BY <1>2, <3>1 DEF Known
    <2>4. finish' = None /\ finish = None
      BY <1>1, <1>6, <2>2 DEF Remembers, FinishKnown, LeftLoop, ToolsKnown
    <2>5. ASSUME vendor = "bedrock"
          PROVE  tools' = [b \in {Block(j) : j \in Known'} |-> IF answer.texts > 0 THEN b - 1 ELSE b]
      <3>1. DOMAIN tools = {Block(j) : j \in Known}
        BY <1>1, <2>5 DEF Remembers, FinishKnown, LeftLoop, ToolsKnown
      <3>2. DOMAIN tools \cup {Block(i)} = {Block(j) : j \in Known'}
        BY <2>3, <3>1
      <3> QED
        BY <1>6, <2>1, <2>5, <3>2
    <2>6. ASSUME vendor = "vertex"
          PROVE  tools' = [b \in {j - 1 : j \in Known'} |-> b]
      <3>1. DOMAIN tools = {j - 1 : j \in Known}
        BY <1>1, <2>6 DEF Remembers, FinishKnown, LeftLoop, ToolsKnown
      <3>2. DOMAIN tools \cup {i - 1} = {j - 1 : j \in Known'}
        BY <2>3, <3>1
      <3> QED
        BY <1>6, <2>1, <2>6, <3>2
    <2>7. FinishKnown' /\ LeftLoop'
      BY <1>1, <2>2, <2>4 DEF FinishKnown, LeftLoop
    <2>8. ToolsKnown'
      BY <1>1, <1>2, <2>5, <2>6 DEF ToolsKnown
    <2> QED
      BY <2>7, <2>8 DEF Remembers
  <1>7. CASE f.is = "call" /\ vendor \in Silent /\ Keeps
    <2>1. given'.ends = given.ends
      BY <1>1, <1>7, Sent
    <2> QED
      BY <1>1, <1>2, <1>7, <2>1 DEF Remembers, FinishKnown, LeftLoop, ToolsKnown, Keeps, Silent
  <1>8. CASE f.is = "finish" /\ vendor \notin {"ndjson", "ollama", "python"} /\ UNCHANGED <<chunks, line, tools>> /\ finish' = Learnt
    <2>1. given'.calls = given.calls /\ given'.ends = TRUE
      BY <1>1, <1>8, Sent
    <2>2. FinishKnown' /\ LeftLoop'
      BY <1>1, <1>2, <1>8, <2>1 DEF Remembers, FinishKnown, LeftLoop, Keeps
    <2>3. ToolsKnown'
      BY <1>12, <1>8, <2>1 DEF Keeps
    <2> QED
      BY <2>2, <2>3 DEF Remembers
  <1>9. CASE f.is = "finish" /\ vendor = "python" /\ Keeps
    <2>1. given'.calls = given.calls /\ given'.ends = TRUE
      BY <1>1, <1>9, Sent
    <2>2. FinishKnown' /\ LeftLoop'
      BY <1>1, <1>2, <1>9, <2>1 DEF Remembers, FinishKnown, LeftLoop, Keeps
    <2>3. ToolsKnown'
      BY <1>12, <1>9, <2>1 DEF Keeps
    <2> QED
      BY <2>2, <2>3 DEF Remembers
  <1>10. CASE f.is \in {"garbled", "done"} /\ Keeps
    BY <1>4, <1>10, Sent
  <1>11. CASE line' # "up"
    BY <1>11 DEF Remembers, FinishKnown, LeftLoop, ToolsKnown
  <1> QED
    BY <1>5, <1>6, <1>7, <1>8, <1>9, <1>10, <1>11 DEF Outcome, Adds

LEMMA EndedStays ==
  ASSUME Reads, NEW f \in Frames, Receive(f), Outcome(f), Grew(f), Asked0'
  PROVE  Ended'
  <1>1. /\ UNCHANGED <<vendor, answer>> /\ line = "up" /\ ~Consumed /\ answer \in Answers /\ chunks \in Seq(Chunk)
        /\ given = [texts |-> given.texts, calls |-> given.calls, ends |-> given.ends]
        /\ EndsOnce /\ given.ends \in BOOLEAN
    BY Sent DEF Reads, Asked0, Ended
  <1>2. EndsOnce'
    BY <1>1 DEF EndsOnce, Grew, Over
  <1>3. ASSUME vendor = "python", given.ends, answer.why # "filter" PROVE LastSays(Reasons[answer.why])
    BY <1>1, <1>3 DEF Reads, Ended
  <1>4. Reasons[answer.why] \in Finishes \ {"Other", "Error"}
    BY <1>1, ReasonsAre
  <1>5. ASSUME NEW x \in Finishes, Adds(<<End(x)>>, line')
        PROVE  LastSays(x)'
    <2>1. PICK c : c = End(x)
      OBVIOUS
    <2>2. c \in Chunk /\ c.finish = x
      BY <2>1, ChunksAre, KindsAre
    <2>3. Last(chunks') = c
      BY <1>1, <1>5, <2>1, <2>2, OneAdded DEF Adds
    <2> QED
      BY <2>2, <2>3 DEF LastSays
  <1>6. Reasons' = Reasons
    BY DEF Reasons
  <1>7. ASSUME line' = "cut", vendor \notin {"vertex", "ollama", "python"} PROVE LastSays("Other")'
    <2>1. PICK x \in Finishes : /\ chunks' = chunks \o <<End(x)>> /\ line' = (IF given.ends THEN "closed" ELSE "cut")
                                /\ ~given.ends /\ vendor \notin {"vertex", "ollama"} => x = "Other"
      BY <1>1, <1>7 DEF Outcome, Adds
    <2>2. x = "Other"
      BY <1>7, <2>1
    <2> QED
      BY <1>5, <2>1, <2>2 DEF Adds
  <1>8. ASSUME line' = "closed" PROVE given'.ends
    BY <1>1, <1>8, Sent DEF Outcome, Adds, Asked0
  <1>9. ASSUME line' = "closed" \/ (vendor = "python" /\ given'.ends), ~Consumed', answer.why # "filter"
        PROVE  LastSays(Reasons[answer.why])'
    <2>1. CASE f.is \in {"text", "call"}
      <3>1. ~given'.ends
        BY <1>1, <2>1, Sent
      <3> QED
        BY <1>8, <1>9, <3>1
    <2>2. CASE f.is = "finish" /\ vendor \in {"python", "ndjson"} /\ Adds(<<End(Reasons[answer.why])>>, line')
      BY <1>1, <1>4, <1>5, <1>6, <2>2 DEF LastSays
    <2>3. CASE f.is = "finish" /\ vendor = "ollama" /\ chunks' = chunks \o OllamaCalls \o <<End(OllamaReason)>>
      <3>1. PICK x : x = OllamaReason
        OBVIOUS
      <3>2. x = Reasons[answer.why] /\ x \in Finishes
        BY <1>1, <1>4, <1>9, <3>1, ReasonsAre DEF OllamaReason, Why, Words
      <3>3. Last(chunks') = End(x)
        BY <1>1, <2>3, <3>1, <3>2, CallsAdded
      <3> QED
        BY <1>1, <1>6, <3>2, <3>3, KindsAre DEF LastSays
    <2>4. CASE f.is \in {"garbled", "fault"} /\ Adds(<<Error>>, line')
      <3>1. chunks'[Len(chunks) + 1] = Error /\ Len(chunks) + 1 \in DOMAIN chunks'
        BY <1>1, <2>4, OneAdded, ChunksAre DEF Adds
      <3> QED
        BY <1>9, <3>1 DEF Consumed
    <2>5. CASE chunks' = chunks \o <<Error>> \o <<End("Error")>>
      BY <1>1, <1>9, <2>5, BothAdded
    <2>6. CASE f.is \in {"done", "eof"} /\ vendor \in {"vertex", "python"} /\ UNCHANGED chunks /\ (line' = line \/ vendor = "python")
      <3>1. given'.ends = given.ends /\ given.ends
        BY <1>8, <1>9, <2>6, Sent
      <3>2. vendor = "python"
        BY <1>1, <1>8, <1>9, <2>6, <3>1
      <3>3. LastSays(Reasons[answer.why])
        BY <1>3, <1>9, <3>1, <3>2
      <3> QED
        BY <1>1, <1>6, <2>6, <3>3 DEF LastSays
    <2>7. CASE /\ f.is \in {"done", "eof"} /\ vendor # "python" /\ line' = (IF given.ends THEN "closed" ELSE "cut")
               /\ \E x \in Finishes :
                    /\ chunks' = chunks \o <<End(x)>>
                    /\ given.ends /\ answer.why # "filter" => x = Reasons[answer.why]
      <3>1. given.ends
        BY <1>8, <1>9, <2>7, Sent
      <3>2. Adds(<<End(Reasons[answer.why])>>, line')
        BY <1>9, <2>7, <3>1 DEF Adds
      <3> QED
        BY <1>1, <1>4, <1>5, <1>6, <3>2 DEF LastSays
    <2>8. CASE f.is = "finish" /\ vendor \notin {"ndjson", "ollama", "python"} /\ UNCHANGED <<chunks, line, tools>>
      BY <1>1, <1>9, <2>8
    <2> QED
      BY <2>1, <2>2, <2>3, <2>4, <2>5, <2>6, <2>7, <2>8 DEF Outcome, Adds
  <1> QED
    BY <1>1, <1>2, <1>7, <1>8, <1>9 DEF Ended, CutShows, LastSays

-----------------------------------------------------------------------------
(* What the invariant says. *)

LEMMA ReadsStays ==
  ASSUME Reads, NEW f \in Frames, Receive(f)
  PROVE  Reads'
  <1>1. Outcome(f)
    BY Does
  <1>2. Grew(f)
    BY <1>1, Growing
  <1>3. Asked0' /\ InOrder'
    BY <1>2, AskedStays
  <1>4. TextsTold' /\ CallsTold'
    BY <1>1, <1>2, TextsStay, CallsStay
  <1>5. Remembers' /\ Ended'
    BY <1>1, <1>2, <1>3, RemembersStays, EndedStays
  <1> QED
    BY <1>3, <1>4, <1>5 DEF Reads

LEMMA OpensReads ==
  ASSUME NEW v \in Decoders, Opens(v)
  PROVE  Reads'
  <1>1. /\ vendor' = v /\ answer' \in Answers /\ given' = [texts |-> 0, calls |-> [i \in 1 .. answer'.calls |-> 0], ends |-> FALSE]
        /\ line' = "up" /\ tools' = NoTools /\ finish' = None /\ chunks' = <<>>
    BY DEF Opens
  <1>2. answer'.texts \in Nat /\ answer'.calls \in Nat
    BY <1>1, DecoderAssumption DEF Answers
  <1>3. given'.texts = 0 /\ given'.calls = [i \in 1 .. answer'.calls |-> 0] /\ given'.ends = FALSE
    BY <1>1
  <1>4. chunks' \in Seq(Chunk) /\ DOMAIN chunks' = {} /\ \A k : ChunksOf(k)' = {}
    BY <1>1 DEF ChunksOf
  <1>5. Asked0'
    <2>1. /\ given'.texts \in 0 .. answer'.texts /\ given'.ends \in BOOLEAN /\ ~given'.ends
          /\ given' = [texts |-> given'.texts, calls |-> given'.calls, ends |-> given'.ends]
      BY <1>1, <1>2, <1>3
    <2>2. given'.calls \in [Calling' -> 0 .. 2] /\ \A i \in Calling' : given'.calls[i] = 0
      BY <1>3 DEF Calling
    <2>3. \A w : 0 <= Pieces(w)
      BY DEF Pieces
    <2>4. \A i \in Calling' : given'.calls[i] <= Pieces(v)
      BY <2>2, <2>3
    <2> QED
      BY <1>1, <1>4, <2>1, <2>2, <2>4 DEF Asked0
  <1>6. InOrder' /\ Known' = {}
    BY <1>3 DEF InOrder, Calling, Known
  <1>7. TextsTold'
    BY <1>3, <1>4, FS_EmptySet DEF TextsTold
  <1>8. CallsTold'
    <2>1. \A i \in Calling', p \in 1 .. 2 : ~Came(i, p)'
      BY <1>3 DEF Calling, Came
    <2> QED
      BY <1>4, <2>1 DEF CallsTold
  <1>9. Remembers'
    BY <1>1, <1>3, <1>6 DEF Remembers, FinishKnown, LeftLoop, ToolsKnown, NoTools
  <1>10. Ended'
    BY <1>1, <1>3, <1>4 DEF Ended, EndsOnce, CutShows, Over
  <1> QED
    BY <1>5, <1>6, <1>7, <1>8, <1>9, <1>10 DEF Reads

(* The chunk with call i's head is its first.                                             *)
LEMMA HeadsFirst ==
  ASSUME Reads, NEW n \in ChunksOf("call")
  PROVE  \E m \in ChunksOf("call") :
           /\ m <= n /\ Named(m) /\ chunks[m].index = chunks[n].index
           /\ \A k \in ChunksOf("call") : k # m /\ chunks[k].index = chunks[n].index =>
                k > m /\ ~Named(k) /\ chunks[k].piece > 1
  <1>1. answer \in Answers /\ chunks \in Seq(Chunk) /\ CallsTold /\ given.calls \in [Calling -> 0 .. 2]
    BY DEF Reads, Asked0
  <1>2. ChunksOf("call") \subseteq Nat
    <2>1. ChunksOf("call") \subseteq 1 .. Len(chunks)
      BY <1>1, ChunksOfFinite
    <2> QED
      BY <2>1
  <1>3. PICK i \in Calling, p \in 1 .. 2 : Came(i, p) /\ chunks[n] = Told(i, p)
    BY <1>1 DEF CallsTold
  <1>4. Came(i, 1)
    BY <1>1, <1>3 DEF Came
  <1>5. PICK m \in ChunksOf("call") : chunks[m] = Told(i, 1)
    BY <1>1, <1>4 DEF CallsTold
  <1>6. Named(m) /\ chunks[m].index = IndexOf(i) /\ chunks[n].index = IndexOf(i) /\ chunks[m].piece = 1
    <2>1. i # None
      BY <1>1, IndicesDiffer, DecoderAssumption
    <2> QED
      BY <1>3, <1>5, <2>1, ToldIs DEF Named
  <1>7. ASSUME NEW k \in ChunksOf("call"), k # m, chunks[k].index = chunks[n].index
        PROVE  k > m /\ ~Named(k) /\ chunks[k].piece > 1
    <2>1. PICK j \in Calling, q \in 1 .. 2 : chunks[k] = Told(j, q)
      BY <1>1 DEF CallsTold
    <2>2. chunks[k].piece = q /\ q \in Nat /\ chunks[k].id = IF q = 1 THEN j ELSE None
      BY <2>1, ToldIs
    <2>3. ~(k < m)
      BY <1>1, <1>6, <1>7, <2>2 DEF CallsTold
    <2>4. m < k
      BY <1>2, <1>7, <2>3
    <2>5. chunks[m].piece < chunks[k].piece
      BY <1>1, <1>6, <1>7, <2>4 DEF CallsTold
    <2>6. q > 1
      BY <1>6, <2>2, <2>5
    <2> QED
      BY <2>2, <2>4, <2>6 DEF Named
  <1>8. m <= n
    BY <1>2, <1>6, <1>7
  <1> QED
    BY <1>6, <1>7, <1>8

LEMMA Counted ==
  ASSUME Reads, NEW t \in 0 .. 2, \A i \in Calling, p \in 1 .. 2 : Came(i, p) <=> p <= t
  PROVE  Cardinality(ChunksOf("call")) = answer.calls * t
  <1>1. answer \in Answers /\ chunks \in Seq(Chunk) /\ CallsTold /\ answer.calls \in Nat
    BY ReasonsAre DEF Reads, Asked0
  <1>2. PICK C : C = ChunksOf("call")
    OBVIOUS
  <1>3. C \subseteq Nat /\ IsFiniteSet(C)
    <2>1. C \subseteq 1 .. Len(chunks) /\ IsFiniteSet(C)
      BY <1>1, <1>2, ChunksOfFinite
    <2> QED
      BY <2>1
  <1>4. PICK D : D = Calling \X (1 .. t)
    OBVIOUS
  <1>5. \A x \in D : x[1] \in Calling /\ x[2] \in 1 .. 2 /\ Came(x[1], x[2]) /\ x = <<x[1], x[2]>>
    BY <1>4
  <1>6. \A n \in C : \E x \in D : chunks[n] = Told(x[1], x[2])
    <2>1. ASSUME NEW n \in C PROVE \E x \in D : chunks[n] = Told(x[1], x[2])
      <3>1. PICK i \in Calling, p \in 1 .. 2 : Came(i, p) /\ chunks[n] = Told(i, p)
        BY <1>1, <1>2 DEF CallsTold
      <3>2. p \in 1 .. t
        BY <3>1
      <3>3. <<i, p>> \in D /\ <<i, p>>[1] = i /\ <<i, p>>[2] = p
        BY <1>4, <3>2
      <3> QED
        BY <3>1, <3>3
    <2> QED
      BY <2>1
  <1>7. PICK g : g = [n \in C |-> CHOOSE x \in D : chunks[n] = Told(x[1], x[2])]
    OBVIOUS
  <1>8. g \in [C -> D] /\ \A n \in C : chunks[n] = Told(g[n][1], g[n][2])
    BY <1>6, <1>7
  <1>9. ASSUME NEW m \in C, NEW n \in C, g[m] = g[n] PROVE m = n
    <2>1. chunks[m] = chunks[n] /\ chunks[m].piece = g[m][2] /\ g[m][2] \in Nat
      BY <1>5, <1>8, <1>9, ToldIs
    <2>2. ~(m < n) /\ ~(n < m)
      BY <1>1, <1>2, <2>1 DEF CallsTold
    <2> QED
      BY <1>3, <2>2
  <1>10. ASSUME NEW x \in D PROVE \E n \in C : g[n] = x
    <2>1. PICK n \in C : chunks[n] = Told(x[1], x[2])
      BY <1>1, <1>2, <1>5 DEF CallsTold
    <2>2. g[n] \in D /\ Told(g[n][1], g[n][2]) = Told(x[1], x[2])
      BY <1>8, <2>1
    <2>3. IndexOf(g[n][1]) = IndexOf(x[1]) /\ g[n][2] = x[2]
      BY <2>2, ToldIs
    <2>4. g[n][1] = x[1]
      BY <1>1, <1>5, <2>2, <2>3, IndicesDiffer
    <2> QED
      BY <1>5, <2>2, <2>3, <2>4
  <1>11. ExistsBijection(C, D)
    BY <1>8, <1>9, <1>10 DEF ExistsBijection, Bijection, Injection, Surjection, IsInjective
  <1>12. Cardinality(D) = Cardinality(C)
    BY <1>3, <1>11, FS_Bijection
  <1>13. IsFiniteSet(Calling) /\ Cardinality(Calling) = answer.calls
    <2>1. PICK k \in Nat : k = answer.calls
      BY <1>1
    <2>2. IsFiniteSet(1 .. k) /\ Cardinality(1 .. k) = k
      BY FS_Interval
    <2> QED
      BY <2>1, <2>2 DEF Calling
  <1>14. IsFiniteSet(1 .. t) /\ Cardinality(1 .. t) = t
    <2>1. PICK a, b \in Int : a = 1 /\ b = t
      OBVIOUS
    <2>2. IsFiniteSet(a .. b) /\ Cardinality(a .. b) = IF a > b THEN 0 ELSE b - a + 1
      BY FS_Interval
    <2> QED
      BY <2>1, <2>2
  <1>15. Cardinality(D) = answer.calls * t
    BY <1>4, <1>13, <1>14, FS_Product
  <1> QED
    BY <1>2, <1>12, <1>15

LEMMA WholeIs ==
  ASSUME Reads, line = "closed", ~Consumed
  PROVE  /\ Cardinality(ChunksOf("text")) = answer.texts
         /\ Cardinality(ChunksOf("call")) = answer.calls * Takes(vendor)
         /\ \A m, n \in ChunksOf("call") : Named(m) /\ Named(n) /\ chunks[m].id < chunks[n].id => chunks[m].index < chunks[n].index
         /\ answer.why # "filter" => Last(chunks).finish = Reasons[answer.why]
  <1>1. /\ given.ends /\ AllSaid /\ answer \in Answers /\ CallsTold /\ TextsTold /\ given.calls \in [Calling -> 0 .. 2]
        /\ answer.why # "filter" => LastSays(Reasons[answer.why])
    BY DEF Reads, Asked0, Ended
  <1>2. Takes(vendor) \in 0 .. 2
    BY DEF Takes, Pieces
  <1>3. \A i \in Calling, p \in 1 .. 2 : Came(i, p) <=> p <= Takes(vendor)
    BY <1>1 DEF Came, Takes, Pieces, Silent, AllSaid
  <1>4. ASSUME NEW m \in ChunksOf("call"), NEW n \in ChunksOf("call"), Named(m), Named(n), chunks[m].id < chunks[n].id
        PROVE  chunks[m].index < chunks[n].index
    <2>1. PICK i \in Calling, p \in 1 .. 2 : chunks[m] = Told(i, p)
      BY <1>1 DEF CallsTold
    <2>2. PICK j \in Calling, q \in 1 .. 2 : chunks[n] = Told(j, q)
      BY <1>1 DEF CallsTold
    <2>3. chunks[m].id = i /\ chunks[n].id = j
      BY <1>4, <2>1, <2>2, ToldIs DEF Named
    <2> QED
      BY <1>1, <1>4, <2>1, <2>2, <2>3, ToldIs, IndicesDiffer
  <1>5. Cardinality(ChunksOf("text")) = answer.texts
    BY <1>1 DEF TextsTold, AllSaid
  <1>6. PICK t : t = Takes(vendor)
    OBVIOUS
  <1>7. Cardinality(ChunksOf("call")) = answer.calls * t
    BY <1>2, <1>3, <1>6, Counted
  <1> QED
    BY <1>1, <1>4, <1>5, <1>6, <1>7 DEF LastSays

LEMMA TellsFaithfully == DecInv => ChunksFaithful
  <1>1. CASE vendor = None /\ line = "none" /\ chunks = <<>>
    <2>1. \A k : ChunksOf(k) = {}
      BY <1>1 DEF ChunksOf
    <2> QED
      BY <1>1, <2>1 DEF ChunksFaithful, EndsOnce, Attributable, WholeAnswer, CutShows, Over
  <1>2. CASE Reads
    <2>1. EndsOnce /\ CutShows
      BY <1>2 DEF Reads, Ended
    <2>2. Attributable
      BY <1>2, HeadsFirst DEF Attributable
    <2>3. WholeAnswer
      BY <1>2, WholeIs DEF WholeAnswer
    <2> QED
      BY <2>1, <2>2, <2>3 DEF ChunksFaithful
  <1> QED
    BY <1>1, <1>2 DEF DecInv

-----------------------------------------------------------------------------
LEMMA DecoderStarts == Init => DecInv
  BY DEF Init, Idle, DecInv

LEMMA DecoderStays == Inv /\ DecInv /\ [Next \/ Clocks]_vars => DecInv'
  <1> SUFFICES ASSUME Inv, DecInv, [Next \/ Clocks]_vars PROVE DecInv'
    OBVIOUS
  <1>1. ASSUME UNCHANGED decoderVars PROVE DecInv'
    <2>1. CASE vendor = None /\ line = "none" /\ chunks = <<>>
      BY <1>1, <2>1 DEF DecInv, decoderVars
    <2>2. CASE Reads
      <3>1. /\ UNCHANGED <<vendor, answer, given, line, tools, finish, chunks>>
            /\ Calling' = Calling /\ Known' = Known /\ Learnt' = Learnt
        BY <1>1 DEF decoderVars, Calling, Known, Learnt
      <3>2. (Asked0' <=> Asked0) /\ (InOrder' <=> InOrder) /\ (TextsTold' <=> TextsTold)
        BY <3>1 DEF Asked0, InOrder, TextsTold, AllSaid, ChunksOf, Calling
      <3>3. CallsTold' <=> CallsTold
        BY <3>1 DEF CallsTold, Came, Told, IndexOf, ChunksOf
      <3>4. Remembers' <=> Remembers
        BY <3>1 DEF Remembers, FinishKnown, LeftLoop, ToolsKnown, Block
      <3>5. Ended' <=> Ended
        BY <3>1 DEF Ended, EndsOnce, CutShows, LastSays, Over, ChunksOf, Consumed
      <3> QED
        BY <2>2, <3>2, <3>3, <3>4, <3>5 DEF DecInv, Reads
    <2> QED
      BY <2>1, <2>2 DEF DecInv
  <1>2. CASE Read
    <2>1. PICK f \in Frames : Receive(f)
      BY <1>2 DEF Read, DecoderNext
    <2>2. Reads
      BY <2>1 DEF DecInv, Receive, Reading
    <2> QED
      BY <2>1, <2>2, ReadsStays DEF DecInv
  <1>3. ASSUME NEW c \in Callers, Call(c) \/ Drop(c) PROVE DecInv'
    <2>1. CASE Replied(c)
      <3>1. UNCHANGED decoderVars \/ Opens(DecoderOf(Vendor[P(c)]))
        BY <2>1 DEF Replied
      <3>2. DecoderOf(Vendor[P(c)]) \in Decoders
        <4>1. target[c] \in 1 .. Len(Chain) /\ Vendor \in Deployments
          BY DEF Inv, Typed
        <4>2. P(c) \in Range(Chain)
          BY <4>1, ChainIs DEF P, Provider
        <4>3. Vendor[P(c)] \in Vendors \cup {"azure"}
          BY <4>1, <4>2, StackAssumption
        <4> QED
          BY <4>3, DecoderAssumption DEF DecoderOf, Decoders
      <3> QED
        BY <1>1, <3>1, <3>2, OpensReads DEF DecInv
    <2>2. CASE Begin(c) \/ Acquire(c) \/ Enter(c) \/ Wake(c) \/ Fetch(c) \/ Request(c) \/ Finished(c) \/ Drop(c)
      <3>1. UNCHANGED decoderVars
        BY <2>2 DEF Begin, Acquire, Enter, Wake, Fetch, Request, Finished, Drop
      <3> QED
        BY <1>1, <3>1
    <2> QED
      BY <1>3, <2>1, <2>2 DEF Call
  <1>4. CASE Clocks
    BY <1>1, <1>4 DEF Clocks, Cools, Refills
  <1>5. CASE UNCHANGED vars
    BY <1>1, <1>5 DEF vars
  <1> QED
    BY <1>2, <1>3, <1>4, <1>5 DEF Next

(* What is yielded tells the answer: whatever a vendor sends, in the frames it cuts it    *)
(* into, and wherever they break off, the chunks are ended once and last, every piece of a  *)
(* call can be told from other calls', of a whole answer nothing is missing, and one that    *)
(* was cut off is not passed off as whole but by the three that do (stream.rs of the          *)
(* provider crates).                                                                            *)
THEOREM ChunksTellTheAnswer == Spec => []ChunksFaithful
  <1>1. Spec => []Inv
    BY Starts, Stays, PTL DEF Spec
  <1>2. Spec => []DecInv
    BY <1>1, DecoderStarts, DecoderStays, PTL DEF Spec
  <1> QED
    BY <1>2, TellsFaithfully, PTL

-----------------------------------------------------------------------------
(* Requests of the vendors, as MessageFormats has them, that images are sent in.       *)

LEMMA Counts == \A S : Formats!Cardinality(S) = Cardinality(S)
BY DEF Formats!Cardinality, Cardinality

(* A set of numbers that is not empty has a least one, as they are well-founded.       *)
LEMMA FirstOf ==
  ASSUME NEW S \in SUBSET Nat, S # {}
  PROVE  \E n \in S : \A m \in S : n <= m
<1> DEFINE Less == OpToRel(<, Nat)
<1>1. IsWellFoundedOn(Less, Nat) BY NatLessThanWellFounded
<1>2. \A a, b \in Nat : a < b => <<a, b>> \in Less BY DEF OpToRel
<1> HIDE DEF Less
<1>3. PICK n \in S : \A m \in S : ~(<<m, n>> \in Less) BY <1>1, WFMin
<1>4. \A m \in S : ~(m < n) BY <1>2, <1>3
<1> QED BY <1>4

(* Any function that follows FlattenSeq's recursion is the one it chooses.             *)
Flattens(G, s) ==
  /\ G = [n \in 1 .. Len(s) |-> G[n]]
  /\ \A n \in 1 .. Len(s) : G[n] = IF n = 1 THEN s[n] ELSE G[n - 1] \o s[n]
LEMMA FlattenIs ==
  ASSUME NEW s, Len(s) \in Nat \ {0}, NEW G, Flattens(G, s)
  PROVE  Formats!FlattenSeq(s) = G[Len(s)]
<1> DEFINE N == Len(s)
           Right(U) == U = [i \in 1 .. N |-> IF i = 1 THEN s[i] ELSE U[i - 1] \o s[i]]
           V == CHOOSE U : Right(U)
<1>1. Right(G) BY DEF Flattens
<1>2. Right(V) BY <1>1
<1>3. Formats!FlattenSeq(s) = V[N] BY DEF Formats!FlattenSeq
<1> HIDE DEF V
<1>4. \A i \in 1 .. N : V[i] = IF i = 1 THEN s[i] ELSE V[i - 1] \o s[i] BY <1>2
<1> HIDE DEF Right
<1>5. \A i \in 1 .. N : V[i] = G[i]
  <2> DEFINE S == {i \in 1 .. N : V[i] # G[i]}
  <2> SUFFICES ASSUME S # {} PROVE FALSE OBVIOUS
  <2>1. PICK i \in S : \A j \in S : i <= j
    <3>1. S \in SUBSET Nat OBVIOUS
    <3> QED BY <3>1, FirstOf
  <2>2. i \in 1 .. N /\ V[i] # G[i] OBVIOUS
  <2>3. V[i] = (IF i = 1 THEN s[i] ELSE V[i - 1] \o s[i]) /\ G[i] = (IF i = 1 THEN s[i] ELSE G[i - 1] \o s[i])
    BY <2>2, <1>4 DEF Flattens
  <2>4. i # 1 BY <2>2, <2>3
  <2>5. i - 1 \in 1 .. N /\ ~(i <= i - 1) BY <2>2, <2>4
  <2>6. V[i - 1] = G[i - 1] BY <2>1, <2>5
  <2> QED BY <2>2, <2>3, <2>4, <2>6
<1>6. N \in 1 .. N OBVIOUS
<1> QED BY <1>3, <1>5, <1>6

LEMMA FlattenNone == \A s : Len(s) = 0 => Formats!FlattenSeq(s) = s
BY DEF Formats!FlattenSeq

(* Pieces of one element each give these; one such piece and then empty ones, it alone. *)
Is(t, N, x) == DOMAIN t = 1 .. N /\ Len(t) = N /\ \A n \in 1 .. N : t[n] = x[n]
LEMMA FlattenOnes ==
  ASSUME NEW N \in Nat, NEW x, NEW s, s = [n \in 1 .. N |-> <<x[n]>>]
  PROVE  Is(Formats!FlattenSeq(s), N, x)
<1>1. Len(s) = N BY LenProperties
<1>2. CASE N = 0 BY <1>1, <1>2, FlattenNone DEF Is
<1>3. CASE N # 0
  <2> DEFINE G == [n \in 1 .. N |-> [m \in 1 .. n |-> x[m]]]
             T == {x[n] : n \in 1 .. N}
  <2>1. ASSUME NEW n \in 1 .. N PROVE G[n] = IF n = 1 THEN s[n] ELSE G[n - 1] \o s[n]
    <3>1. s[n] = <<x[n]>> /\ G[n] = [m \in 1 .. n |-> x[m]] OBVIOUS
    <3>2. CASE n = 1 BY <3>1, <3>2
    <3>3. CASE n # 1
      <4> DEFINE u == [m \in 1 .. (n - 1) |-> x[m]]
      <4>1. n - 1 \in 1 .. N /\ G[n - 1] = u BY <3>3
      <4>2. u \in Seq(T) /\ Len(u) = n - 1 BY <3>3
      <4>3. x[n] \in T OBVIOUS
      <4>4. u \o <<x[n]>> = Append(u, x[n]) BY <4>2, <4>3
      <4>5. Append(u, x[n]) = [m \in 1 .. n |-> IF m = n THEN x[n] ELSE u[m]] BY <4>2
      <4>6. \A m \in 1 .. n : (IF m = n THEN x[n] ELSE u[m]) = x[m] OBVIOUS
      <4> QED BY <3>1, <3>3, <4>1, <4>4, <4>5, <4>6
    <3> QED BY <3>2, <3>3
  <2>2. Flattens(G, s)
    <3>1. G = [n \in 1 .. N |-> G[n]] OBVIOUS
    <3> HIDE DEF G
    <3> QED BY <1>1, <2>1, <3>1 DEF Flattens
  <2>3. Formats!FlattenSeq(s) = G[N] BY <1>1, <1>3, <2>2, FlattenIs
  <2>4. G[N] = [m \in 1 .. N |-> x[m]] BY <1>3
  <2> HIDE DEF G
  <2>5. PICK u : u = [m \in 1 .. N |-> x[m]] OBVIOUS
  <2>6. DOMAIN u = 1 .. N /\ Len(u) = N /\ \A n \in 1 .. N : u[n] = x[n] BY <2>5, LenProperties
  <2> QED BY ONLY <2>3, <2>4, <2>5, <2>6 DEF Is
<1> QED BY <1>2, <1>3

LEMMA FlattenFirst ==
  ASSUME NEW N \in Nat \ {0}, NEW x, NEW s, s = [n \in 1 .. N |-> IF n = 1 THEN <<x>> ELSE <<>>]
  PROVE  Formats!FlattenSeq(s) = <<x>>
<1>1. Len(s) = N BY LenProperties
<1> DEFINE G == [n \in 1 .. N |-> <<x>>]
<1>2. ASSUME NEW n \in 1 .. N PROVE G[n] = IF n = 1 THEN s[n] ELSE G[n - 1] \o s[n]
  <2>1. <<x>> \in Seq({x}) OBVIOUS
  <2>2. <<x>> \o <<>> = <<x>> BY <2>1, ConcatEmptySeq
  <2>3. n # 1 => n - 1 \in 1 .. N OBVIOUS
  <2> QED BY <2>2, <2>3
<1>3. Flattens(G, s)
  <2>1. G = [n \in 1 .. N |-> G[n]] OBVIOUS
  <2> HIDE DEF G
  <2> QED BY <1>1, <1>2, <2>1 DEF Flattens
<1>4. Formats!FlattenSeq(s) = G[N] BY <1>1, <1>3, FlattenIs
<1> QED BY <1>4

(* As many images as there are are taken from a message, and sent by either client.     *)
Pictures(s) == {n \in DOMAIN s : s[n].is = "image"}

LEMMA TakenIs ==
  ASSUME NEW s, NEW S, IsFiniteSet(S)
  PROVE  /\ Cardinality(S) \in Nat /\ DOMAIN Formats!Taken(s, S) = 1 .. Cardinality(S)
         /\ Len(Formats!Taken(s, S)) = Cardinality(S)
<1>1. Cardinality(S) \in Nat BY FS_CardinalityType
<1>2. PICK t : t = [n \in 1 .. Cardinality(S) |-> s[Formats!Nth(S, n)]] OBVIOUS
<1>3. DOMAIN t = 1 .. Cardinality(S) /\ Len(t) = Cardinality(S) BY <1>1, <1>2, LenProperties
<1>4. Formats!Taken(s, S) = t BY <1>2, Counts DEF Formats!Taken
<1> QED BY ONLY <1>1, <1>3, <1>4

LEMMA TakenOne == \A m : Formats!Taken(<<m>>, {1}) = <<m>>
<1> TAKE m
<1>1. Cardinality({1}) = 1 BY FS_Singleton
<1>2. Formats!Nth({1}, 1) = 1
  <2>1. {j \in {1} : j <= 1} = {1} OBVIOUS
  <2>2. \A i \in {1} : i = 1 OBVIOUS
  <2> QED BY <1>1, <2>1, <2>2, Counts DEF Formats!Nth
<1>3. Formats!Taken(<<m>>, {1}) = [n \in 1 .. 1 |-> <<m>>[Formats!Nth({1}, n)]] BY <1>1, Counts DEF Formats!Taken
<1> QED BY <1>2, <1>3

LEMMA OllamaImages ==
  ASSUME NEW s, IsFiniteSet(Pictures(s))
  PROVE  Len(Formats!OlRequest(<<Formats!Message("user", s)>>)[1].images) = Cardinality(Pictures(s))
<1> DEFINE m == Formats!Message("user", s)
           t == Formats!Taken(s, Pictures(s))
           N == Cardinality(Pictures(s))
           x == [n \in 1 .. N |-> Formats!Bare(t[n].data)]
<1>1. Formats!OlRequest(<<m>>)[1] = Formats!OlMessage(m) BY DEF Formats!OlRequest
<1>2. Formats!PartsOf(m, "image") = t BY DEF Formats!PartsOf, Formats!Message, Pictures
<1>3. N \in Nat /\ DOMAIN t = 1 .. N BY TakenIs
<1>4. Formats!OlMessage(m).images = Formats!FlattenSeq([n \in DOMAIN t |-> <<Formats!Bare(t[n].data)>>])
  BY <1>2 DEF Formats!OlMessage, Formats!Each
<1>5. [n \in DOMAIN t |-> <<Formats!Bare(t[n].data)>>] = [n \in 1 .. N |-> <<x[n]>>] BY <1>3
<1>6. Len(Formats!FlattenSeq([n \in 1 .. N |-> <<x[n]>>])) = N
  <2> HIDE DEF x, N
  <2>1. PICK f : f = [n \in 1 .. N |-> <<x[n]>>] OBVIOUS
  <2>2. Is(Formats!FlattenSeq(f), N, x) BY <1>3, <2>1, FlattenOnes
  <2> QED BY <2>1, <2>2 DEF Is
<1> QED BY <1>1, <1>4, <1>5, <1>6

LEMMA BedrockSends ==
  ASSUME NEW s, Formats!BrBlocks(Formats!Message("user", s)) # <<>>
  PROVE  Formats!BrRequest(<<Formats!Message("user", s)>>).messages[1].content = Formats!BrBlocks(Formats!Message("user", s))
<1> DEFINE m == Formats!Message("user", s)
           b == Formats!BrBlocks(m)
           r == [role |-> Formats!Sides(m.role), content |-> b]
           x == [n \in 1 .. 1 |-> r]
<1>1. m.role = "user" BY DEF Formats!Message
<1> HIDE DEF m
<1>2. Formats!Talk(<<m>>) = <<m>>
  <2>1. {n \in DOMAIN <<m>> : <<m>>[n].role # "system"} = {1} BY <1>1
  <2> QED BY <2>1, TakenOne DEF Formats!Talk
<1>3. Formats!BrRequest(<<m>>).messages = Formats!FlattenSeq([n \in 1 .. 1 |-> <<x[n]>>])
  <2>1. Formats!BrRequest(<<m>>).messages = Formats!FlattenSeq([n \in DOMAIN <<m>> |->
          IF Formats!BrBlocks(<<m>>[n]) = <<>> THEN <<>>
          ELSE <<[role |-> Formats!Sides(<<m>>[n].role), content |-> Formats!BrBlocks(<<m>>[n])]>>])
    BY <1>2 DEF Formats!BrRequest, Formats!Each
  <2>2. \A n \in 1 .. 1 : <<m>>[n] = m OBVIOUS
  <2>3. b # <<>> BY DEF m
  <2> QED BY <2>1, <2>2, <2>3
<1>4. Formats!FlattenSeq([n \in 1 .. 1 |-> <<x[n]>>])[1] = x[1]
  <2> HIDE DEF x
  <2>1. PICK f : f = [n \in 1 .. 1 |-> <<x[n]>>] OBVIOUS
  <2>2. 1 \in Nat OBVIOUS
  <2>3. Is(Formats!FlattenSeq(f), 1, x) BY <2>1, <2>2, FlattenOnes
  <2> QED BY <2>1, <2>3 DEF Is
<1> HIDE DEF b
<1>5. x[1].content = b OBVIOUS
<1> HIDE DEF x
<1> QED BY <1>3, <1>4, <1>5 DEF b, m


(* What Bedrock makes of a part.                                                       *)
Sending(p) ==
  CASE p.is = "text" -> (IF p.text = "" THEN <<>> ELSE <<p>>) [] p.is \in {"call", "result"} -> <<p>>
    [] p.is = "image" -> Formats!BrImage(p) [] p.is = "url" -> <<>>
LEMMA BlocksAre ==
  ASSUME NEW N \in Nat, NEW s, DOMAIN s = 1 .. N
  PROVE  Formats!BrBlocks(Formats!Message("user", s)) = Formats!FlattenSeq([n \in 1 .. N |-> Sending(s[n])])
<1>1. PICK m : m = Formats!Message("user", s) OBVIOUS
<1>2. m.parts = s BY <1>1 DEF Formats!Message
<1>3. Formats!BrBlocks(m) = Formats!FlattenSeq([n \in DOMAIN m.parts |-> Sending(m.parts[n])])
  BY DEF Formats!BrBlocks, Formats!Each, Sending
<1> QED BY <1>1, <1>2, <1>3

LEMMA WordsSent == Sending(Formats!TextPart("words")) = <<Formats!TextPart("words")>>
BY DEF Sending, Formats!TextPart

(* A content whose URLs were all replaced keeps its images; of one that has only URLs the *)
(* words are left.                                                                     *)
LEMMA BedrockImages ==
  ASSUME NEW k \in Nat, NEW s, DOMAIN s = 1 .. k + 1, s[1] = Formats!TextPart("words"),
         \A n \in 2 .. k + 1 : s[n].is = "image" /\ s[n].mime \in Formats!Mimes
  PROVE  /\ Formats!BrBlocks(Formats!Message("user", s)) # <<>>
         /\ Cardinality(Pictures(Formats!BrBlocks(Formats!Message("user", s)))) = k
<1> DEFINE b == Formats!BrBlocks(Formats!Message("user", s))
           N == k + 1
           x == [n \in 1 .. N |-> IF n = 1 THEN s[1] ELSE Formats!ImagePart(s[n].mime, Formats!Bare(s[n].data))]
<1>0. N \in Nat \ {0} OBVIOUS
<1>1. b = Formats!FlattenSeq([n \in 1 .. N |-> Sending(s[n])]) BY BlocksAre
<1>2. ASSUME NEW n \in 1 .. N PROVE Sending(s[n]) = <<x[n]>>
  <2>1. CASE n = 1 BY <2>1, WordsSent
  <2>2. CASE n # 1
    <3>1. s[n].is = "image" /\ s[n].mime \in Formats!Mimes BY <2>2
    <3>2. Sending(s[n]) = Formats!BrImage(s[n]) BY <3>1 DEF Sending
    <3>3. x[n] = Formats!ImagePart(s[n].mime, Formats!Bare(s[n].data)) BY <2>2
    <3> QED BY <3>1, <3>2, <3>3 DEF Formats!BrImage
  <2> QED BY <2>1, <2>2
<1> HIDE DEF b
<1>3. x[1].is = "text" BY DEF Formats!TextPart
<1>4. \A n \in 2 .. N : x[n].is = "image" BY DEF Formats!ImagePart
<1> HIDE DEF x, N
<1>5. PICK f : f = [n \in 1 .. N |-> <<x[n]>>] OBVIOUS
<1>6. b = Formats!FlattenSeq(f)
  <2>1. [n \in 1 .. N |-> Sending(s[n])] = [n \in 1 .. N |-> <<x[n]>>] BY <1>2
  <2> QED BY <1>1, <1>5, <2>1
<1>7. Is(b, N, x) BY <1>0, <1>5, <1>6, FlattenOnes
<1>8. Pictures(b) = 2 .. N
  <2>1. ASSUME NEW n \in 1 .. N PROVE b[n].is = "image" <=> n # 1 BY <1>3, <1>4, <1>7 DEF N, Is
  <2>2. Pictures(b) = {n \in 1 .. N : b[n].is = "image"} BY <1>7 DEF Pictures, Is
  <2> QED BY <2>1, <2>2 DEF N
<1>9. Cardinality(2 .. N) = k BY FS_Interval DEF N
<1>10. b # <<>> BY <1>0, <1>7 DEF Is
<1> QED BY <1>8, <1>9, <1>10 DEF b

LEMMA BedrockUrls ==
  ASSUME NEW k \in Nat, NEW s, DOMAIN s = 1 .. k + 1, s[1] = Formats!TextPart("words"),
         \A n \in 2 .. k + 1 : s[n].is = "url"
  PROVE  /\ Formats!BrBlocks(Formats!Message("user", s)) # <<>>
         /\ Cardinality(Pictures(Formats!BrBlocks(Formats!Message("user", s)))) = 0
<1> DEFINE b == Formats!BrBlocks(Formats!Message("user", s))
           N == k + 1
           w == Formats!TextPart("words")
<1>0. N \in Nat \ {0} OBVIOUS
<1>1. b = Formats!FlattenSeq([n \in 1 .. N |-> Sending(s[n])]) BY BlocksAre
<1>2. ASSUME NEW n \in 1 .. N PROVE Sending(s[n]) = IF n = 1 THEN <<w>> ELSE <<>>
  <2>1. CASE n = 1 BY <2>1, WordsSent
  <2>2. CASE n # 1
    <3>1. s[n].is = "url" BY <2>2
    <3> QED BY <2>2, <3>1 DEF Sending
  <2> QED BY <2>1, <2>2
<1>3. w.is = "text" BY DEF Formats!TextPart
<1> HIDE DEF b, w, N
<1>4. PICK f : f = [n \in 1 .. N |-> IF n = 1 THEN <<w>> ELSE <<>>] OBVIOUS
<1>5. b = Formats!FlattenSeq(f)
  <2>1. [n \in 1 .. N |-> Sending(s[n])] = [n \in 1 .. N |-> IF n = 1 THEN <<w>> ELSE <<>>] BY <1>2
  <2> QED BY <1>1, <1>4, <2>1
<1>6. b = <<w>> BY ONLY <1>0, <1>4, <1>5, FlattenFirst
<1>7. Pictures(b) = {} BY <1>3, <1>6 DEF Pictures
<1>8. b # <<>> BY <1>6
<1> QED BY <1>7, <1>8, FS_EmptySet DEF b

-----------------------------------------------------------------------------
(* The invariant. A copy is the words, and then URLs or what was fetched for them; there is *)
(* one only while a request is prepared or under way, so that the provider it was fetched for   *)
(* is the one it is sent to; and it is sent when nothing is left to fetch.                       *)

Words0 == Formats!TextPart("words")
Url == Formats!UrlPart("png")
Picture(s) == Formats!ImagePart(s.mime, <<s>>)
Fetches(c) == Vendor[P(c)] \in Fetchers /\ Opts(P(c)).enabled
FetchedAt(c, n) == \E s \in Sites : copy[c][n] = Picture(s) /\ Fetched(P(c), s) = "image"
Laid(c) ==
  /\ copy[c] # <<>> => pc[c] \in {"prepare", "sent", "dropped"} /\ copy[c][1] = Words0
  /\ pc[c] \in {"prepare", "sent"} => copy[c] # <<>>
  /\ \A n \in DOMAIN copy[c] : n # 1 => copy[c][n] = Url \/ (Fetches(c) /\ FetchedAt(c, n))
  /\ pc[c] = "sent" => Fetching(c) = {}
AllLaid == \A c \in Callers : Laid(c)

LEMMA KindsOfParts ==
  /\ Words0.is = "text" /\ Url.is = "url"
  /\ \A s : Picture(s).is = "image" /\ Picture(s).mime = s.mime /\ Picture(s).data[1] = s
BY DEF Words0, Url, Picture, Formats!TextPart, Formats!UrlPart, Formats!ImagePart

LEMMA LaidStarts == Init => AllLaid
BY DEF Init, AllLaid, Laid

(* A caller whose copy and provider stay keeps it; an empty one says nothing; a fresh one  *)
(* has URLs only.                                                                       *)
LEMMA LaidKept ==
  ASSUME NEW c \in Callers, Laid(c), UNCHANGED <<Vendor, knobs>>,
         copy'[c] = copy[c], pc'[c] = pc[c] \/ (pc'[c] \notin {"prepare", "sent"} /\ pc'[c] = "dropped"), target'[c] = target[c]
  PROVE  Laid(c)'
<1>1. P(c)' = P(c) BY DEF P
<1>2. Fetches(c)' <=> Fetches(c) BY <1>1 DEF Fetches, Opts
<1>3. \A n : FetchedAt(c, n)' <=> FetchedAt(c, n) BY <1>1 DEF FetchedAt, Fetched, Opts
<1>4. Fetching(c)' = Fetching(c) BY <1>1 DEF Fetching, Opts
<1> QED BY <1>2, <1>3, <1>4 DEF Laid

LEMMA LaidEmpty ==
  ASSUME NEW c \in Callers, copy'[c] = <<>>, pc'[c] \notin {"prepare", "sent"}
  PROVE  Laid(c)'
BY DEF Laid

LEMMA LaidAsked ==
  ASSUME NEW c \in Callers, copy'[c] = Asked(c), pc'[c] = "prepare"
  PROVE  Laid(c)'
<1>1. ImagesOf(c) \in Nat BY StackAssumption DEF ImagesOf
<1>2. PICK u : u = [n \in 1 .. ImagesOf(c) |-> Url] OBVIOUS
<1>3. u \in Seq({Words0, Url}) /\ <<Words0>> \in Seq({Words0, Url}) BY <1>1, <1>2
<1>4. Asked(c) = <<Words0>> \o u BY <1>2 DEF Asked, Words0, Url
<1>5. Len(u) = ImagesOf(c) /\ \A n \in 1 .. Len(u) : u[n] = Url BY <1>1, <1>2, LenProperties
<1>6. Asked(c)[1] = Words0 /\ Asked(c) # <<>> BY <1>3, <1>4
<1>7. \A n \in DOMAIN Asked(c) : n # 1 => Asked(c)[n] = Url BY <1>3, <1>4, <1>5
<1> QED BY <1>6, <1>7 DEF Laid

Apart(c) == \A d \in Callers : d # c => pc'[d] = pc[d] /\ target'[d] = target[d] /\ copy'[d] = copy[d]
LEMMA LaidAll ==
  ASSUME AllLaid, NEW c \in Callers, Apart(c), UNCHANGED <<Vendor, knobs>>, Laid(c)'
  PROVE  AllLaid'
<1>1. ASSUME NEW d \in Callers, d # c PROVE Laid(d)'
  BY <1>1, LaidKept DEF AllLaid, Apart
<1> QED BY <1>1 DEF AllLaid

(* An attempt that fails leaves no copy behind.                                         *)
LEMMA Leaving ==
  ASSUME Typed, NEW c \in Callers, Transient(c) \/ Refusal(c) \/ Cascade(c), copy' = [copy EXCEPT ![c] = <<>>], Copied
  PROVE  Apart(c) /\ copy'[c] = <<>> /\ pc'[c] \notin {"prepare", "sent"}
<1>1. \E u \in {"pause", "limit", "failed"} : pc' = [pc EXCEPT ![c] = u]
  BY DEF Transient, Refusal, Cascade
<1>2. target' = target \/ target' = [target EXCEPT ![c] = @ + 1]
  BY DEF Transient, Refusal, Cascade
<1> QED BY <1>1, <1>2 DEF Apart, Typed, Copied

LEMMA LaidMoves ==
  ASSUME Inv, AllLaid, NEW c \in Callers, Begin(c) \/ Acquire(c) \/ Finished(c) \/ Wake(c) \/ Drop(c)
  PROVE  AllLaid'
<1>1. Typed /\ Copied /\ Laid(c) BY DEF Inv, AllLaid
<1>2. UNCHANGED <<Vendor, knobs, target>> BY DEF Begin, Acquire, Finished, Wake, Drop
<1>3. CASE Begin(c) \/ Acquire(c) \/ Finished(c)
  <2>1. pc[c] \in {"idle", "limit", "reading"} /\ copy' = copy /\ \E u \in {"limit", "gate", "failed", "done"} : pc' = [pc EXCEPT ![c] = u]
    BY <1>3 DEF Begin, Acquire, Finished
  <2>2. Apart(c) BY <1>1, <1>2, <2>1 DEF Apart, Typed
  <2>3. copy'[c] = <<>> /\ pc'[c] \notin {"prepare", "sent"} BY <1>1, <2>1 DEF Laid, Typed
  <2> QED BY <1>2, <2>2, <2>3, LaidEmpty, LaidAll
<1>4. CASE Wake(c)
  <2>1. pc' = [pc EXCEPT ![c] = "prepare"] /\ copy' = [copy EXCEPT ![c] = Asked(c)] BY <1>4 DEF Wake
  <2>2. Apart(c) BY <1>1, <1>2, <2>1 DEF Apart, Typed, Copied
  <2>3. copy'[c] = Asked(c) /\ pc'[c] = "prepare" BY <1>1, <2>1 DEF Typed, Copied
  <2> QED BY <1>2, <2>2, <2>3, LaidAsked, LaidAll
<1>5. CASE Drop(c)
  <2>1. pc' = [pc EXCEPT ![c] = "dropped"] /\ copy' = copy BY <1>5 DEF Drop
  <2>2. Apart(c) BY <1>1, <1>2, <2>1 DEF Apart, Typed
  <2>3. copy'[c] = copy[c] /\ pc'[c] = "dropped" BY <1>1, <2>1 DEF Typed
  <2> QED BY <1>1, <1>2, <2>2, <2>3, LaidKept, LaidAll
<1> QED BY <1>3, <1>4, <1>5

LEMMA LaidEnter ==
  ASSUME Inv, AllLaid, NEW c \in Callers, Enter(c)
  PROVE  AllLaid'
<1>1. Typed /\ Copied /\ Laid(c) /\ pc[c] = "gate" BY DEF Inv, AllLaid, Enter
<1>2. UNCHANGED <<Vendor, knobs>> BY DEF Enter
<1>3. CASE breaker[P(c)].state = "open"
  <2>1. Cascade(c) /\ copy' = copy BY <1>3 DEF Enter
  <2>2. copy[c] = <<>> BY <1>1 DEF Laid
  <2>3. copy' = [copy EXCEPT ![c] = <<>>] BY <2>1, <2>2, <1>1 DEF Copied
  <2> QED BY <1>1, <1>2, <2>1, <2>3, Leaving, LaidEmpty, LaidAll
<1>4. CASE breaker[P(c)].state # "open"
  <2>1. pc' = [pc EXCEPT ![c] = "prepare"] /\ copy' = [copy EXCEPT ![c] = Asked(c)] /\ target' = target BY <1>4 DEF Enter
  <2>2. Apart(c) BY <1>1, <2>1 DEF Apart, Typed, Copied
  <2>3. copy'[c] = Asked(c) /\ pc'[c] = "prepare" BY <1>1, <2>1 DEF Typed, Copied
  <2> QED BY <1>2, <2>2, <2>3, LaidAsked, LaidAll
<1> QED BY <1>3, <1>4

(* An image that was admitted takes the place of the first URL, which is not the words.   *)
LEMMA LaidFetch ==
  ASSUME Inv, AllLaid, NEW c \in Callers, Fetch(c)
  PROVE  AllLaid'
<1>1. Typed /\ Copied /\ Laid(c) /\ pc[c] = "prepare" /\ Fetching(c) # {} BY DEF Inv, AllLaid, Fetch
<1>2. UNCHANGED <<Vendor, knobs>> BY DEF Fetch
<1>3. PICK s \in Sites :
        \/ /\ Fetched(P(c), s) = "image" /\ copy' = [copy EXCEPT ![c][Min(Fetching(c))] = Picture(s)]
           /\ UNCHANGED <<pc, target>>
        \/ (Transient(c) \/ Refusal(c)) /\ copy' = [copy EXCEPT ![c] = <<>>]
  BY FetchedIs DEF Fetch, Picture
<1>4. CASE /\ Fetched(P(c), s) = "image" /\ copy' = [copy EXCEPT ![c][Min(Fetching(c))] = Picture(s)]
           /\ UNCHANGED <<pc, target>>
  <2>1. Fetches(c) /\ Fetching(c) \in SUBSET DOMAIN copy[c] /\ \A n \in Fetching(c) : copy[c][n].is = "url"
    BY <1>1 DEF Fetching, Fetches
  <2>2. copy[c] \in Seq(Content) BY <1>1 DEF Copied
  <2>3. PICK m \in Fetching(c) : m = Min(Fetching(c))
    <3>1. Fetching(c) \in SUBSET Nat BY <2>1, <2>2
    <3> QED BY <1>1, <3>1, FirstOf DEF Min
  <2>4. m \in DOMAIN copy[c] /\ m # 1 BY <1>1, <2>1, KindsOfParts DEF Laid
  <2>5. copy'[c] = [copy[c] EXCEPT ![m] = Picture(s)] BY <1>1, <1>4, <2>3 DEF Copied
  <2>6. Apart(c) BY <1>1, <1>4 DEF Apart, Copied
  <2>7. DOMAIN copy'[c] = DOMAIN copy[c] /\ copy'[c][m] = Picture(s) /\ \A n \in DOMAIN copy[c] : n # m => copy'[c][n] = copy[c][n]
    BY <2>2, <2>4, <2>5
  <2>8. P(c)' = P(c) BY <1>4 DEF P
  <2>9. Fetches(c)' BY <1>2, <2>1, <2>8 DEF Fetches, Opts
  <2>10. \A n \in DOMAIN copy[c] : n # m /\ FetchedAt(c, n) => FetchedAt(c, n)' BY <1>2, <2>7, <2>8 DEF FetchedAt, Fetched, Opts
  <2>11. FetchedAt(c, m)' BY <1>2, <1>4, <2>7, <2>8 DEF FetchedAt, Fetched, Opts
  <2>12. copy'[c][1] = Words0
    <3>1. copy[c] # <<>> /\ copy[c][1] = Words0 BY <1>1 DEF Laid
    <3>2. 1 \in DOMAIN copy[c] BY <2>2, <3>1
    <3> QED BY <2>4, <2>7, <3>1, <3>2
  <2>13. ASSUME NEW n \in DOMAIN copy'[c], n # 1 PROVE copy'[c][n] = Url \/ FetchedAt(c, n)'
    <3>1. CASE n = m BY <3>1, <2>11
    <3>2. CASE n # m BY <3>2, <2>7, <2>10, <2>13, <1>1 DEF Laid
    <3> QED BY <3>1, <3>2
  <2>14. pc'[c] = "prepare" /\ copy'[c] # <<>> BY <1>1, <1>4, <2>4, <2>7
  <2>15. Laid(c)' BY <2>9, <2>12, <2>13, <2>14 DEF Laid
  <2> QED BY <1>2, <2>6, <2>15, LaidAll
<1>5. CASE (Transient(c) \/ Refusal(c)) /\ copy' = [copy EXCEPT ![c] = <<>>]
  BY <1>1, <1>2, <1>5, Leaving, LaidEmpty, LaidAll
<1> QED BY <1>3, <1>4, <1>5

LEMMA LaidRequest ==
  ASSUME Inv, AllLaid, NEW c \in Callers, Request(c)
  PROVE  AllLaid'
<1>1. Typed /\ Copied /\ Laid(c) /\ pc[c] = "prepare" /\ Fetching(c) = {} BY DEF Inv, AllLaid, Request
<1>2. pc' = [pc EXCEPT ![c] = "sent"] /\ UNCHANGED <<Vendor, knobs, copy, target>> BY DEF Request
<1>3. Apart(c) /\ pc'[c] = "sent" BY <1>1, <1>2 DEF Apart, Typed
<1>4. P(c)' = P(c) BY <1>2 DEF P
<1>5. Fetches(c)' <=> Fetches(c) BY <1>2, <1>4 DEF Fetches, Opts
<1>6. \A n : FetchedAt(c, n)' <=> FetchedAt(c, n) BY <1>2, <1>4 DEF FetchedAt, Fetched, Opts
<1>7. Fetching(c)' = Fetching(c) BY <1>2, <1>4 DEF Fetching, Opts
<1>8. Laid(c)' BY <1>1, <1>2, <1>3, <1>5, <1>6, <1>7 DEF Laid
<1> QED BY <1>2, <1>3, <1>8, LaidAll

LEMMA LaidReplied ==
  ASSUME Inv, AllLaid, NEW c \in Callers, Replied(c)
  PROVE  AllLaid'
<1>1. Typed /\ Copied BY DEF Inv
<1>2. UNCHANGED <<Vendor, knobs>> /\ copy' = [copy EXCEPT ![c] = <<>>] BY DEF Replied
<1>3. \/ Transient(c) \/ Refusal(c)
      \/ /\ pc' = [pc EXCEPT ![c] = IF streams THEN "reading" ELSE "done"]
         /\ target' = target
  BY DEF Replied
<1>4. Apart(c) /\ copy'[c] = <<>> /\ pc'[c] \notin {"prepare", "sent"}
  <2>1. CASE Transient(c) \/ Refusal(c) BY <1>1, <1>2, <2>1, Leaving
  <2>2. CASE pc' = [pc EXCEPT ![c] = IF streams THEN "reading" ELSE "done"] /\ target' = target
    BY <1>1, <1>2, <2>2 DEF Apart, Typed, Copied
  <2> QED BY <1>3, <2>1, <2>2
<1> QED BY <1>2, <1>4, LaidEmpty, LaidAll

LEMMA LaidStays == Inv /\ AllLaid /\ [Next \/ Clocks]_vars => AllLaid'
<1> SUFFICES ASSUME Inv, AllLaid, [Next \/ Clocks]_vars PROVE AllLaid' OBVIOUS
<1>1. ASSUME UNCHANGED <<Vendor, knobs, pc, copy, target>> PROVE AllLaid'
  BY <1>1, LaidKept DEF AllLaid
<1>2. CASE Read BY <1>1, <1>2 DEF Read, stackVars
<1>3. CASE Clocks BY <1>1, <1>3 DEF Clocks, Cools, Refills
<1>4. CASE UNCHANGED vars BY <1>1, <1>4 DEF vars, stackVars
<1>5. ASSUME NEW c \in Callers, Call(c) \/ Drop(c) PROVE AllLaid'
  BY <1>5, LaidMoves, LaidEnter, LaidFetch, LaidRequest, LaidReplied DEF Call
<1> QED BY <1>2, <1>3, <1>4, <1>5 DEF Next

(* The ranges is_blocked_ip() masks are those of addresses inside.                       *)
LEMMA InsideIsBlocked == \A ip \in Inside : IsBlockedIp(ip)
<1> SUFFICES ASSUME NEW ip \in Inside PROVE IsBlockedIp(ip) OBVIOUS
<1>1. OfInside(ip) BY StackAssumption
<1>2. CASE ip.v = "6"
  <2>1. PICK a \in Nat : a = ip.a /\ a \in {0} \cup 64512 .. 65023 \cup 65152 .. 65215 \cup 65280 .. 65535
    BY <1>1, <1>2 DEF OfInside
  <2>2. a \in 64512 .. 65023 => a \div 512 = 126 OBVIOUS
  <2>3. a \in 65152 .. 65215 => a \div 64 = 1018 OBVIOUS
  <2> QED BY <1>2, <2>1, <2>2, <2>3 DEF IsBlockedIp, Blocked6
<1>3. CASE ip.v # "6"
  <2>1. CASE ip.a \in {10, 127} \cup 224 .. 255 BY <1>3, <2>1 DEF IsBlockedIp, Blocked4
  <2>2. CASE <<ip.a, ip.b>> \in {<<0, 0>>, <<192, 168>>, <<169, 254>>} BY <1>3, <2>2 DEF IsBlockedIp, Blocked4
  <2>3. CASE ip.a = 172 /\ ip.b \in 16 .. 31 BY <1>3, <2>3 DEF IsBlockedIp, Blocked4
  <2> QED BY <1>1, <1>3, <2>1, <2>2, <2>3 DEF OfInside
<1> QED BY <1>2, <1>3

(* What is fetched was admitted, and is of a type that can be sent.                      *)
LEMMA AdmittedIs ==
  ASSUME NEW p, NEW s, Fetched(p, s) = "image"
  PROVE  UrlAdmitted(Opts(p), s) /\ Reached(Opts(p), s) /\ s.mime \in SentMimes
<1>1. FetchOne(Opts(p), s) = "image" BY DEF Fetched, OlFetchOne
<1> QED BY <1>1 DEF FetchOne

LEMMA AllowedIs == Inv /\ AllLaid => FetchedAllowed
<1> SUFFICES ASSUME Inv, AllLaid, NEW c \in Callers, NEW part \in Range(copy[c]), part.is = "image"
             PROVE  LET s == part.data[1]
                        opts == Opts(P(c))
                    IN  /\ s.scheme = "https" \/ opts.http
                        /\ \A hop \in {s} \cup {h \in Range(s.next) : ~h.literal} :
                             opts.private \/ AllowsHost(opts, hop.host)
                               \/ \A ip \in hop.ips \intersect Inside : AllowsIp(opts, ip)
  BY DEF FetchedAllowed
<1>1. PICK n \in DOMAIN copy[c] : part = copy[c][n] BY DEF Range
<1>2. n # 1
  <2>1. copy[c] \in Seq(Content) BY DEF Inv, Copied
  <2>2. copy[c] # <<>> BY <1>1, <2>1
  <2> QED BY <1>1, <2>2, KindsOfParts DEF AllLaid, Laid
<1>3. PICK s \in Sites : part = Picture(s) /\ Fetched(P(c), s) = "image"
  BY <1>1, <1>2, KindsOfParts DEF AllLaid, Laid, FetchedAt
<1>4. part.data[1] = s BY <1>3, KindsOfParts
<1>5. PICK o : o = Opts(P(c)) OBVIOUS
<1>6. UrlAdmitted(o, s) /\ Reached(o, s) BY <1>3, <1>5, AdmittedIs
<1>7. s.scheme = "https" \/ o.http BY <1>6 DEF UrlAdmitted
<1>8. ASSUME NEW hop \in {s} \cup {h \in Range(s.next) : ~h.literal} PROVE AllAdmitted(o, hop)
  <2>1. s.literal => AllAdmitted(o, s) BY <1>6 DEF UrlAdmitted
  <2>2. hop \in Hops(s) /\ (hop.literal => hop = s) BY DEF Hops
  <2>3. hop.literal \/ AllAdmitted(o, hop) BY <1>6, <2>2 DEF Reached
  <2> QED BY <2>1, <2>2, <2>3
<1>9. ASSUME NEW hop \in {s} \cup {h \in Range(s.next) : ~h.literal}
      PROVE  o.private \/ AllowsHost(o, hop.host) \/ \A ip \in hop.ips \intersect Inside : AllowsIp(o, ip)
  BY <1>8, InsideIsBlocked DEF AllAdmitted
<1> QED BY <1>4, <1>5, <1>7, <1>9

LEMMA SentIs == Inv /\ AllLaid => ImagesSent
<1> SUFFICES ASSUME Inv, AllLaid, NEW c \in Callers, pc[c] = "sent", Vendor[P(c)] \in Fetchers
             PROVE  LET asked == <<Formats!Message("user", copy[c])>>
                        blocks == Formats!BrRequest(asked).messages[1].content
                        sent == IF Vendor[P(c)] = "ollama" THEN Len(Formats!OlRequest(asked)[1].images)
                                ELSE Cardinality({n \in DOMAIN blocks : blocks[n].is = "image"})
                    IN  sent = IF Opts(P(c)).enabled THEN ImagesOf(c) ELSE 0
  BY DEF ImagesSent
<1>1. Laid(c) /\ Copied BY DEF AllLaid, Inv
<1>2. PICK k \in Nat : k = ImagesOf(c) BY StackAssumption DEF ImagesOf
<1>3. PICK s \in Seq(Content) : s = copy[c] BY <1>1 DEF Copied
<1>4. s # <<>> /\ s[1] = Words0 BY <1>1, <1>3 DEF Laid
<1>5. DOMAIN s = 1 .. k + 1
  <2>1. Len(s) \in {0, k + 1} BY <1>1, <1>2, <1>3 DEF Copied, Sized
  <2>2. Len(s) # 0 BY <1>3, <1>4
  <2> QED BY <1>3, <2>1, <2>2
<1>6. PICK e \in BOOLEAN : e <=> Fetches(c) OBVIOUS
<1>7. Opts(P(c)).enabled <=> e BY <1>6 DEF Fetches
<1>8. CASE ~e
  <2>1. \A n \in 2 .. k + 1 : s[n] = Url
    BY <1>1, <1>3, <1>5, <1>6, <1>8 DEF Laid
  <2>2. Pictures(s) = {}
    BY <1>4, <1>5, <2>1, KindsOfParts DEF Pictures
  <2>3. IsFiniteSet(Pictures(s)) /\ Cardinality(Pictures(s)) = 0 BY <2>2, FS_EmptySet
  <2>4. Len(Formats!OlRequest(<<Formats!Message("user", s)>>)[1].images) = 0 BY <2>3, OllamaImages
  <2>5. Cardinality(Pictures(Formats!BrRequest(<<Formats!Message("user", s)>>).messages[1].content)) = 0
    <3>1. \A n \in 2 .. k + 1 : s[n].is = "url" BY <2>1, KindsOfParts
    <3>2. s[1] = Formats!TextPart("words") BY <1>4 DEF Words0
    <3> QED BY <1>5, <3>1, <3>2, BedrockUrls, BedrockSends
  <2> QED BY <1>3, <1>7, <1>8, <2>4, <2>5 DEF Pictures
<1>9. CASE e
  <2>1. \A n \in 2 .. k + 1 : s[n].is = "image" /\ s[n].mime \in Formats!Mimes
    <3> TAKE n \in 2 .. k + 1
    <3>1. n \in DOMAIN s /\ n # 1 BY <1>5
    <3>2. s[n] # Url
      <4>1. Fetching(c) = {} BY <1>1 DEF Laid
      <4>2. s[n].is # "url" BY <1>3, <1>6, <1>9, <3>1, <4>1 DEF Fetching, Fetches
      <4> QED BY <4>2, KindsOfParts
    <3>3. PICK x \in Sites : s[n] = Picture(x) /\ Fetched(P(c), x) = "image"
      BY <1>1, <1>3, <3>1, <3>2 DEF Laid, FetchedAt
    <3>4. x.mime \in SentMimes BY <3>3, AdmittedIs
    <3> QED BY <3>3, <3>4, KindsOfParts DEF SentMimes, Formats!Mimes
  <2>2. Pictures(s) = 2 .. k + 1
    <3>1. s[1].is # "image" BY <1>4, KindsOfParts
    <3> QED BY <1>5, <2>1, <3>1 DEF Pictures
  <2>3. IsFiniteSet(Pictures(s)) /\ Cardinality(Pictures(s)) = k BY <2>2, FS_Interval
  <2>4. Len(Formats!OlRequest(<<Formats!Message("user", s)>>)[1].images) = k BY <2>3, OllamaImages
  <2>5. Cardinality(Pictures(Formats!BrRequest(<<Formats!Message("user", s)>>).messages[1].content)) = k
    <3>1. s[1] = Formats!TextPart("words") BY <1>4 DEF Words0
    <3> QED BY <1>5, <2>1, <3>1, BedrockImages, BedrockSends
  <2> QED BY <1>2, <1>3, <1>7, <1>9, <2>4, <2>5 DEF Pictures
<1> QED BY <1>8, <1>9

(* A provider is sent all the images of a request, through every retry, or none if it may  *)
(* not fetch; and whichever sites they are on, however it was built, each came by a URL of a  *)
(* scheme that is admitted, and the hosts of the URL and those it was redirected to by name    *)
(* had no address inside that is not listed (bedrock/src/url_prefetch.rs:29, 100, 335,          *)
(* bedrock/src/client.rs:239).                                                                 *)
THEOREM ImagesAreRight == Spec => []ImagesRight
<1>1. Spec => []Inv BY Starts, Stays, PTL DEF Spec
<1>2. Spec => []AllLaid BY <1>1, LaidStarts, LaidStays, PTL DEF Spec
<1>3. Inv /\ AllLaid => ImagesRight BY AllowedIs, SentIs DEF ImagesRight
<1> QED BY <1>1, <1>2, <1>3, PTL
=============================================================================
