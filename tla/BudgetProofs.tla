---------------------------- MODULE BudgetProofs ----------------------------
(***************************************************************************)
(* For any callers, tenants, caps and number of days: types, admission and *)
(* the bound on what the race between pre_check and record can cost.       *)
(***************************************************************************)
EXTENDS Budget, FiniteSetTheorems, TLAPS

USE CallersAssumption, CostsAssumption, CapsAssumption, DaysAssumption

(* What bounds the estimates is a number. *)
LEMMA LargestIsNat == Largest \in Nat
  BY DEF Largest

USE LargestIsNat

(* Every cap of a tenant is a number. *)
LEMMA CapsAreNat == \A t \in Tenants : Caps(t) \subseteq Nat
  BY DEF Caps

(* A set of callers is finite and no larger than Callers. *)
LEMMA CallerSets ==
  ASSUME NEW P \in SUBSET Callers
  PROVE  /\ IsFiniteSet(P)
         /\ Cardinality(P) \in Nat
         /\ Cardinality(P) <= Cardinality(Callers)
         /\ Cardinality(Callers) \in Nat \ {0}
         /\ P # {} => Cardinality(P) >= 1
  <1>1. IsFiniteSet(P) /\ Cardinality(P) <= Cardinality(Callers)
    BY FS_Subset
  <1>2. Cardinality(P) \in Nat /\ Cardinality(Callers) \in Nat
    BY <1>1, FS_CardinalityType
  <1>3. Cardinality(Callers) # 0
    BY FS_EmptySet
  <1>4. P # {} => Cardinality(P) # 0
    BY <1>1, FS_EmptySet
  <1> QED
    BY <1>1, <1>2, <1>3, <1>4

(* Slack is a monotone count of estimates. *)
LEMMA SlackFacts ==
  ASSUME NEW m \in Nat \ {0}
  PROVE  /\ Slack(m) \in Nat
         /\ Slack(m + 1) = Slack(m) + Largest
         /\ \A n \in Nat : m <= n => Slack(m) <= Slack(n)
  <1>1. Slack(m) \in Nat /\ Slack(m + 1) = Slack(m) + Largest
    BY DEF Slack
  <1>2. ASSUME NEW n \in Nat, m <= n PROVE Slack(m) <= Slack(n)
    <2>1. Slack(n) - Slack(m) = Largest * (n - m)
      BY <1>2 DEF Slack
    <2>2. Largest * (n - m) \in Nat
      <3>1. n - m \in Nat
        BY <1>2
      <3> QED
        BY <3>1
    <2>3. Slack(n) \in Int /\ Slack(m) \in Int
      BY DEF Slack
    <2> QED
      BY <2>1, <2>2, <2>3
  <1> QED
    BY <1>1, <1>2

(* A caller just checked against usage u leaves room for all the others.   *)
LEMMA FreshCheck ==
  ASSUME NEW P \in SUBSET Callers, P # {},
         NEW u \in Nat, NEW e \in Nat, NEW cap \in Nat, u + e <= cap
  PROVE  u + e + Slack(Cardinality(P)) <= cap + Slack(Cardinality(Callers))
  <1>1. /\ Cardinality(P) \in Nat \ {0}
        /\ Cardinality(Callers) \in Nat \ {0}
        /\ Cardinality(P) <= Cardinality(Callers)
    BY CallerSets
  <1>2. /\ Slack(Cardinality(P)) <= Slack(Cardinality(Callers))
        /\ Slack(Cardinality(P)) \in Nat
        /\ Slack(Cardinality(Callers)) \in Nat
    BY <1>1, SlackFacts
  <1> QED
    BY <1>2

(* A pending caller leaves, adding r to the usage u: the usage stays under *)
(* the bound, and so does the pledge of the callers that remain.           *)
LEMMA PendingLeaves ==
  ASSUME TypeOK, NEW t \in Tenants, NEW cap \in Caps(t),
         NEW c \in Pending(t, cap), NEW r \in 0 .. est[c],
         NEW w \in Pending(t, cap),
         usd[day][t] + est[w] + Slack(Cardinality(Pending(t, cap)))
           <= cap + Slack(Cardinality(Callers))
  PROVE  /\ usd[day][t] + r <= cap + Slack(Cardinality(Callers))
         /\ Pending(t, cap) \ {c} # {} =>
              \E v \in Pending(t, cap) \ {c} :
                usd[day][t] + r + est[v] + Slack(Cardinality(Pending(t, cap) \ {c}))
                  <= cap + Slack(Cardinality(Callers))
  <1> DEFINE P == Pending(t, cap)
             Q == P \ {c}
             u == usd[day][t]
             X == cap + Slack(Cardinality(Callers))
  <1>0. /\ P \in SUBSET Callers /\ Q \in SUBSET Callers /\ \A x \in P : est[x] \in 0 .. Largest
        /\ u \in Nat /\ X \in Nat
        /\ c \in P /\ w \in P
        /\ u + est[w] + Slack(Cardinality(P)) <= X
    <2>1. u \in Nat
      BY DEF TypeOK
    <2>2. X \in Nat
      BY CapsAreNat, CallerSets, SlackFacts
    <2> QED
      BY <2>1, <2>2 DEF Pending, TypeOK
  <1> SUFFICES u + r <= X /\ (Q # {} => \E v \in Q : u + r + est[v] + Slack(Cardinality(Q)) <= X)
    OBVIOUS
  <1> HIDE DEF P, u, X
  <1>1. /\ IsFiniteSet(P) /\ Cardinality(P) \in Nat /\ Cardinality(P) >= 1
        /\ Cardinality(Q) \in Nat
        /\ Q # {} => Cardinality(Q) >= 1
    BY <1>0, CallerSets
  <1>2. Cardinality(P) = Cardinality(Q) + 1
    <2>1. Cardinality(Q) = Cardinality(P) - 1
      BY <1>0, <1>1, FS_RemoveElement, Zenon
    <2> QED
      BY <2>1, <1>1
  <1>3. Slack(Cardinality(P)) \in Nat
    BY <1>1, SlackFacts
  <1>4. est[c] \in 0 .. Largest /\ est[w] \in 0 .. Largest /\ r \in 0 .. est[c]
    BY <1>0
  <1>5. CASE Q = {}
    <2>1. w = c
      BY <1>0, <1>5
    <2> QED
      BY <2>1, <1>0, <1>3, <1>4, <1>5
  <1>6. CASE Q # {}
    <2>1. /\ Slack(Cardinality(P)) = Slack(Cardinality(Q)) + Largest
          /\ Slack(Cardinality(Q)) \in Nat
      BY <1>1, <1>2, <1>6, SlackFacts
    <2>2. u + r <= X
      BY <2>1, <1>0, <1>4
    <2>3. PICK v \in Q : w # c => v = w
      BY <1>0, <1>6
    <2>4. est[v] \in 0 .. Largest
      BY <2>3, <1>0
    <2>5. u + r + est[v] + Slack(Cardinality(Q)) <= X
      <3>1. CASE w = c
        BY <3>1, <2>1, <2>4, <1>0, <1>4
      <3>2. CASE w # c
        BY <3>2, <2>1, <2>3, <2>4, <1>0, <1>4
      <3> QED
        BY <3>1, <3>2
    <2> QED
      BY <2>2, <2>3, <2>5
  <1> QED
    BY <1>5, <1>6

-----------------------------------------------------------------------------
(* The inductive invariant, and the facts about it. *)
IInv == TypeOK /\ AdmittedFits /\ OvershootInductive /\ OvershootBounded

LEMMA InitIInv == Init => IInv
  <1> SUFFICES ASSUME Init PROVE IInv
    OBVIOUS
  <1>1. TypeOK
    BY DEF Init, TypeOK, Day, Status
  <1>2. \A c \in Callers : st[c] = "idle" /\ asked[c] = 1
    BY DEF Init
  <1>3. AdmittedFits
    BY <1>2 DEF AdmittedFits, Busy
  <1>4. PendingBounded
    BY <1>2 DEF PendingBounded, Pending, Init
  <1>5. NothingFromTomorrow
    BY <1>2 DEF NothingFromTomorrow, Init
  <1>6. OvershootBounded
    <2> SUFFICES ASSUME NEW d \in Day, NEW t \in Tenants, NEW cap \in Caps(t)
                 PROVE  usd[d][t] <= cap + Slack(Cardinality(Callers))
      BY DEF OvershootBounded
    <2>1. usd[d][t] = 0
      BY DEF Init
    <2>2. cap \in Nat
      BY CapsAreNat
    <2>3. Slack(Cardinality(Callers)) \in Nat
      BY CallerSets, SlackFacts
    <2> QED
      BY <2>1, <2>2, <2>3
  <1> QED
    BY <1>1, <1>3, <1>4, <1>5, <1>6 DEF IInv, OvershootInductive

LEMMA NextTypeOK == TypeOK /\ [Next]_vars => TypeOK'
  <1> SUFFICES ASSUME TypeOK, [Next]_vars PROVE TypeOK'
    OBVIOUS
  <1> USE DEF TypeOK, Status, Day, Leave
  <1>1. ASSUME NEW c \in Callers, NEW e \in Costs, NEW n \in Tokens, Request(c, e, n) PROVE TypeOK'
    <2>1. e \in 0 .. Largest
      BY <1>1 DEF Request, TooLarge, Largest
    <2>2. est' = [est EXCEPT ![c] = e] /\ UNCHANGED <<day, usd, tenant, booked>>
      BY <1>1 DEF Request
    <2>3. st' \in [Callers -> Status] /\ asked' \in [Callers -> Day]
      BY <1>1 DEF Request
    <2> QED
      BY <2>1, <2>2, <2>3
  <1>2. ASSUME NEW c \in Callers, NEW e \in Costs, NEW n \in Tokens, RefuseRequest(c, e, n) PROVE TypeOK'
    <2>1. Leave(c, "refused") /\ UNCHANGED <<day, usd, booked>>
      BY <1>2 DEF RefuseRequest
    <2>2. st' \in [Callers -> Status] /\ est' \in [Callers -> 0 .. Largest]
      BY <2>1
    <2> QED
      BY <2>1, <2>2
  <1>3. ASSUME NEW c \in Callers, Admit(c) PROVE TypeOK'
    BY <1>3 DEF Admit
  <1>4. ASSUME NEW c \in Callers, Refuse(c) \/ CheckLost(c) PROVE TypeOK'
    <2>1. PICK to \in {"refused", "idle"} : Leave(c, to)
      BY <1>4 DEF Refuse, CheckLost
    <2>2. st' \in [Callers -> Status] /\ est' \in [Callers -> 0 .. Largest]
      BY <2>1
    <2>3. UNCHANGED <<day, usd, tenant, asked, booked>>
      BY <1>4 DEF Refuse, CheckLost
    <2> QED
      BY <2>2, <2>3
  <1>6. ASSUME NEW c \in Callers, NEW recorded \in {0, est[c]}, End(c, recorded),
               booked' \in {"exact", "inexact"}
        PROVE  TypeOK'
    <2>1. recorded \in Nat /\ day \in Day /\ tenant[c] \in Tenants
      BY <1>6
    <2>2. /\ usd' = [usd EXCEPT ![day][tenant[c]] = @ + recorded]
          /\ Leave(c, "idle")
          /\ day' = day
      BY <1>6 DEF End
    <2>3. usd' \in [Day -> [Tenants -> Nat]]
      <3>1. usd \in [Day -> [Tenants -> Nat]]
        OBVIOUS
      <3> HIDE DEF TypeOK, Day
      <3> QED
        BY <2>1, <2>2, <3>1
    <2>4. booked' \in {"exact", "inexact"}
      BY <1>6
    <2>5. /\ st' \in [Callers -> Status] /\ est' \in [Callers -> 0 .. Largest]
          /\ tenant' = tenant /\ asked' = asked
      BY <2>2
    <2> QED
      <3> HIDE DEF Leave, Status
      <3> QED
        BY <2>2, <2>3, <2>4, <2>5
  <1>5. ASSUME NextDay PROVE TypeOK'
    <2>1. day' \in Day
      BY <1>5 DEF NextDay
    <2>2. UNCHANGED <<usd, st, tenant, est, asked, booked>>
      BY <1>5 DEF NextDay
    <2> QED
      BY <2>1, <2>2
  <1>7. CASE UNCHANGED vars
    BY <1>7 DEF vars
  <1> QED
    BY <1>1, <1>2, <1>3, <1>4, <1>5, <1>6, <1>7
    DEF Next, Record, ProviderFails, RecordLost

(* What a step that leaves the pending callers, their estimates and the    *)
(* usage alone does to the bounds: nothing.                                *)
LEMMA PendingSame ==
  ASSUME OvershootInductive, OvershootBounded, day' = day, usd' = usd,
         \A t \in Tenants : \A cap \in Caps(t) :
           /\ Pending(t, cap)' = Pending(t, cap)
           /\ \A x \in Pending(t, cap) : est'[x] = est[x]
  PROVE  PendingBounded' /\ OvershootBounded'
  BY DEF OvershootInductive, PendingBounded, OvershootBounded

(* A caller leaves, having recorded r. *)
LEMMA LeaveKeepsBounds ==
  ASSUME IInv, TypeOK', NEW c \in Callers, NEW to \in {"idle", "refused"}, Leave(c, to),
         Busy(c), day' = day, NEW r \in 0 .. est[c], r # 0 => st[c] = "inflight",
         \A d \in Day, t \in Tenants :
           usd'[d][t] = IF d = day /\ t = tenant[c] THEN usd[d][t] + r ELSE usd[d][t]
  PROVE  PendingBounded' /\ OvershootBounded'
  <1> DEFINE Bound(cap) == cap + Slack(Cardinality(Callers))
  <1>1. ASSUME NEW t \in Tenants, NEW cap \in Caps(t)
        PROVE  /\ usd'[day][t] <= Bound(cap)
               /\ Pending(t, cap)' # {} =>
                    \E v \in Pending(t, cap)' :
                      usd'[day][t] + est'[v] + Slack(Cardinality(Pending(t, cap)')) <= Bound(cap)
    <2> DEFINE P == Pending(t, cap)
    <2>1. /\ P \in SUBSET Callers /\ Pending(t, cap)' = P \ {c}
          /\ \A x \in P \ {c} : est'[x] = est[x]
      BY DEF Pending, Leave, IInv, TypeOK
    <2>2. day \in Day /\ usd[day][t] \in Nat /\ est \in [Callers -> 0 .. Largest]
      BY DEF IInv, TypeOK
    <2>3. Bound(cap) \in Nat
      BY CapsAreNat, CallerSets, SlackFacts
    <2>4. usd[day][t] <= Bound(cap)
      BY <2>2 DEF IInv, OvershootBounded
    <2>5. CASE c \in P
      <3>1. PICK w \in P : usd[day][t] + est[w] + Slack(Cardinality(P)) <= Bound(cap)
        BY <2>5 DEF IInv, OvershootInductive, PendingBounded
      <3>2. usd'[day][t] = usd[day][t] + r
        BY <2>2, <2>5 DEF Pending
      <3>3. /\ usd[day][t] + r <= Bound(cap)
            /\ P \ {c} # {} =>
                 \E v \in P \ {c} :
                   usd[day][t] + r + est[v] + Slack(Cardinality(P \ {c})) <= Bound(cap)
        BY <2>5, <3>1, PendingLeaves DEF IInv
      <3> HIDE DEF P, Bound
      <3> QED
        BY <2>1, <3>2, <3>3
    <2>6. CASE c \notin P
      <3>1. P \ {c} = P
        BY <2>6
      <3>2. usd'[day][t] = usd[day][t]
        <4>1. CASE r = 0
          BY <4>1, <2>2
        <4>2. CASE t # tenant[c]
          BY <4>2, <2>2
        <4>3. CASE r # 0 /\ t = tenant[c]
          BY <4>3, <2>6 DEF Pending, IInv, AdmittedFits
        <4> QED
          BY <4>1, <4>2, <4>3
      <3>3. P # {} => \E w \in P : usd[day][t] + est[w] + Slack(Cardinality(P)) <= Bound(cap)
        BY DEF IInv, OvershootInductive, PendingBounded
      <3> HIDE DEF P, Bound
      <3> QED
        BY <2>1, <2>4, <3>1, <3>2, <3>3
    <2> QED
      BY <2>5, <2>6
  <1>2. PendingBounded'
    BY <1>1 DEF PendingBounded, Caps
  <1>3. OvershootBounded'
    BY <1>1 DEF OvershootBounded, IInv, Caps
  <1> QED
    BY <1>2, <1>3

(* pre_check admits a caller: either its check is fresh, and leaves room   *)
(* for all the others, or it was pending already.                          *)
LEMMA AdmitKeepsBounds ==
  ASSUME IInv, NEW c \in Callers, Admit(c)
  PROVE  PendingBounded' /\ OvershootBounded'
  <1>1. ASSUME NEW t \in Tenants, NEW cap \in Caps(t), Pending(t, cap)' # {}
        PROVE  \E v \in Pending(t, cap)' :
                 usd[day][t] + est[v] + Slack(Cardinality(Pending(t, cap)'))
                   <= cap + Slack(Cardinality(Callers))
    <2> DEFINE P == Pending(t, cap)
               R == Pending(t, cap)'
    <2>1. R \in SUBSET Callers /\ (R = P \/ R = P \cup {c})
      BY DEF Pending, Admit
    <2>2. usd[day][t] \in Nat /\ est[c] \in Nat /\ cap \in Nat
      BY CapsAreNat DEF IInv, TypeOK
    <2>3. CASE R = P
      BY <1>1, <2>3 DEF IInv, OvershootInductive, PendingBounded
    <2>4. CASE R # P
      <3>1. tenant[c] = t /\ c \in R /\ c \notin P
        BY <2>1, <2>4 DEF Pending, Admit
      <3>2. usd[asked[c]][t] + est[c] <= cap
        BY <3>1 DEF Admit, Fits
      <3>3. asked[c] \in Day /\ asked[c] <= day /\ day \in Day
        BY DEF IInv, OvershootInductive, NothingFromTomorrow, TypeOK
      <3>4. usd[asked[c]][t] \in Nat
        BY <3>3 DEF IInv, TypeOK
      <3>5. est[c] <= cap
        BY <2>2, <3>2, <3>4
      <3>6. asked[c] = day
        BY <3>1, <3>3, <3>5 DEF Pending, Admit, Day
      <3>7. usd[day][t] + est[c] + Slack(Cardinality(R)) <= cap + Slack(Cardinality(Callers))
        <4>1. usd[day][t] + est[c] <= cap /\ R # {}
          BY <3>1, <3>2, <3>6
        <4> HIDE DEF R
        <4> QED
          BY <2>1, <2>2, <4>1, FreshCheck
      <3> QED
        BY <3>1, <3>7
    <2> QED
      BY <2>3, <2>4
  <1>2. day' = day /\ usd' = usd /\ est' = est /\ tenant' = tenant
    BY DEF Admit
  <1>3. PendingBounded'
    BY <1>1, <1>2 DEF PendingBounded, Caps
  <1>4. OvershootBounded'
    BY <1>2 DEF IInv, OvershootBounded, Caps
  <1> QED
    BY <1>3, <1>4

(* Midnight: the new key is empty, and whoever is still pending fits it.   *)
LEMMA NextDayKeepsBounds ==
  ASSUME IInv, TypeOK', NextDay
  PROVE  PendingBounded' /\ OvershootBounded'
  <1>1. /\ day' = day + 1 /\ usd' = usd /\ est' = est
        /\ day' \in Day /\ day \in Nat
    BY DEF NextDay, IInv, TypeOK, Day
  <1>2. ASSUME NEW t \in Tenants, NEW cap \in Caps(t), Pending(t, cap)' # {}
        PROVE  \E v \in Pending(t, cap)' :
                 usd[day'][t] + est[v] + Slack(Cardinality(Pending(t, cap)'))
                   <= cap + Slack(Cardinality(Callers))
    <2> DEFINE R == Pending(t, cap)'
    <2>1. PICK v \in R : TRUE
      BY <1>2
    <2>2. R \in SUBSET Callers /\ est[v] <= cap
      BY <1>1, <2>1 DEF Pending
    <2>3. usd[day'][t] = 0
      BY <1>1 DEF IInv, OvershootInductive, NothingFromTomorrow
    <2>4. est[v] \in Nat /\ cap \in Nat
      BY <2>1, <2>2, CapsAreNat DEF IInv, TypeOK
    <2>5. 0 + est[v] <= cap
      BY <2>2, <2>4
    <2> HIDE DEF R
    <2>6. 0 + est[v] + Slack(Cardinality(R)) <= cap + Slack(Cardinality(Callers))
      BY <2>1, <2>2, <2>4, <2>5, FreshCheck
    <2>7. usd[day'][t] + est[v] + Slack(Cardinality(R)) <= cap + Slack(Cardinality(Callers))
      BY <2>3, <2>6
    <2> QED
      BY <2>1, <2>7 DEF R
  <1>3. PendingBounded'
    BY <1>1, <1>2 DEF PendingBounded, Caps
  <1>4. OvershootBounded'
    BY <1>1 DEF IInv, OvershootBounded, Caps
  <1> QED
    BY <1>3, <1>4

(* The clock and the keys of the future. *)
LEMMA NextTomorrow ==
  ASSUME IInv, TypeOK', [Next]_vars
  PROVE  NothingFromTomorrow'
  <1> USE DEF NothingFromTomorrow
  <1>0. /\ \A d \in Day : d > day => usd[d] = [t \in Tenants |-> 0]
        /\ \A x \in Callers : asked[x] <= day
        /\ day \in Nat /\ day \in Day /\ \A x \in Callers : asked[x] \in Nat
    <2>1. NothingFromTomorrow
      BY DEF IInv, OvershootInductive
    <2>2. day \in Day /\ \A x \in Callers : asked[x] \in Day
      BY DEF IInv, TypeOK
    <2>3. Day \subseteq Nat
      BY DEF Day
    <2> QED
      BY <2>1, <2>2, <2>3
  <1>1. ASSUME day' = day, usd' = usd, \A x \in Callers : asked'[x] \in {asked[x], day}
        PROVE  NothingFromTomorrow'
    BY <1>0, <1>1
  <1>2. ASSUME NEW c \in Callers, NEW e \in Costs, NEW n \in Tokens, Request(c, e, n) \/ RefuseRequest(c, e, n)
        PROVE  NothingFromTomorrow'
    <2>1. \A x \in Callers : asked'[x] \in {asked[x], day}
      BY <1>2 DEF Request, TooLarge, RefuseRequest, Leave, IInv, TypeOK
    <2> QED
      BY <1>1, <1>2, <2>1 DEF Request, TooLarge, RefuseRequest
  <1>3. ASSUME NEW c \in Callers, Admit(c) \/ Refuse(c) \/ CheckLost(c)
        PROVE  NothingFromTomorrow'
    BY <1>1, <1>3 DEF Admit, Refuse, CheckLost, Leave
  <1>4. ASSUME NEW c \in Callers, NEW recorded \in {0, est[c]}, End(c, recorded)
        PROVE  NothingFromTomorrow'
    <2>1. day' = day /\ asked' = asked
      BY <1>4 DEF End, Leave
    <2>2. ASSUME NEW d \in Day, d > day PROVE usd'[d] = usd[d]
      BY <1>0, <1>4, <2>2 DEF End, IInv, TypeOK
    <2> QED
      BY <1>0, <2>1, <2>2
  <1>5. ASSUME NextDay PROVE NothingFromTomorrow'
    BY <1>0, <1>5 DEF NextDay, Day
  <1>6. CASE UNCHANGED vars
    BY <1>0, <1>6 DEF vars
  <1> QED
    BY <1>2, <1>3, <1>4, <1>5, <1>6 DEF Next, Record, ProviderFails, RecordLost

(* Admission: what pre_check refuses is never running. *)
LEMMA NextAdmittedFits ==
  ASSUME IInv, TypeOK', [Next]_vars
  PROVE  AdmittedFits'
  <1> USE DEF AdmittedFits, Busy, Caps
  <1>0. AdmittedFits /\ TypeOK
    BY DEF IInv
  <1>1. ASSUME NEW c \in Callers, NEW e \in Costs, NEW n \in Tokens, Request(c, e, n) PROVE AdmittedFits'
    BY <1>0, <1>1 DEF Request, TooLarge, TypeOK
  <1>2. ASSUME NEW c \in Callers, NEW to \in {"idle", "refused"}, Leave(c, to)
        PROVE  AdmittedFits'
    BY <1>0, <1>2 DEF Leave, TypeOK
  <1>3. ASSUME NEW c \in Callers, Admit(c) PROVE AdmittedFits'
    <2>1. ASSUME NEW cap \in Caps(tenant[c]) PROVE est[c] <= cap
      <3>1. usd[asked[c]][tenant[c]] + est[c] <= cap
        BY <1>3, <2>1 DEF Admit, Fits
      <3>2. usd[asked[c]][tenant[c]] \in Nat /\ est[c] \in Nat /\ cap \in Nat
        BY <1>0, <2>1, CapsAreNat DEF TypeOK
      <3> QED
        BY <3>1, <3>2
    <2>2. /\ st' = [st EXCEPT ![c] = "inflight"] /\ st[c] = "checking"
          /\ est' = est /\ tenant' = tenant
      BY <1>3 DEF Admit
    <2> QED
      BY <1>0, <2>1, <2>2 DEF TypeOK
  <1>4. CASE UNCHANGED <<st, est, tenant>>
    BY <1>0, <1>4
  <1> QED
    BY <1>1, <1>2, <1>3, <1>4
    DEF Next, RefuseRequest, Refuse, CheckLost, Record, ProviderFails, RecordLost, End,
        NextDay, vars

LEMMA NextIInv == IInv /\ [Next]_vars => IInv'
  <1> SUFFICES ASSUME IInv, [Next]_vars PROVE IInv'
    OBVIOUS
  <1>1. TypeOK' /\ TypeOK
    BY NextTypeOK DEF IInv
  <1>2. AdmittedFits' /\ NothingFromTomorrow'
    BY <1>1, NextAdmittedFits, NextTomorrow
  <1>3. PendingBounded' /\ OvershootBounded'
    <2>1. ASSUME NEW c \in Callers, NEW e \in Costs, NEW n \in Tokens, Request(c, e, n) \/ RefuseRequest(c, e, n)
          PROVE  PendingBounded' /\ OvershootBounded'
      <3>1. ASSUME NEW t \in Tenants, NEW cap \in Caps(t)
            PROVE  /\ Pending(t, cap)' = Pending(t, cap)
                   /\ \A x \in Pending(t, cap) : est'[x] = est[x]
        <4>1. c \notin Pending(t, cap) /\ c \notin Pending(t, cap)'
          <5>1. st[c] \notin {"inflight", "checking"}
            BY <2>1 DEF Request, TooLarge, RefuseRequest, Busy
          <5>2. \/ st'[c] = "checking" /\ asked'[c] = day /\ day' = day
                \/ st'[c] = "refused"
            BY <2>1, <1>1 DEF Request, TooLarge, RefuseRequest, Leave, TypeOK
          <5>3. ~(day < day)
            BY <1>1 DEF TypeOK, Day
          <5> QED
            BY <5>1, <5>2, <5>3 DEF Pending
        <4>2. \A x \in Callers \ {c} : st'[x] = st[x] /\ est'[x] = est[x] /\ asked'[x] = asked[x]
          BY <2>1, <1>1 DEF Request, TooLarge, RefuseRequest, Leave, TypeOK
        <4>3. tenant' = tenant /\ day' = day
          BY <2>1 DEF Request, TooLarge, RefuseRequest, Leave
        <4> QED
          BY <4>1, <4>2, <4>3 DEF Pending
      <3>2. day' = day /\ usd' = usd
        BY <2>1 DEF Request, TooLarge, RefuseRequest
      <3> QED
        BY <3>1, <3>2, PendingSame DEF IInv
    <2>2. ASSUME NEW c \in Callers, Admit(c)
          PROVE  PendingBounded' /\ OvershootBounded'
      BY <2>2, AdmitKeepsBounds
    <2>3. ASSUME NEW c \in Callers, Refuse(c) \/ CheckLost(c)
          PROVE  PendingBounded' /\ OvershootBounded'
      <3>1. /\ Leave(c, "refused") \/ Leave(c, "idle")
            /\ Busy(c) /\ day' = day /\ usd' = usd
        BY <2>3 DEF Refuse, CheckLost, Busy
      <3>2. /\ 0 \in 0 .. est[c]
            /\ \A d \in Day, t \in Tenants :
                 usd'[d][t] = IF d = day /\ t = tenant[c] THEN usd[d][t] + 0 ELSE usd[d][t]
        BY <1>1, <3>1 DEF TypeOK
      <3> QED
        BY <1>1, <3>1, <3>2, LeaveKeepsBounds
    <2>4. ASSUME NEW c \in Callers, NEW recorded \in {0, est[c]}, End(c, recorded)
          PROVE  PendingBounded' /\ OvershootBounded'
      <3>1. Leave(c, "idle") /\ Busy(c) /\ st[c] = "inflight" /\ day' = day
        BY <2>4 DEF End, Busy
      <3>2. /\ recorded \in 0 .. est[c]
            /\ \A d \in Day, t \in Tenants :
                 usd'[d][t] = IF d = day /\ t = tenant[c] THEN usd[d][t] + recorded ELSE usd[d][t]
        BY <1>1, <2>4 DEF End, TypeOK
      <3> QED
        BY <1>1, <3>1, <3>2, LeaveKeepsBounds
    <2>5. ASSUME NextDay PROVE PendingBounded' /\ OvershootBounded'
      BY <1>1, <2>5, NextDayKeepsBounds
    <2>6. CASE UNCHANGED vars
      BY <2>6 DEF vars, IInv, OvershootInductive, PendingBounded, OvershootBounded, Pending, Caps
    <2> QED
      BY <2>1, <2>2, <2>3, <2>4, <2>5, <2>6 DEF Next, Record, ProviderFails, RecordLost
  <1> QED
    BY <1>1, <1>2, <1>3 DEF IInv, OvershootInductive

-----------------------------------------------------------------------------
(* The invariant holds of every behaviour. *)
LEMMA Invariance == Spec => []IInv
  <1> QED
    BY InitIInv, NextIInv, PTL DEF Spec

(* Types. *)
THEOREM TypeCorrect == Spec => []TypeOK
  <1>1. IInv => TypeOK
    BY DEF IInv
  <1> QED
    BY <1>1, Invariance, PTL

(* pre_check is never passed by a request that a cap refuses outright.     *)
THEOREM Admission == Spec => []AdmittedFits
  <1>1. IInv => AdmittedFits
    BY DEF IInv
  <1> QED
    BY <1>1, Invariance, PTL

(* The race between pre_check and record costs at most one estimate for    *)
(* every caller but one, for any number of callers and days.               *)
THEOREM Overshoot == Spec => []OvershootBounded
  <1>1. IInv => OvershootBounded
    BY DEF IInv
  <1> QED
    BY <1>1, Invariance, PTL

(* A tenant's recorded spend stays under its caps if nothing runs          *)
(* concurrently: one caller alone cannot overshoot.                        *)
THEOREM SequentialCapsHold ==
  ASSUME Cardinality(Callers) = 1
  PROVE  Spec => []CapsHold
  <1>1. IInv => CapsHold
    <2>1. Slack(1) = 0
      BY DEF Slack
    <2>2. \A t \in Tenants : \A cap \in Caps(t) : cap + Slack(Cardinality(Callers)) = cap
      BY <2>1, CapsAreNat
    <2> QED
      BY <2>2 DEF IInv, OvershootBounded, CapsHold
  <1> QED
    BY <1>1, Invariance, PTL
=============================================================================
