------------------------------- MODULE Budget -------------------------------
(***************************************************************************)
(* tako-runtime's budget enforcement: BudgetTracker::pre_check and record  *)
(* over a BudgetBackend (budget.rs, budget_redis.rs), driven by concurrent *)
(* callers that each do pre_check; provider call; record.                  *)
(*                                                                         *)
(* pre_check and record are separate awaits, so any number of other        *)
(* callers act between them.  Inside pre_check the backend's key is        *)
(* computed first (Request) and read later (Admit / Refuse): with the      *)
(* Redis backend midnight UTC can pass in between.  What is left out:      *)
(* tokens_today, which is recorded and compared with nothing, and the      *)
(* key's TTL, which always outlives the day the key is read on.            *)
(***************************************************************************)
EXTENDS Integers, FiniteSets

CONSTANTS
  Callers,     \* the tasks that make provider calls, one call at a time each
  Tenants,     \* tenant_id values of their principals
  Costs,       \* what estimate_cost_usd may return, in indivisible units
  MaxCost,     \* the largest of them
  Tokens,      \* what the estimate of a request's tokens may be
  RequestCap,  \* Budget.max_usd_per_request, or NoCap
  TokenCap,    \* Budget.max_tokens_per_request, or NoCap
  DayCap,      \* Budget.max_usd_per_day, or NoCap
  Capped,      \* the keys of Budget.max_usd_per_tenant_per_day
  TenantCap,   \* its values
  NoCap,       \* an Option that is None
  KeyPerDay,   \* TRUE: RedisBudgetBackend; FALSE: InMemoryBudgetBackend
  Days         \* a bound: the number of days a behaviour spans

ASSUME CallersAssumption == IsFiniteSet(Callers) /\ Callers # {}
ASSUME CostsAssumption == MaxCost \in Nat /\ Costs \subseteq 0 .. MaxCost
ASSUME CapsAssumption ==
  /\ NoCap \notin Nat
  /\ RequestCap \in Nat \cup {NoCap}
  /\ Tokens \subseteq Nat /\ TokenCap \in Nat \cup {NoCap}
  /\ DayCap \in Nat \cup {NoCap}
  /\ Capped \subseteq Tenants
  /\ TenantCap \in [Capped -> Nat]
ASSUME DaysAssumption == Days \in Nat \ {0} /\ KeyPerDay \in BOOLEAN

VARIABLES
  day,     \* today
  usd,     \* usd[d][t]: usd_today under the key of tenant t and day d
  st,      \* st[c]: where caller c is
  tenant,  \* tenant[c]: the tenant of its principal, never reassigned
  est,     \* est[c]: the estimate of its request
  asked,   \* asked[c]: the day whose key its pre_check computed
  booked   \* whether the last answered call was booked at what it cost

vars == <<day, usd, st, tenant, est, asked, booked>>

Status == {"idle", "checking", "inflight", "refused"}
Day == 1 .. Days

(* The caps that apply to tenant t: both are compared with the usage of    *)
(* that one tenant.                                                        *)
Caps(t) ==
  ({DayCap} \cup (IF t \in Capped THEN {TenantCap[t]} ELSE {})) \ {NoCap}

Init ==
  /\ day = 1
  /\ usd = [d \in Day |-> [t \in Tenants |-> 0]]
  /\ st = [c \in Callers |-> "idle"]
  /\ tenant \in [Callers -> Tenants]
  /\ est = [c \in Callers |-> 0]
  /\ asked = [c \in Callers |-> 1]
  /\ booked = "exact"

Busy(c) == st[c] \in {"checking", "inflight"}

(* Caller c is back from its call, or was never let through. *)
Leave(c, to) ==
  /\ st' = [st EXCEPT ![c] = to]
  /\ est' = [est EXCEPT ![c] = 0]
  /\ UNCHANGED <<tenant, asked>>

-----------------------------------------------------------------------------
(* Mutant of Request: the per-request cap is forgotten. *)
Request_Uncapped(c, e, n) ==
  /\ ~Busy(c)
  /\ st' = [st EXCEPT ![c] = "checking"]
  /\ est' = [est EXCEPT ![c] = e]
  /\ asked' = [asked EXCEPT ![c] = day]
  /\ UNCHANGED <<day, usd, tenant, booked>>

TooLarge(e, n) ==
  \/ RequestCap # NoCap /\ e > RequestCap
  \/ TokenCap # NoCap /\ n > TokenCap

(* pre_check, before the await: the per-request caps, then the day's key.  *)
Request(c, e, n) ==
  /\ ~Busy(c)
  /\ ~TooLarge(e, n)
  /\ st' = [st EXCEPT ![c] = "checking"]
  /\ est' = [est EXCEPT ![c] = e]
  /\ asked' = [asked EXCEPT ![c] = day]
  /\ UNCHANGED <<day, usd, tenant, booked>>

(* An estimate is over its per-request cap: refused without a read.        *)
RefuseRequest(c, e, n) ==
  /\ ~Busy(c)
  /\ TooLarge(e, n)
  /\ Leave(c, "refused")
  /\ UNCHANGED <<day, usd, booked>>

(* Mutants of Fits: the estimate is left out of the comparison; the key is *)
(* computed once and kept.                                                 *)
Fits_WithoutEstimate(c) ==
  \A cap \in Caps(tenant[c]) : usd[asked[c]][tenant[c]] < cap

Fits(c) ==
  \A cap \in Caps(tenant[c]) :
    usd[asked[c]][tenant[c]] + est[c] <= cap

(* pre_check, after the await: the usage just read leaves room.            *)
Admit(c) ==
  /\ st[c] = "checking"
  /\ Fits(c)
  /\ st' = [st EXCEPT ![c] = "inflight"]
  /\ UNCHANGED <<day, usd, tenant, est, asked, booked>>

(* BudgetExhausted.                                                        *)
Refuse(c) ==
  /\ st[c] = "checking"
  /\ ~Fits(c)
  /\ Leave(c, "refused")
  /\ UNCHANGED <<day, usd, booked>>

(* HGETALL fails: pre_check returns the transport error.                   *)
CheckLost(c) ==
  /\ KeyPerDay
  /\ st[c] = "checking"
  /\ Leave(c, "idle")
  /\ UNCHANGED <<day, usd, booked>>

-----------------------------------------------------------------------------
(* The call of c ends; `recorded` reaches the backend, under the key of    *)
(* the day it is now.                                                      *)
End(c, recorded) ==
  /\ st[c] = "inflight"
  /\ usd' = [usd EXCEPT ![day][tenant[c]] = @ + recorded]
  /\ Leave(c, "idle")
  /\ UNCHANGED day

(* The provider answered, and its usage says the call cost `charged`.      *)
(* Every orchestrator passes record the estimate it gave pre_check. Redis  *)
(* computes the key before the script runs; a midnight between the two,    *)
(* which books the call under the day that is just over, is left out.      *)
Record(c, charged) ==
  /\ End(c, est[c])
  /\ booked' = IF est[c] = charged THEN "exact" ELSE "inexact"

(* Mutant of ProviderFails: the estimate is refunded, as if pre_check had  *)
(* reserved it.                                                            *)

(* The provider failed, timed out, or its stream was dropped: the caller   *)
(* leaves through `?` or an early return and record is never called.       *)
ProviderFails(c) == End(c, 0) /\ UNCHANGED booked

(* Redis: the script did not run, or ran and its reply was lost.           *)
RecordLost(c) ==
  /\ KeyPerDay
  /\ End(c, 0) \/ End(c, est[c])
  /\ UNCHANGED booked

(* Midnight UTC.  Only the Redis key depends on the day.                   *)
NextDay ==
  /\ KeyPerDay
  /\ day < Days
  /\ day' = day + 1
  /\ UNCHANGED <<usd, st, tenant, est, asked, booked>>

Next ==
  \/ \E c \in Callers, e \in Costs, n \in Tokens :
       Request(c, e, n) \/ RefuseRequest(c, e, n)
  \/ \E c \in Callers :
       Admit(c) \/ Refuse(c) \/ CheckLost(c) \/ ProviderFails(c) \/ RecordLost(c)
  \/ \E c \in Callers, charged \in Costs : Record(c, charged)
  \/ NextDay

Spec == Init /\ [][Next]_vars

-----------------------------------------------------------------------------
(* No request with a larger estimate passes the per-request cap. *)
Largest ==
  IF RequestCap # NoCap /\ RequestCap < MaxCost THEN RequestCap ELSE MaxCost

(* Every variable has its type; spend is never negative.                   *)
TypeOK ==
  /\ day \in Day
  /\ usd \in [Day -> [Tenants -> Nat]]
  /\ st \in [Callers -> Status]
  /\ tenant \in [Callers -> Tenants]
  /\ est \in [Callers -> 0 .. Largest]
  /\ asked \in [Callers -> Day]
  /\ booked \in {"exact", "inexact"}

(* One estimate for each of n callers but one.                             *)
Slack(n) == Largest * (n - 1)

(* What the check-then-act race in pre_check / record can cost: however    *)
(* the callers interleave and whenever midnight passes, a tenant's         *)
(* recorded spend on a day exceeds none of its caps by more than one       *)
(* estimate for every caller but one.  A single caller never exceeds them. *)
OvershootBounded ==
  \A d \in Day, t \in Tenants : \A cap \in Caps(t) :
    usd[d][t] <= cap + Slack(Cardinality(Callers))

(* pre_check lets no request past a cap its estimate alone exceeds: the    *)
(* per-request cap before the backend is read, the daily caps after.       *)
AdmittedFits ==
  \A c \in Callers :
    /\ Busy(c) /\ RequestCap # NoCap => est[c] <= RequestCap
    /\ st[c] = "inflight" => \A cap \in Caps(tenant[c]) : est[c] <= cap

(* The calls of tenant t that can still be recorded under today's key on   *)
(* the strength of a check that is not, or no longer, against that key's   *)
(* present value: the running ones, and the ones whose check computed its  *)
(* key before midnight.  Those that cap will refuse do not count.          *)
Pending(t, cap) ==
  {c \in Callers : /\ tenant[c] = t
                   /\ est[c] <= cap
                   /\ \/ st[c] = "inflight"
                      \/ st[c] = "checking" /\ asked[c] < day}

(* Why OvershootBounded holds: while calls are pending there   *)
(* is one of them such that recording it, and Largest for every other,     *)
(* stays within the bound.                                                 *)
PendingBounded ==
  \A t \in Tenants : \A cap \in Caps(t) : Pending(t, cap) # {} =>
    \E c \in Pending(t, cap) :
      usd[day][t] + est[c] + Slack(Cardinality(Pending(t, cap)))
        <= cap + Slack(Cardinality(Callers))

NothingFromTomorrow ==
  /\ \A d \in Day : d > day => usd[d] = [t \in Tenants |-> 0]
  /\ \A c \in Callers : asked[c] <= day

OvershootInductive == PendingBounded /\ NothingFromTomorrow

-----------------------------------------------------------------------------
(* budgets.md:19, "BudgetExhausted propagates when the reconciled cost     *)
(* would push the day's spend over max_usd_per_day": no tenant's recorded  *)
(* spend exceeds a cap that applies to it.  True of one caller only.       *)
CapsHold ==
  \A d \in Day, t \in Tenants : \A cap \in Caps(t) : usd[d][t] <= cap

(* budget.rs:8, "Reconcile after the provider returns, using actual usage":*)
(* what is recorded is what the provider charged.                          *)
RecordedIsCharged == booked = "exact"
=============================================================================
