---------------------------- MODULE CompatProofs ----------------------------
(* The server of tako-compat: its chain of resolvers (AuthChain) and its handler     *)
(* over nested SelfCallers (Serve). For any number of calls, any chain of resolvers  *)
(* with any policies, any keys, intervals, lifetimes and timeouts: nobody is admitted *)
(* on anything older than the caches may be, nobody whose token is good is refused     *)
(* without a fault, an outage is told where it halts the chain, and what the builder   *)
(* makes works. For any depths and guards: a request runs no more often than the caps   *)
(* allow, and its response has one end.                                                  *)
EXTENDS AuthChain, Serve, FiniteSetTheorems, SequenceTheorems, WellFoundedInduction, TLAPS

-----------------------------------------------------------------------------
(* The invariant.                                                                     *)

Times == Nat \cup {Never}
CallRecord ==
  [pc : {"idle", "lock"} \cup Local \cup Timed \cup Reading \cup Over, token : Tokens, child : Nat, force : BOOLEAN,
   sent : 0 .. 2, retried : BOOLEAN, asked : Nat, got : 0 .. 2, took : Nat, keys : SUBSET Key, since : Times,
   err : {None, "transport", "limited", "invalid"}, good : BOOLEAN, fault : BOOLEAN, outage : Nat]

Resolver == [ok : BOOLEAN, endpoint : BOOLEAN, methods : SUBSET Listable,
             cfg : {NoConfig} \cup IntrospectionConfig, hook : BOOLEAN]
(* The resolver, while it is built and while it serves: its mTLS client has an identity    *)
(* that was issued and the roots it was told, and a method that was negotiated works.         *)
Fits(r) ==
  /\ r \in Resolver
  /\ MtlsConfigured(r) => r.cfg.client.id \in 1 .. issued /\ r.cfg.client.roots = r.cfg.roots
Listens(r) ==
  Has(r.cfg, r.cfg.method) /\ r.cfg.method \in (IF r.methods = Unlisted THEN {"client_secret_basic"} ELSE r.methods)
Builder ==
  /\ issued \in 1 .. 2 /\ Fits(oidc)
  /\ setup \in [phase : {"new", "building", "broken", "serving"}, negotiated : BOOLEAN]
  /\ setup.negotiated => Listens(oidc)

(* What is withdrawn was published, and what is published is not withdrawn.              *)
Facts ==
  /\ now \in Nat /\ chain \in Chains /\ revoked \subseteq Kid
  /\ published \in [Kid -> 1 .. MaxGen] /\ retired \in [Key -> Times]
  /\ \A key \in Key : retired[key] <= now /\ (published[key[1]] <= key[2] => retired[key] = Never)
  /\ entry \in 0 .. 2 /\ gone \in [1 .. 2 -> Times]
  /\ \A v \in 1 .. 2 : gone[v] <= now /\ (entry \in {1, v} => gone[v] = Never)

(* What a cache holds was true when, or as long before as it was under way, it arrived.     *)
Cached ==
  /\ lock \in Call \cup {None}
  /\ jwks \in [keys : SUBSET Key, at : Times] /\ jwks.at <= now
  /\ \A key \in jwks.keys : retired[key] = Never \/ jwks.at - retired[key] <= Timeout
  /\ principals \in [version : 0 .. 2, at : Times, took : Nat] /\ principals.at <= now
  /\ principals.at # Never =>
       /\ principals.version \in 1 .. 2
       /\ gone[principals.version] = Never \/ principals.at - gone[principals.version] <= principals.took
  /\ lease \in [since : Times, at : Times] /\ lease.at <= now
  /\ lease.at # Never => lease.at - lease.since <= Timeout
  /\ IsFiniteSet(clients) /\ Cardinality(clients) <= ClientLimit

(* A call, by itself.                                                                        *)
OidcSteps == {"jwks", "lock", "get", "got", "introspect"}
VaultSteps == {"vault", "lease", "client", "login", "loggedIn", "read", "found"}
Under(r) ==  \* the call is with the child that its step belongs to
  /\ r.pc # "idle" => setup.phase = "serving"
  /\ r.pc \notin {"idle", "refused"} => r.child \in DOMAIN chain.children
  /\ r.pc = "refused" /\ chain.children # <<>> => r.child \in DOMAIN chain.children
  /\ r.pc \in OidcSteps => chain.children[r.child].kind = "oidc"
  /\ r.pc \in VaultSteps => chain.children[r.child].kind = "vault"
  /\ r.pc = "idle" => r.child = 1 /\ r.outage = 0 /\ ~r.fault
  /\ r.pc \notin OidcSteps \cup Over => ~r.force /\ ~r.retried
  /\ r.pc = "jwks" => ~r.force
  /\ r.pc \in OidcSteps \ {"introspect"} => ~r.retried

Timely(r) ==  \* requests end within their timeout, of those that have one
  /\ r.asked <= now
  /\ r.pc \in Timed => now - r.asked <= Timeout

Keys(r) ==  \* what it asks or accepts with was published when it asked, or shortly before
  /\ r.pc = "got" => \A key \in r.keys : retired[key] = Never \/ retired[key] >= r.asked
  /\ r.pc = "introspect" =>
       /\ r.token.kind = "jwt" /\ HasPrincipal(r.token.claims)
       /\ ~r.retried /\ retired[r.token.key] # Never =>
            \/ r.asked - retired[r.token.key] < Interval + Timeout
            \/ r.asked - retired[r.token.key] <= Timeout

Secrets(r) ==  \* the Vault token it reads with, and the entry it reads
  /\ r.pc = "loggedIn" => r.since >= r.asked
  /\ r.pc = "client" => (now - r.since - Timeout) * 10 <= Lease * 9
  /\ r.pc \in {"read", "found"} => (r.asked - r.since - Timeout) * 10 <= Lease * 9
  /\ r.pc = "found" => r.got \in 1 .. 2 /\ (gone[r.got] = Never \/ gone[r.got] >= r.asked)
  /\ r.pc = "accepted" /\ r.token.kind = "vaulted" /\ chain.children[r.child].kind = "vault" =>
       /\ r.got \in 1 .. 2
       /\ \/ gone[r.got] = Never
          \/ r.asked - gone[r.got] < TTL + r.took \/ r.asked - gone[r.got] <= r.took

Identity(r) ==  \* the mTLS identity it was sent with, and was repeated with
  r.pc = "introspect" /\ ~r.fault /\ MtlsConfigured(oidc) =>
    r.sent \in 1 .. issued /\ (r.retried => r.sent = 2 /\ issued = 2)

Reader(kind) == CASE kind = "jwt" -> "oidc" [] kind = "vaulted" -> "vault" [] OTHER -> "static"
Passed(r, n) == n < r.child \/ r.pc = "refused"
Cause(r) ==  \* no child that reads the token was passed while it was good, but for a fault
  /\ r.good => Valid(r.token, published, revoked, entry)
  /\ r.pc = "got" /\ r.good /\ r.token.kind = "jwt" => r.token.key \in r.keys
  /\ r.good /\ ~r.fault /\ r.pc \notin {"idle", "accepted"} =>
       \A n \in DOMAIN chain.children : Passed(r, n) => chain.children[n].kind # Reader(r.token.kind)

Listed(r) ==
  r.token.kind = "listed" /\ r.pc \notin {"idle", "accepted"} =>
    \/ \A n \in DOMAIN chain.children : Passed(r, n) => chain.children[n].kind # "static"
    \/ r.pc = "refused" /\ r.child \in DOMAIN chain.children /\ Halts(chain.children[r.child])

Outage(r) ==
  /\ r.outage \in {0} \cup DOMAIN chain.children
  /\ r.outage # 0 /\ Halts(chain.children[r.outage]) =>
       r.pc = "refused" /\ r.child = r.outage /\ r.err = "transport"

CallOK(r) == Under(r) /\ Timely(r) /\ Keys(r) /\ Secrets(r) /\ Identity(r) /\ Cause(r) /\ Listed(r) /\ Outage(r)

Inv ==
  /\ Builder /\ Facts /\ Cached /\ now <= MaxTime
  /\ call \in [Call -> CallRecord]
  /\ \A c \in Call : call[c].pc \in {"get", "got"} <=> lock = c
  /\ \A c \in Call : CallOK(call[c])

-----------------------------------------------------------------------------
(* The builder.                                                                              *)

LEMMA Constants ==
  /\ MaxGen \in Nat \ {0} /\ MaxTime \in Nat /\ Interval \in Nat /\ TTL \in Nat /\ Timeout \in Nat
  /\ Lease \in Nat \ {0} /\ ClientLimit \in Nat \ {0} /\ None \notin Call
  /\ Chains \subseteq [wide : {"none", "transport", "infrastructure"}, children : Seq(Children)]
  /\ Docs \subseteq [answered : BOOLEAN, sameIssuer : BOOLEAN, endpoint : BOOLEAN, methods : SUBSET Listable]
  BY ChainAssumption DEF ChainAssumption

LEMMA ConfiguredIs ==
  ASSUME NEW r \in Resolver
  PROVE  /\ Configured(r) <=> r.cfg \in IntrospectionConfig
         /\ ~Configured(r) => r.cfg = NoConfig
  <1>1. NoConfig \notin IntrospectionConfig
    BY DEF NoConfig, IntrospectionConfig, Method, Mtls
  <1> QED
    BY <1>1 DEF Configured, Resolver

LEMMA BrokenFits == Fits(Broken) /\ ~Broken.ok /\ ~Configured(Broken)
  <1>1. Unlisted \in SUBSET Listable
    BY DEF Unlisted, Listable
  <1>2. Broken \in Resolver
    BY <1>1 DEF Broken, Resolver
  <1>3. ~Broken.ok /\ Broken.cfg = NoConfig
    BY DEF Broken
  <1> QED
    BY <1>2, <1>3 DEF Fits, Configured, MtlsConfigured

LEMMA AttachedFits ==
  ASSUME NEW r, Fits(r), NEW s \in BOOLEAN
  PROVE  /\ Fits(Attached(r, s))
         /\ Attached(r, s).methods = r.methods /\ Attached(r, s).cfg.method = "client_secret_basic"
  <1> DEFINE a == Attached(r, s)
  <1>1. r \in Resolver
    BY DEF Fits
  <1>2. [method |-> "client_secret_basic", secret |-> s, key |-> FALSE, client |-> NoClient, roots |-> FALSE]
          \in IntrospectionConfig
    BY DEF IntrospectionConfig, Method, NoClient
  <1>3. /\ a \in Resolver /\ a.methods = r.methods
        /\ a.cfg = [method |-> "client_secret_basic", secret |-> s, key |-> FALSE, client |-> NoClient, roots |-> FALSE]
    BY <1>1, <1>2 DEF Attached, Resolver
  <1>4. ~MtlsConfigured(a)
    BY <1>3 DEF MtlsConfigured
  <1> HIDE DEF a
  <1>5. a.cfg.method = "client_secret_basic"
    BY <1>3
  <1>6. Fits(a)
    BY <1>3, <1>4 DEF Fits
  <1> QED
    BY <1>3, <1>5, <1>6 DEF a

LEMMA FitsMore ==  \* calls that change a configuration which is there
  ASSUME NEW r, Fits(r), issued \in 1 .. 2, Configured(r), NEW q, NEW cfg \in IntrospectionConfig,
         q = [r EXCEPT !.cfg = cfg],
         \/ cfg.client = r.cfg.client /\ cfg.roots = r.cfg.roots
         \/ cfg.client.id \in 1 .. issued /\ cfg.client.roots = cfg.roots
  PROVE  Fits(q) /\ q.methods = r.methods /\ q.cfg = cfg
  <1>1. r \in Resolver
    BY DEF Fits
  <1>2. q \in Resolver /\ q.methods = r.methods /\ q.cfg = cfg
    BY <1>1 DEF Resolver
  <1>3. ASSUME MtlsConfigured(q) PROVE q.cfg.client.id \in 1 .. issued /\ q.cfg.client.roots = q.cfg.roots
    <2>1. CASE cfg.client = r.cfg.client /\ cfg.roots = r.cfg.roots
      <3>1. MtlsConfigured(r)
        BY <1>2, <1>3, <2>1 DEF MtlsConfigured
      <3> QED
        BY <1>2, <2>1, <3>1 DEF Fits
    <2> QED
      BY <1>2, <2>1
  <1> QED
    BY <1>2, <1>3 DEF Fits

(* A call of the builder gives a resolver that fits, and one with the method of before can   *)
(* still use it.                                                                                *)
Keeps(r, q) ==
  Fits(q) /\ (q.ok /\ Configured(r) /\ q.cfg.method = r.cfg.method /\ Listens(r) => Listens(q))

LEMMA CallsFit ==
  ASSUME NEW r, Fits(r), issued \in 1 .. 2, NEW q \in Calls(r)
  PROVE  Keeps(r, q)
  <1>1. r \in Resolver
    BY DEF Fits
  <1>2. CASE q = Broken
    BY <1>2, BrokenFits DEF Keeps
  <1>3. CASE q = r
    BY <1>3 DEF Keeps
  <1>4. CASE q = WithHook(r)
    <2>1. q \in Resolver /\ q.cfg = r.cfg /\ q.methods = r.methods
      BY <1>1, <1>4 DEF WithHook, Resolver
    <2> QED
      BY <2>1 DEF Keeps, Fits, Listens, MtlsConfigured, Configured
  <1>5. ASSUME NEW s \in BOOLEAN, q = Attached(r, s) PROVE Keeps(r, q)
    <2>1. Fits(q) /\ q.methods = r.methods /\ q.cfg.method = "client_secret_basic"
      BY <1>5, AttachedFits
    <2>2. Has(q.cfg, "client_secret_basic")
      BY DEF Has, Mtls
    <2> QED
      BY <2>1, <2>2 DEF Keeps, Listens
  <1>6. ASSUME Configured(r), NEW cfg \in IntrospectionConfig, q = [r EXCEPT !.cfg = cfg],
               \/ cfg.client = r.cfg.client /\ cfg.roots = r.cfg.roots
               \/ cfg.client.id \in 1 .. issued /\ cfg.client.roots = cfg.roots,
               cfg.method = r.cfg.method /\ Has(r.cfg, cfg.method) => Has(cfg, cfg.method)
        PROVE  Keeps(r, q)
    <2>1. Fits(q) /\ q.methods = r.methods /\ q.cfg = cfg
      BY <1>6, FitsMore
    <2> QED
      BY <1>6, <2>1 DEF Keeps, Listens
  <1> DEFINE g == r.cfg
  <1>7. ASSUME Configured(r)
        PROVE  /\ g \in IntrospectionConfig
               /\ r = [r EXCEPT !.cfg = g]
    BY <1>1, <1>7, ConfiguredIs DEF Resolver
  <1>8. CASE q = WithPrivateKey(r) /\ Configured(r)
    <2>1. q = [r EXCEPT !.cfg = [g EXCEPT !.key = TRUE]]
      BY <1>8, <1>1 DEF WithPrivateKey, Resolver
    <2>2. /\ [g EXCEPT !.key = TRUE] \in IntrospectionConfig
          /\ [g EXCEPT !.key = TRUE].method = g.method /\ [g EXCEPT !.key = TRUE].client = g.client
          /\ [g EXCEPT !.key = TRUE].roots = g.roots /\ [g EXCEPT !.key = TRUE].secret = g.secret
          /\ [g EXCEPT !.key = TRUE].key
      BY <1>7, <1>8 DEF IntrospectionConfig
    <2>3. ASSUME NEW m, Has(g, m) PROVE Has([g EXCEPT !.key = TRUE], m)
      BY <2>2, <2>3 DEF Has
    <2> QED
      BY <1>6, <1>8, <2>1, <2>2, <2>3
  <1>9. CASE Configured(r) /\ q = [r EXCEPT !.cfg.key = TRUE, !.cfg.method = "private_key_jwt"]
    <2> DEFINE cfg == [g EXCEPT !.key = TRUE, !.method = "private_key_jwt"]
    <2>1. q = [r EXCEPT !.cfg = cfg]
      BY <1>9, <1>1 DEF Resolver
    <2>2. /\ cfg \in IntrospectionConfig /\ cfg.client = g.client /\ cfg.roots = g.roots
          /\ cfg.key /\ cfg.method = "private_key_jwt"
      BY <1>7, <1>9 DEF IntrospectionConfig, Method
    <2> HIDE DEF cfg
    <2>3. Has(cfg, cfg.method)
      BY <2>2 DEF Has, Mtls
    <2> QED
      BY <1>6, <1>9, <2>1, <2>2, <2>3
  <1>10. ASSUME Configured(r), NEW m \in Method, q = [r EXCEPT !.cfg.method = m] PROVE Keeps(r, q)
    <2> DEFINE cfg == [g EXCEPT !.method = m]
    <2>1. q = [r EXCEPT !.cfg = cfg]
      BY <1>10, <1>1 DEF Resolver
    <2>2. /\ cfg \in IntrospectionConfig /\ cfg.client = g.client /\ cfg.roots = g.roots
          /\ cfg.key = g.key /\ cfg.secret = g.secret
      BY <1>7, <1>10 DEF IntrospectionConfig
    <2> HIDE DEF cfg
    <2>3. ASSUME NEW n, Has(g, n) PROVE Has(cfg, n)
      BY <2>2, <2>3 DEF Has
    <2> QED
      BY <1>6, <1>10, <2>1, <2>2, <2>3
  <1>11. ASSUME Configured(r), NEW m \in Mtls, NEW b \in BOOLEAN,
                q = [r EXCEPT !.cfg.method = m, !.cfg.client = ClientOf(1, b), !.cfg.roots = b]
         PROVE  Keeps(r, q)
    <2> DEFINE one == ClientOf(1, b)
    <2>1. one \in [id : 0 .. 2, roots : BOOLEAN] /\ one.id = 1 /\ one.roots = b /\ one # NoClient
      BY DEF ClientOf, NoClient
    <2> HIDE DEF one
    <2> DEFINE cfg == [g EXCEPT !.method = m, !.client = one, !.roots = b]
    <2>5. q = [r EXCEPT !.cfg = cfg]
      BY <1>11, <1>1 DEF Resolver, one
    <2>6. m \in Method
      BY <1>11 DEF Method
    <2>2. cfg \in IntrospectionConfig /\ cfg.method = m /\ cfg.client = one /\ cfg.roots = b
      BY <1>7, <1>11, <2>1, <2>6 DEF IntrospectionConfig
    <2> HIDE DEF cfg
    <2>3. Has(cfg, cfg.method)
      BY <1>11, <2>1, <2>2 DEF Has, Mtls
    <2>4. cfg.client.id \in 1 .. issued /\ cfg.client.roots = cfg.roots
      BY <2>1, <2>2
    <2> QED
      BY <1>6, <1>11, <2>5, <2>2, <2>3, <2>4
  <1>12. CASE q = WithHook(r) \/ q = WithPrivateKey(r)
    BY <1>3, <1>4, <1>8, <1>12 DEF WithPrivateKey
  <1>13. CASE \E p \in BOOLEAN : q = WithJwtPem(r, p)
    BY <1>2, <1>3, <1>9, <1>13 DEF WithJwtPem
  <1>14. CASE \E s \in BOOLEAN : q = WithIntrospection(r, s) \/ q = WithIntrospectionUri(r, s)
    BY <1>2, <1>5, <1>14 DEF WithIntrospection, WithIntrospectionUri
  <1>15. CASE \E m \in Method : q = WithAuthMethod(r, m)
    BY <1>3, <1>10, <1>15 DEF WithAuthMethod
  <1>16. CASE \E m \in Mtls, b \in BOOLEAN, p \in BOOLEAN : q = WithMtls(r, m, 1, b, p)
    BY <1>2, <1>3, <1>11, <1>16 DEF WithMtls
  <1> QED
    BY <1>12, <1>13, <1>14, <1>15, <1>16 DEF Calls

LEMMA LeastOf ==
  ASSUME NEW S \in SUBSET (1 .. 6), S # {}
  PROVE  Min(S) \in S
  <1>1. \E i \in S : \A j \in S : i <= j
    <2>1. S \subseteq {1, 2, 3, 4, 5, 6}
      OBVIOUS
    <2> SUFFICES ASSUME \A i \in S : \E j \in S : ~(i <= j) PROVE FALSE
      OBVIOUS
    <2>2. 1 \notin S
      BY <2>1
    <2>3. 2 \notin S
      BY <2>1, <2>2
    <2>4. 3 \notin S
      BY <2>1, <2>2, <2>3
    <2>5. 4 \notin S
      BY <2>1, <2>2, <2>3, <2>4
    <2>6. 5 \notin S
      BY <2>1, <2>2, <2>3, <2>4, <2>5
    <2>7. 6 \notin S
      BY <2>1, <2>2, <2>3, <2>4, <2>5, <2>6
    <2>8. PICK i \in S : TRUE
      OBVIOUS
    <2> QED
      BY <2>1, <2>2, <2>3, <2>4, <2>5, <2>6, <2>7, <2>8
  <1> QED
    BY <1>1 DEF Min

LEMMA NegotiationFits ==
  ASSUME NEW r, Fits(r), issued \in 1 .. 2
  PROVE  LET q == WithMethodFromDiscovery(r) IN Fits(q) /\ (Configured(q) => Listens(q))
  <1> DEFINE q == WithMethodFromDiscovery(r)
             usable == {i \in DOMAIN Preference : Preference[i] \in r.methods /\ Has(r.cfg, Preference[i])}
  <1>0. /\ DOMAIN Preference = 1 .. 6
        /\ \A i \in 1 .. 6 : Preference[i] \in Method
    BY DEF Preference, Method, Mtls
  <1>1. CASE ~Configured(r)
    BY <1>1 DEF WithMethodFromDiscovery
  <1>2. CASE Configured(r)
    <2>1. r \in Resolver /\ r.cfg \in IntrospectionConfig
      BY <1>2, ConfiguredIs DEF Fits
    <2>2. ASSUME NEW m \in Method, Has(r.cfg, m), q = [r EXCEPT !.cfg.method = m],
                 m \in (IF r.methods = Unlisted THEN {"client_secret_basic"} ELSE r.methods)
          PROVE  Fits(q) /\ Listens(q)
      <3> DEFINE cfg == [r.cfg EXCEPT !.method = m]
      <3> HIDE DEF q
      <3>1. q = [r EXCEPT !.cfg = cfg]
        BY <2>1, <2>2 DEF Resolver
      <3>2. /\ cfg \in IntrospectionConfig /\ cfg.client = r.cfg.client /\ cfg.roots = r.cfg.roots
            /\ cfg.key = r.cfg.key /\ cfg.secret = r.cfg.secret /\ cfg.method = m
        BY <2>1, <2>2 DEF IntrospectionConfig
      <3> HIDE DEF cfg
      <3>3. Has(cfg, m)
        BY <2>2, <3>2 DEF Has
      <3>4. Fits(q) /\ q.methods = r.methods /\ q.cfg = cfg
        BY <1>2, <3>1, <3>2, FitsMore
      <3> QED
        BY <2>2, <3>2, <3>3, <3>4 DEF Listens
    <2>3. CASE r.methods = Unlisted
      <3>1. "client_secret_basic" \in Method
        BY DEF Method
      <3>2. Has(r.cfg, "client_secret_basic")
        BY DEF Has, Mtls
      <3> QED
        BY <1>2, <2>2, <2>3, <3>1, <3>2 DEF WithMethodFromDiscovery
    <2>4. CASE r.methods # Unlisted /\ usable = {}
      BY <1>2, <2>4, BrokenFits DEF WithMethodFromDiscovery
    <2>5. CASE r.methods # Unlisted /\ usable # {}
      <3>1. usable \in SUBSET (1 .. 6)
        BY <1>0
      <3>2. Min(usable) \in usable
        BY <2>5, <3>1, LeastOf
      <3>3. /\ Preference[Min(usable)] \in Method /\ Has(r.cfg, Preference[Min(usable)])
            /\ Preference[Min(usable)] \in r.methods
        BY <1>0, <3>2
      <3>4. q = [r EXCEPT !.cfg.method = Preference[Min(usable)]]
        BY <1>2, <2>5 DEF WithMethodFromDiscovery
      <3> QED
        BY <2>2, <2>5, <3>3, <3>4
    <2> QED
      BY <2>3, <2>4, <2>5
  <1> QED
    BY <1>1, <1>2

(* A reload changes which identity is in use, and nothing else.                               *)
LEMMA ReloadFits ==
  ASSUME NEW r, Fits(r), issued \in 1 .. 2, NEW worked \in BOOLEAN
  PROVE  LET q == Reload(r, issued, worked)
         IN  /\ Fits(q) /\ (Listens(r) => Listens(q))
             /\ MtlsConfigured(q) <=> MtlsConfigured(r)
             /\ MtlsConfigured(r) /\ worked => q.cfg.client.id = issued
  <1> DEFINE q == Reload(r, issued, worked)
  <1>1. CASE ~(MtlsConfigured(r) /\ worked)
    BY <1>1 DEF Reload
  <1>2. CASE MtlsConfigured(r) /\ worked
    <2>1. Configured(r) /\ r \in Resolver /\ r.cfg \in IntrospectionConfig
      BY <1>2, ConfiguredIs DEF Fits, MtlsConfigured
    <2> DEFINE new == ClientOf(issued, r.cfg.roots)
    <2>2. new \in [id : 0 .. 2, roots : BOOLEAN] /\ new.id = issued /\ new.roots = r.cfg.roots /\ new # NoClient
      BY <2>1 DEF ClientOf, NoClient, IntrospectionConfig
    <2> HIDE DEF new
    <2> DEFINE cfg == [r.cfg EXCEPT !.client = new]
    <2>3. q = [r EXCEPT !.cfg = cfg]
      BY <1>2, <2>1 DEF Resolver, Reload, new
    <2>4. /\ cfg \in IntrospectionConfig /\ cfg.client = new /\ cfg.roots = r.cfg.roots
          /\ cfg.key = r.cfg.key /\ cfg.secret = r.cfg.secret /\ cfg.method = r.cfg.method
      BY <2>1, <2>2 DEF IntrospectionConfig
    <2> HIDE DEF cfg, q
    <2>5. Fits(q) /\ q.methods = r.methods /\ q.cfg = cfg
      BY <2>1, <2>2, <2>3, <2>4, FitsMore
    <2>6. ASSUME NEW m, Has(r.cfg, m) PROVE Has(cfg, m)
      BY <2>2, <2>4, <2>6 DEF Has
    <2>7. Configured(q) /\ MtlsConfigured(q)
      BY <2>2, <2>4, <2>5, ConfiguredIs DEF Fits, MtlsConfigured
    <2>8. Fits(q) /\ (Listens(r) => Listens(q)) /\ q.cfg.client.id = issued
      BY <2>2, <2>4, <2>5, <2>6 DEF Listens
    <2> QED
      BY <1>2, <2>7, <2>8 DEF q
  <1> QED
    BY <1>1, <1>2

LEMMA InitBuilder == Init => Builder
  <1> SUFFICES ASSUME Init PROVE Builder
    OBVIOUS
  <1>1. issued = 1 /\ oidc = Broken /\ setup \in [phase : {"new", "building", "broken", "serving"}, negotiated : BOOLEAN]
        /\ setup.negotiated = FALSE
    BY DEF Init
  <1> QED
    BY <1>1, BrokenFits DEF Builder, Fits

LEMMA NextBuilder ==
  ASSUME Builder, chain \in Chains, Discovery \/ Configure \/ Negotiate \/ Serve \/ ReloadIdentity
  PROVE  Builder'
  <1> USE DEF Builder
  <1>1. ASSUME NEW q, Fits(q), NEW b \in BOOLEAN, b => Listens(q), Becomes(q, b) PROVE Builder'
    <2>1. oidc' = q /\ issued' = issued /\ setup' = [phase |-> IF q.ok THEN "building" ELSE "broken", negotiated |-> b]
      BY <1>1 DEF Becomes
    <2>2. setup' \in [phase : {"new", "building", "broken", "serving"}, negotiated : BOOLEAN]
          /\ setup'.negotiated = b
      BY <1>1, <2>1
    <2>3. Fits(oidc)'
      BY <1>1, <2>1 DEF Fits
    <2>4. b => Listens(oidc)'
      BY <1>1, <2>1 DEF Listens
    <2> QED
      BY <2>1, <2>2, <2>3, <2>4
  <1>2. CASE Discovery
    <2>1. PICK doc \in Docs, p \in BOOLEAN : Becomes(Discover(doc, p), FALSE)
      BY <1>2 DEF Discovery
    <2>2. CASE Discover(doc, p) = Broken
      BY <1>1, <2>1, <2>2, BrokenFits
    <2>3. CASE Discover(doc, p) = [ok |-> TRUE, endpoint |-> doc.endpoint, methods |-> doc.methods, cfg |-> NoConfig, hook |-> FALSE]
      <3>1. doc.endpoint \in BOOLEAN /\ doc.methods \in SUBSET Listable
        BY Constants
      <3>2. Discover(doc, p) \in Resolver /\ Discover(doc, p).cfg = NoConfig
        BY <2>3, <3>1 DEF Resolver
      <3> QED
        BY <1>1, <2>1, <3>2 DEF Fits, MtlsConfigured, Configured
    <2> QED
      BY <2>2, <2>3 DEF Discover
  <1>3. CASE Configure
    <2>1. PICK q \in Calls(oidc) : Becomes(q, setup.negotiated /\ SameMethod(q))
      BY <1>3 DEF Configure
    <2>2. Keeps(oidc, q)
      BY CallsFit
    <2>3. setup.negotiated /\ SameMethod(q) => Listens(q)
      BY <2>2 DEF Keeps, SameMethod
    <2>4. PICK b \in BOOLEAN : b = (setup.negotiated /\ SameMethod(q))
      OBVIOUS
    <2> QED
      BY <1>1, <2>1, <2>2, <2>3, <2>4 DEF Keeps
  <1>4. CASE Negotiate
    <2> DEFINE q == WithMethodFromDiscovery(oidc)
    <2>1. Becomes(q, Configured(q))
      BY <1>4 DEF Negotiate
    <2>2. Fits(q) /\ (Configured(q) => Listens(q))
      BY NegotiationFits
    <2> HIDE DEF q
    <2>3. PICK b \in BOOLEAN : b = Configured(q)
      BY DEF Configured
    <2> QED
      BY <1>1, <2>1, <2>2, <2>3
  <1>5. CASE Serve
    <2>1. /\ UNCHANGED <<oidc, issued>> /\ setup' = [phase |-> "serving", negotiated |-> FALSE]
      BY <1>5 DEF Serve
    <2> QED
      BY <2>1 DEF Fits
  <1>6. CASE ReloadIdentity
    <2>1. oidc' = Reload(oidc, issued, TRUE) /\ UNCHANGED <<issued, setup>>
      BY <1>6 DEF ReloadIdentity
    <2>2. Fits(oidc') /\ (Listens(oidc) => Listens(oidc'))
      BY <2>1, ReloadFits
    <2>3. Fits(oidc)' /\ (Listens(oidc) => Listens(oidc)')
      BY <2>1, <2>2 DEF Fits, Listens
    <2> QED
      BY <2>1, <2>3
  <1> QED
    BY <1>2, <1>3, <1>4, <1>5, <1>6


-----------------------------------------------------------------------------
(* Steps of a call, in general.                                                                *)

LEMMA ChainIs ==
  ASSUME chain \in Chains
  PROVE  /\ chain.children \in Seq(Children) /\ Len(chain.children) \in Nat
         /\ DOMAIN chain.children = 1 .. Len(chain.children)
         /\ \A n \in 1 .. Len(chain.children) : chain.children[n] \in Children
         /\ chain.wide \in {"none", "transport", "infrastructure"}
  <1>1. chain.children \in Seq(Children) /\ chain.wide \in {"none", "transport", "infrastructure"}
    BY Constants
  <1> QED
    BY <1>1, LenProperties, ElementOfSeq

LEMMA Halting ==
  ASSUME chain \in Chains, NEW child \in Children
  PROVE  /\ ~ShortCircuits(child, "invalid")
         /\ \A e : ShortCircuits(child, e) => Halts(child)
         /\ ShortCircuits(child, "transport") <=> Halts(child)
  <1>1. chain.wide \in {"none", "transport", "infrastructure"}
    BY ChainIs
  <1>2. child.policy \in {"inherit", "always", "transport", "infrastructure"}
    BY DEF Children
  <1> DEFINE policy == IF child.policy = "inherit" THEN chain.wide ELSE child.policy
  <1>3. policy \in {"none", "always", "transport", "infrastructure"}
    BY <1>1, <1>2
  <1>4. Halts(child) <=> policy \in {"transport", "infrastructure"}
    BY <1>3 DEF Halts
  <1>5. CASE policy \in {"none", "always"}
    <2>1. \A e : ~ShortCircuits(child, e)
      BY <1>5 DEF ShortCircuits
    <2> QED
      BY <1>4, <1>5, <2>1
  <1>6. CASE policy = "transport"
    <2>1. \A e : ShortCircuits(child, e) <=> e = "transport"
      BY <1>6 DEF ShortCircuits
    <2> QED
      BY <1>4, <1>6, <2>1
  <1>7. CASE policy = "infrastructure"
    <2>1. \A e : ShortCircuits(child, e) <=> e \in {"transport", "limited"}
      BY <1>7 DEF ShortCircuits
    <2> QED
      BY <1>4, <1>7, <2>1
  <1> QED
    BY <1>3, <1>5, <1>6, <1>7

(* What a failure leaves of a call.                                                            *)
After(r, e, faulty, f) ==
  /\ f \in CallRecord
  /\ f.token = r.token /\ f.good = r.good /\ f.asked = r.asked
  /\ f.err = e /\ f.force = FALSE /\ f.retried = FALSE
  /\ f.fault <=> (r.fault \/ faulty)
  /\ f.outage = IF e = "transport" THEN r.child ELSE r.outage
  /\ f.pc \in {"try", "refused"}
  /\ IF ShortCircuits(chain.children[r.child], e) \/ r.child = Len(chain.children)
     THEN f.pc = "refused" /\ f.child = r.child
     ELSE f.pc = "try" /\ f.child = r.child + 1

LEMMA FailedFields ==
  ASSUME NEW c \in Call, call[c] \in CallRecord, NEW e \in {"transport", "limited", "invalid"},
         NEW faulty \in BOOLEAN, NEW f \in {Failed(c, e, faulty), [Failed(c, e, faulty) EXCEPT !.keys = {}]}
  PROVE  After(call[c], e, faulty, f)
  <1> DEFINE b == call[c].fault \/ faulty
             o == IF e = "transport" THEN call[c].child ELSE call[c].outage
  <1>5. b \in BOOLEAN
    OBVIOUS
  <1>6. o \in Nat
    BY DEF CallRecord
  <1> HIDE DEF b, o
  <1> DEFINE r == [call[c] EXCEPT !.err = e, !.force = FALSE, !.sent = 0, !.retried = FALSE, !.fault = b, !.outage = o]
  <1>7. r \in CallRecord
    <2> DEFINE p == [call[c] EXCEPT !.err = e, !.force = FALSE, !.sent = 0]
    <2>4. e \in {None, "transport", "limited", "invalid"} /\ 0 \in 0 .. 2 /\ FALSE \in BOOLEAN
      OBVIOUS
    <2>1. p \in CallRecord
      BY <2>4 DEF CallRecord
    <2>2. r = [p EXCEPT !.retried = FALSE, !.fault = b, !.outage = o]
      BY DEF CallRecord
    <2> HIDE DEF p
    <2>3. [p EXCEPT !.retried = FALSE, !.fault = b, !.outage = o] \in CallRecord
      BY <1>5, <1>6, <2>1 DEF CallRecord
    <2> QED
      BY ONLY <2>2, <2>3
  <1>8. /\ r.token = call[c].token /\ r.good = call[c].good /\ r.asked = call[c].asked /\ r.child = call[c].child
        /\ r.err = e /\ r.outage = o /\ r.fault = b
    BY DEF CallRecord
  <1>9. r.force = FALSE /\ r.retried = FALSE
    BY DEF CallRecord
  <1>1. /\ r \in CallRecord
        /\ r.token = call[c].token /\ r.good = call[c].good /\ r.asked = call[c].asked /\ r.child = call[c].child
        /\ r.err = e /\ r.force = FALSE /\ r.retried = FALSE /\ r.outage = o /\ r.fault = b
    BY ONLY <1>7, <1>8, <1>9
  <1> HIDE DEF r
  <1>3. CASE ShortCircuits(Child(c), e) \/ call[c].child = Len(chain.children)
    <2> DEFINE g == [r EXCEPT !.pc = "refused"]
    <2>1. Failed(c, e, faulty) = g
      BY <1>1, <1>3 DEF Failed, r, b, o
    <2>2. /\ g \in CallRecord /\ [g EXCEPT !.keys = {}] \in CallRecord
          /\ \A q \in {g, [g EXCEPT !.keys = {}]} :
               /\ q.token = r.token /\ q.good = r.good /\ q.asked = r.asked /\ q.child = r.child
               /\ q.err = r.err /\ q.force = r.force /\ q.retried = r.retried
               /\ q.outage = r.outage /\ q.fault = r.fault /\ q.pc = "refused"
      BY <1>1 DEF CallRecord, Over
    <2> HIDE DEF g
    <2>3. f \in {g, [g EXCEPT !.keys = {}]}
      BY <2>1
    <2> QED
      BY <1>1, <1>3, <2>2, <2>3 DEF b, o, After, Child
  <1>4. CASE ~(ShortCircuits(Child(c), e) \/ call[c].child = Len(chain.children))
    <2>4. r.child + 1 \in Nat
      BY <1>1 DEF CallRecord
    <2> DEFINE g == [r EXCEPT !.pc = "try", !.child = @ + 1]
    <2>1. Failed(c, e, faulty) = g
      BY <1>1, <1>4 DEF Failed, r, b, o
    <2>2. /\ g \in CallRecord /\ [g EXCEPT !.keys = {}] \in CallRecord
          /\ \A q \in {g, [g EXCEPT !.keys = {}]} :
               /\ q.token = r.token /\ q.good = r.good /\ q.asked = r.asked /\ q.child = r.child + 1
               /\ q.err = r.err /\ q.force = r.force /\ q.retried = r.retried
               /\ q.outage = r.outage /\ q.fault = r.fault /\ q.pc = "try"
      BY <1>1, <2>4 DEF CallRecord, Local
    <2> HIDE DEF g
    <2>3. f \in {g, [g EXCEPT !.keys = {}]}
      BY <2>1
    <2> QED
      BY <1>1, <1>4, <2>2, <2>3 DEF b, o, After, Child
  <1> QED
    BY <1>3, <1>4


Steady == UNCHANGED <<now, published, retired, entry, gone, revoked, issued, chain>>

(* A child fails: the call goes on to the next or is refused.                                  *)
LEMMA Rejected ==
  ASSUME Builder, Facts, NEW c \in Call, call[c] \in CallRecord, CallOK(call[c]),
         NEW e \in {"transport", "limited", "invalid"}, NEW faulty \in BOOLEAN,
         call[c].pc \notin {"idle"} \cup Over,
         NEW f, call'[c] = f, f = Failed(c, e, faulty) \/ f = [Failed(c, e, faulty) EXCEPT !.keys = {}],
         Steady, UNCHANGED setup,
         call[c].good /\ ~call[c].fault /\ ~faulty => e = "invalid" /\ Child(c).kind # Reader(call[c].token.kind),
         call[c].token.kind = "listed" => Child(c).kind # "static"
  PROVE  f \in CallRecord /\ CallOK(call[c])' /\ f.pc \in {"try", "refused"}
  <1>0. After(call[c], e, faulty, f)
    BY FailedFields
  <1> USE DEF Steady
  <1> DEFINE r == call[c]
             ch == chain.children
             stop == ShortCircuits(Child(c), e) \/ r.child = Len(ch)
  <1>1. /\ f \in CallRecord
        /\ f.token = r.token /\ f.good = r.good /\ f.asked = r.asked
        /\ f.err = e /\ f.force = FALSE /\ f.retried = FALSE
        /\ f.fault <=> (r.fault \/ faulty)
        /\ f.outage = IF e = "transport" THEN r.child ELSE r.outage
        /\ IF stop THEN f.pc = "refused" /\ f.child = r.child ELSE f.pc = "try" /\ f.child = r.child + 1
    BY <1>0 DEF After, Child
  <1>2. /\ Len(ch) \in Nat /\ DOMAIN ch = 1 .. Len(ch)
        /\ \A n \in 1 .. Len(ch) : ch[n] \in Children
    BY ChainIs DEF Facts
  <1>3. r.child \in DOMAIN ch /\ Child(c) = ch[r.child] /\ setup.phase = "serving"
    BY DEF CallOK, Under, Child, Over
  <1>4. /\ ~ShortCircuits(Child(c), "invalid")
        /\ ShortCircuits(Child(c), e) => Halts(Child(c))
        /\ ShortCircuits(Child(c), "transport") <=> Halts(Child(c))
    BY <1>2, <1>3, Halting DEF Facts
  <1>5. f.pc \in {"try", "refused"} /\ (f.pc = "try" => ~stop /\ f.child = r.child + 1)
        /\ (f.pc = "refused" => stop /\ f.child = r.child)
    BY <1>1
  <1>6. f.child \in DOMAIN ch
    BY <1>1, <1>2, <1>3, <1>5 DEF CallRecord
  <1> HIDE DEF stop
  <1>7. Under(call[c])' /\ Timely(call[c])' /\ Keys(call[c])' /\ Secrets(call[c])' /\ Identity(call[c])'
    <2>1. Under(call[c])'
      BY <1>1, <1>3, <1>5, <1>6 DEF Under, OidcSteps, VaultSteps, Over
    <2>2. Timely(call[c])'
      BY <1>1, <1>5 DEF Timely, CallOK, Timed, Reading
    <2>3. Keys(call[c])' /\ Secrets(call[c])' /\ Identity(call[c])'
      BY <1>5 DEF Keys, Secrets, Identity
    <2> QED
      BY <2>1, <2>2, <2>3
  <1>8. \A n \in DOMAIN ch : (n < f.child \/ f.pc = "refused") => n < r.child \/ n = r.child \/ ShortCircuits(Child(c), e)
    BY <1>2, <1>3, <1>5, <1>6 DEF stop
  <1>9. Cause(call[c])'
    <2>1. f.good => Valid(r.token, published, revoked, entry)
      BY <1>1 DEF CallOK, Cause
    <2>2. ASSUME f.good, ~f.fault, NEW n \in DOMAIN ch, n < f.child \/ f.pc = "refused"
          PROVE  ch[n].kind # Reader(r.token.kind)
      <3>1. r.good /\ ~r.fault /\ ~faulty
        BY <1>1, <2>2
      <3>2. e = "invalid" /\ Child(c).kind # Reader(r.token.kind)
        BY <3>1
      <3>3. n < r.child \/ n = r.child
        BY <1>4, <1>8, <2>2, <3>2
      <3>4. n < r.child => ch[n].kind # Reader(r.token.kind)
        BY <3>1, <2>2 DEF CallOK, Cause, Passed, Over
      <3> QED
        BY <1>3, <3>2, <3>3, <3>4
    <2> QED
      BY <1>1, <1>5, <2>1, <2>2 DEF Cause, Passed
  <1>10. Listed(call[c])'
    <2>1. r.token.kind = "listed" => \A n \in DOMAIN ch : n < r.child => ch[n].kind # "static"
      BY DEF CallOK, Listed, Passed, Over
    <2>2. CASE ShortCircuits(Child(c), e)
      <3>1. f.pc = "refused" /\ f.child \in DOMAIN ch /\ Halts(ch[f.child])
        BY <1>1, <1>3, <1>4, <1>5, <1>6, <2>2 DEF stop
      <3> QED
        BY <3>1 DEF Listed, Halts
    <2>3. CASE ~ShortCircuits(Child(c), e)
      <3>1. r.token.kind = "listed" => \A n \in DOMAIN ch : (n < f.child \/ f.pc = "refused") => ch[n].kind # "static"
        BY <1>3, <1>8, <2>1, <2>3
      <3> QED
        BY <1>1, <3>1 DEF Listed, Passed
    <2> QED
      BY <2>2, <2>3
  <1>11. Outage(call[c])'
    <2> SUFFICES ASSUME f.outage # 0, Halts(ch[f.outage])
                 PROVE  f.pc = "refused" /\ f.child = f.outage /\ f.err = "transport"
      <3>1. f.outage \in {0} \cup DOMAIN ch
        BY <1>1, <1>3 DEF CallOK, Outage
      <3> QED
        BY <3>1 DEF Outage, Halts
    <2>1. CASE e = "transport"
      BY <1>1, <1>3, <1>4, <1>5, <2>1 DEF stop
    <2>2. CASE e # "transport"
      BY <1>1, <2>2 DEF CallOK, Outage, Over
    <2> QED
      BY <2>1, <2>2
  <1> QED
    BY <1>1, <1>5, <1>7, <1>9, <1>10, <1>11 DEF CallOK

(* A call goes on with the same child, or is accepted.                                           *)
LEMMA Onward ==
  ASSUME NEW c \in Call, CallOK(call[c]), call[c].pc \notin {"idle"} \cup Over,
         NEW f, call'[c] = f, f.pc \notin {"idle", "refused"},
         f.token = call[c].token, f.child = call[c].child, f.good = call[c].good, f.outage = call[c].outage,
         ~f.fault => ~call[c].fault,
         f.pc = "got" /\ f.good /\ f.token.kind = "jwt" => f.token.key \in f.keys,
         Steady
  PROVE  Cause(call[c])' /\ Listed(call[c])' /\ Outage(call[c])'
  <1> USE DEF Steady
  <1>1. Cause(call[c])'
    BY DEF CallOK, Cause, Passed, Over
  <1>2. Listed(call[c])'
    BY DEF CallOK, Listed, Passed, Over
  <1>3. Outage(call[c])'
    BY DEF CallOK, Outage, Over, Halts
  <1> QED
    BY <1>1, <1>2, <1>3


(* A step of one call keeps the invariant if it does for that call, the lock and the caches.   *)
LEMMA Compose ==
  ASSUME Inv, NEW c \in Call, NEW f \in CallRecord, call' = [call EXCEPT ![c] = f], Steady,
         UNCHANGED oidc \/ (Builder' /\ (MtlsConfigured(oidc)' <=> MtlsConfigured(oidc))), UNCHANGED setup,
         f.pc \in {"get", "got"} <=> lock' = c,
         \A d \in Call \ {c} : lock' = d <=> lock = d,
         Cached', CallOK(call[c])'
  PROVE  Inv'
  <1> USE DEF Steady
  <1>1. Builder' /\ (MtlsConfigured(oidc)' <=> MtlsConfigured(oidc))
    BY DEF Inv, Builder, Fits, Listens, MtlsConfigured, Configured
  <1>2. Facts'
    BY DEF Inv, Facts
  <1>3. call' \in [Call -> CallRecord] /\ call'[c] = f /\ \A d \in Call \ {c} : call'[d] = call[d]
    BY DEF Inv
  <1>4. \A d \in Call : call'[d].pc \in {"get", "got"} <=> lock' = d
    BY <1>3 DEF Inv
  <1>5. ASSUME NEW d \in Call \ {c} PROVE CallOK(call[d])'
    <2>1. CallOK(call[d]) /\ call'[d] = call[d]
      BY <1>3 DEF Inv
    <2>2. Under(call[d])' /\ Timely(call[d])'
      BY <2>1 DEF CallOK, Under, Timely
    <2>3. Keys(call[d])' /\ Secrets(call[d])'
      BY <2>1 DEF CallOK, Keys, Secrets
    <2>4. Identity(call[d])'
      BY <1>1, <2>1 DEF CallOK, Identity
    <2>5. Cause(call[d])'
      BY <2>1 DEF CallOK, Cause, Passed
    <2>6. Listed(call[d])' /\ Outage(call[d])'
      BY <2>1 DEF CallOK, Listed, Passed, Outage, Halts
    <2> QED
      BY <2>2, <2>3, <2>4, <2>5, <2>6 DEF CallOK
  <1> QED
    BY <1>1, <1>2, <1>3, <1>4, <1>5 DEF Inv

(* While the facts stand still, what the caches hold stays right.                                *)
LEMMA CachedStill ==
  ASSUME Cached, UNCHANGED <<now, retired, gone, caches>>
  PROVE  Cached'
  BY DEF Cached, caches

(* This call does not hold the lock now, and it did not take it from another.                     *)
Releases(c) == lock' # c /\ \A d \in Call \ {c} : lock' = d <=> lock = d

LEMMA KeepsLock ==
  ASSUME Inv, NEW c \in Call, UNCHANGED lock, call[c].pc \notin {"get", "got"}
  PROVE  Releases(c)
  BY DEF Releases, Inv

LEMMA FailureKeeps ==
  ASSUME Inv, NEW c \in Call, NEW e \in {"transport", "limited", "invalid"}, NEW faulty \in BOOLEAN,
         call[c].pc \notin {"idle"} \cup Over,
         call[c].good /\ ~call[c].fault /\ ~faulty => e = "invalid" /\ Child(c).kind # Reader(call[c].token.kind),
         call[c].token.kind = "listed" => Child(c).kind # "static",
         NEW f \in {Failed(c, e, faulty), [Failed(c, e, faulty) EXCEPT !.keys = {}]},
         call' = [call EXCEPT ![c] = f], Steady, UNCHANGED built, Cached', Releases(c)
  PROVE  Inv'
  <1>1. call[c] \in CallRecord /\ CallOK(call[c]) /\ call'[c] = f /\ Builder /\ Facts
    BY DEF Inv
  <1>2. f \in CallRecord /\ CallOK(call[c])' /\ f.pc \in {"try", "refused"}
    BY <1>1, Rejected DEF built
  <1> QED
    BY <1>2, Compose DEF built, Releases

(* A call goes on with the child it is with, or is accepted.                                         *)
LEMMA GoesOn ==
  ASSUME Inv, NEW c \in Call, call[c].pc \notin {"idle"} \cup Over, NEW f \in CallRecord,
         call' = [call EXCEPT ![c] = f], Steady, UNCHANGED built, Cached',
         f.pc \notin {"idle", "refused"}, f.pc \in {"get", "got"} <=> lock' = c,
         \A d \in Call \ {c} : lock' = d <=> lock = d,
         f.token = call[c].token, f.child = call[c].child, f.good = call[c].good, f.outage = call[c].outage,
         ~f.fault => ~call[c].fault,
         f.pc = "got" /\ f.good /\ f.token.kind = "jwt" => f.token.key \in f.keys,
         Under(call[c])', Timely(call[c])', Keys(call[c])', Secrets(call[c])', Identity(call[c])'
  PROVE  Inv'
  <1>1. call[c] \in CallRecord /\ CallOK(call[c]) /\ call'[c] = f
    BY DEF Inv
  <1>2. CallOK(call[c])'
    BY <1>1, Onward DEF CallOK
  <1> QED
    BY <1>2, Compose DEF built

LEMMA GoesIs ==
  ASSUME Inv, NEW c \in Call
  PROVE  /\ \A pc : Goes(c, pc) => call' = [call EXCEPT ![c] = [call[c] EXCEPT !.pc = pc]]
         /\ \A pc : Sends(c, pc) => call' = [call EXCEPT ![c] = [call[c] EXCEPT !.pc = pc, !.asked = now]]
  BY DEF Goes, Sends, Inv, CallRecord

LEMMA BeginKeeps ==
  ASSUME Inv, NEW c \in Call, Begin(c)
  PROVE  Inv'
  <1>1. /\ call[c].pc = "idle" /\ setup.phase = "serving" /\ Steady /\ UNCHANGED <<built, caches>>
        /\ call[c] \in CallRecord /\ CallOK(call[c])
    BY DEF Begin, world, Steady, Inv
  <1>2. PICK t \in Tokens :
           call' = [call EXCEPT ![c].token = t, ![c].good = Valid(t, published, revoked, entry),
                                ![c].pc = IF chain.children = <<>> THEN "refused" ELSE "try",
                                ![c].err = IF chain.children = <<>> THEN "invalid" ELSE None]
    BY DEF Begin
  <1>3. PICK b \in BOOLEAN : b = Valid(t, published, revoked, entry)
    BY DEF Valid, HasPrincipal
  <1> DEFINE pc == IF chain.children = <<>> THEN "refused" ELSE "try"
             e == IF chain.children = <<>> THEN "invalid" ELSE None
  <1>4. PICK f : f = [call[c] EXCEPT !.token = t, !.good = b, !.pc = pc, !.err = e]
    OBVIOUS
  <1>5. call' = [call EXCEPT ![c] = f]
    BY <1>1, <1>2, <1>3, <1>4 DEF Inv, CallRecord
  <1>6. /\ pc \in {"try", "refused"} /\ e \in {None, "invalid"}
        /\ (pc = "refused" => chain.children = <<>>) /\ (pc = "try" => chain.children # <<>>)
    OBVIOUS
  <1> HIDE DEF pc, e
  <1>7. pc \in {"idle", "lock"} \cup Local \cup Timed \cup Reading \cup Over /\ e \in {None, "transport", "limited", "invalid"}
    BY <1>6 DEF Local, Over
  <1>8. f \in CallRecord
    BY <1>1, <1>4, <1>7 DEF CallRecord
  <1>9. /\ f.token = t /\ f.good = b /\ f.pc = pc /\ f.child = 1 /\ f.outage = 0
        /\ f.asked = call[c].asked /\ ~f.force /\ ~f.retried
    BY <1>1, <1>4 DEF CallRecord, CallOK, Under, OidcSteps, Over
  <1>10. call'[c] = f
    BY <1>5 DEF Inv
  <1>11. /\ Len(chain.children) \in Nat /\ DOMAIN chain.children = 1 .. Len(chain.children)
         /\ (chain.children = <<>> <=> Len(chain.children) = 0)
    BY ChainIs, EmptySeq DEF Inv, Facts
  <1>12. Under(call[c])'
    BY <1>1, <1>6, <1>9, <1>10, <1>11 DEF Under, OidcSteps, VaultSteps, built, Over, Steady
  <1>13. Timely(call[c])'
    BY <1>1, <1>6, <1>9, <1>10 DEF CallOK, Timely, Timed, Reading, Steady
  <1>14. Keys(call[c])' /\ Secrets(call[c])' /\ Identity(call[c])'
    BY <1>6, <1>9, <1>10 DEF Keys, Secrets, Identity
  <1>15. \A n \in DOMAIN chain.children : ~(n < f.child \/ f.pc = "refused")
    BY <1>6, <1>9, <1>11
  <1>16. Cause(call[c])' /\ Listed(call[c])' /\ Outage(call[c])'
    <2>1. f.good => Valid(f.token, published, revoked, entry)
      BY <1>3, <1>9
    <2>2. Cause(call[c])'
      BY <1>1, <1>6, <1>9, <1>10, <1>15, <2>1 DEF Cause, Passed, Steady
    <2>3. Listed(call[c])' /\ Outage(call[c])'
      BY <1>1, <1>9, <1>10, <1>15 DEF Listed, Passed, Outage, Steady
    <2> QED
      BY <2>2, <2>3
  <1>17. Cached'
    BY <1>1, CachedStill DEF Inv, Steady
  <1>18. f.pc \in {"get", "got"} <=> lock' = c
    BY <1>1, <1>6, <1>9 DEF Inv, caches
  <1>19. \A d \in Call \ {c} : lock' = d <=> lock = d
    BY <1>1 DEF caches
  <1> QED
    BY <1>1, <1>5, <1>8, <1>12, <1>13, <1>14, <1>16, <1>17, <1>18, <1>19, Compose DEF CallOK, built


(* What is known of a call that is under way.                                                       *)
LEMMA UnderWay ==
  ASSUME Inv, NEW c \in Call, call[c].pc \notin {"idle"} \cup Over
  PROVE  /\ call[c] \in CallRecord /\ CallOK(call[c]) /\ setup.phase = "serving"
         /\ call[c].child \in DOMAIN chain.children /\ Child(c) = chain.children[call[c].child] /\ Child(c) \in Children
         /\ call[c].pc \in OidcSteps => Child(c).kind = "oidc"
         /\ call[c].pc \in VaultSteps => Child(c).kind = "vault"
  <1>1. call[c] \in CallRecord /\ CallOK(call[c]) /\ Under(call[c]) /\ Child(c) = chain.children[call[c].child]
    BY DEF Inv, CallOK, Child
  <1>2. call[c].child \in DOMAIN chain.children /\ setup.phase = "serving"
    BY <1>1 DEF Under, Over
  <1>3. Child(c) \in Children
    BY <1>1, <1>2, ChainIs DEF Inv, Facts
  <1> QED
    BY <1>1, <1>2, <1>3 DEF Under

LEMMA ReaderIs ==
  ASSUME NEW t \in Tokens
  PROVE  /\ t.kind \in {"jwt", "vaulted", "listed"}
         /\ t.kind = "jwt" => Reader(t.kind) = "oidc" /\ t.key \in Key /\ t.claims \in Claims
         /\ t.kind = "vaulted" => Reader(t.kind) = "vault"
         /\ t.kind = "listed" => Reader(t.kind) = "static"
  BY DEF Tokens, Reader

(* A step that changes only where the call is.                                                       *)
LEMMA Moves ==
  ASSUME Inv, NEW c \in Call, call[c].pc \notin {"idle", "introspect"} \cup Over,
         NEW pc \in {"jwks", "vault", "lease", "lock", "accepted"}, Goes(c, pc),
         lock # c, Steady, UNCHANGED <<built, caches>>,
         pc \in {"jwks", "lock"} => Child(c).kind = "oidc" /\ (pc = "jwks" => ~call[c].force),
         pc \in {"vault", "lease"} => Child(c).kind = "vault",
         pc # "accepted" => ~call[c].retried,
         pc \in {"vault", "lease"} => ~call[c].force,
         pc = "accepted" => Child(c).kind # "vault"
  PROVE  Inv'
  <1> DEFINE f == [call[c] EXCEPT !.pc = pc]
  <1>1. call' = [call EXCEPT ![c] = f]
    BY GoesIs
  <1>2. /\ call[c] \in CallRecord /\ CallOK(call[c]) /\ setup.phase = "serving"
        /\ call[c].child \in DOMAIN chain.children /\ Child(c) = chain.children[call[c].child]
    BY UnderWay
  <1>3. pc \in {"idle", "lock"} \cup Local \cup Timed \cup Reading \cup Over
    BY DEF Local, Over
  <1>4. /\ f \in CallRecord /\ f.pc = pc /\ f.token = call[c].token /\ f.child = call[c].child /\ f.good = call[c].good
        /\ f.outage = call[c].outage /\ f.fault = call[c].fault /\ f.asked = call[c].asked
        /\ f.force = call[c].force /\ f.retried = call[c].retried
    BY <1>2, <1>3 DEF CallRecord
  <1> HIDE DEF f
  <1>5. call'[c] = f
    BY <1>1 DEF Inv
  <1>6. Under(call[c])'
    BY <1>2, <1>4, <1>5 DEF Under, OidcSteps, VaultSteps, Over, Steady, built
  <1>7. Timely(call[c])' /\ Keys(call[c])' /\ Identity(call[c])'
    BY <1>2, <1>4, <1>5 DEF CallOK, Timely, Timed, Reading, Keys, Identity, Steady
  <1>8. Secrets(call[c])'
    BY <1>2, <1>4, <1>5 DEF Secrets, Steady
  <1>9. Cached' /\ UNCHANGED lock
    BY CachedStill DEF Inv, Steady, caches
  <1> QED
    BY <1>1, <1>2, <1>4, <1>6, <1>7, <1>8, <1>9, GoesOn

LEMMA TryKeeps ==
  ASSUME Inv, NEW c \in Call, Try(c)
  PROVE  Inv'
  <1>1. call[c].pc = "try" /\ Steady /\ UNCHANGED <<built, caches>> /\ lock # c
    BY DEF Try, world, Steady, Inv
  <1>2. call[c].pc \notin {"idle", "introspect"} \cup Over
    BY <1>1 DEF Over
  <1>3. /\ Child(c) \in Children /\ ~call[c].force /\ ~call[c].retried /\ call[c].token \in Tokens
    BY <1>1, <1>2, UnderWay DEF CallOK, Under, OidcSteps, Over, CallRecord
  <1>4. ASSUME NEW e \in {"transport", "limited", "invalid"}, NEW faulty \in BOOLEAN, Fails(c, e, faulty),
               call[c].good /\ ~call[c].fault /\ ~faulty => e = "invalid" /\ Child(c).kind # Reader(call[c].token.kind),
               call[c].token.kind = "listed" => Child(c).kind # "static"
        PROVE  Inv'
    <2>1. call' = [call EXCEPT ![c] = Failed(c, e, faulty)]
      BY <1>4 DEF Fails
    <2>2. Cached' /\ Releases(c)
      BY <1>1, CachedStill, KeepsLock DEF caches, Inv, Steady
    <2> QED
      BY <1>1, <1>2, <1>4, <2>1, <2>2, FailureKeeps
  <1>5. CASE Child(c).kind = "oidc"
    <2>1. Goes(c, "jwks")
      BY <1>5 DEF Try
    <2> QED
      BY <1>1, <1>2, <1>3, <1>5, <2>1, Moves
  <1>6. CASE Child(c).kind = "vault"
    <2>1. Goes(c, "vault")
      BY <1>6 DEF Try
    <2> QED
      BY <1>1, <1>2, <1>3, <1>6, <2>1, Moves
  <1>7. CASE Child(c).kind = "fixed"
    <2>1. Goes(c, "accepted") \/ Fails(c, "invalid", FALSE)
      BY <1>7 DEF Try
    <2>2. CASE Goes(c, "accepted")
      BY <1>1, <1>2, <1>3, <1>7, <2>2, Moves
    <2>3. CASE Fails(c, "invalid", FALSE)
      BY <1>3, <1>4, <1>7, <2>3, ReaderIs
    <2> QED
      BY <2>1, <2>2, <2>3
  <1>8. CASE Child(c).kind = "static"
    <2>1. Goes(c, "accepted") \/ (call[c].token.kind # "listed" /\ Fails(c, "invalid", FALSE))
      BY <1>8 DEF Try
    <2>2. CASE Goes(c, "accepted")
      BY <1>1, <1>2, <1>3, <1>8, <2>2, Moves
    <2>3. CASE call[c].token.kind # "listed" /\ Fails(c, "invalid", FALSE)
      BY <1>3, <1>4, <1>8, <2>3, ReaderIs
    <2> QED
      BY <2>1, <2>2, <2>3
  <1>9. CASE Child(c).kind = "other"
    <2>1. PICK e \in {"transport", "limited", "invalid"} : Fails(c, e, e # "invalid")
      BY <1>9 DEF Try
    <2>2. PICK b \in BOOLEAN : b = (e # "invalid")
      OBVIOUS
    <2>3. Fails(c, e, b)
      BY <2>1, <2>2
    <2> QED
      BY <1>3, <1>4, <1>9, <2>2, <2>3, ReaderIs
  <1> QED
    BY <1>3, <1>5, <1>6, <1>7, <1>8, <1>9 DEF Children


-----------------------------------------------------------------------------
(* Steps of the OIDC resolver.                                                                        *)

LEMMA Validates ==
  ASSUME Inv, NEW c \in Call, call[c].pc \in {"jwks", "lock", "got"}, NEW ks \in SUBSET Key,
         \A key \in ks : retired[key] # Never =>
           now - retired[key] < Interval + Timeout \/ now - retired[key] <= Timeout,
         call[c].force /\ call[c].good /\ call[c].token.kind = "jwt" => call[c].token.key \in ks,
         NEW f \in {Validated(c, ks), [Validated(c, ks) EXCEPT !.keys = {}]},
         call' = [call EXCEPT ![c] = f], Steady, UNCHANGED built, Cached', Releases(c)
  PROVE  Inv'
  <1>1. call[c].pc \notin {"idle"} \cup Over /\ call[c].pc \in OidcSteps \ {"introspect"}
    BY DEF Over, OidcSteps
  <1>2. /\ call[c] \in CallRecord /\ CallOK(call[c]) /\ setup.phase = "serving"
        /\ call[c].child \in DOMAIN chain.children /\ Child(c) = chain.children[call[c].child] /\ Child(c).kind = "oidc"
        /\ call[c].token \in Tokens /\ call[c].retried = FALSE /\ call[c].asked <= now /\ now \in Nat
    BY <1>1, UnderWay DEF CallOK, Under, CallRecord, OidcSteps, Timely, Inv, Facts
  <1>3. call'[c] = f
    BY DEF Inv
  <1>4. ASSUME f \in {Failed(c, "invalid", FALSE), [Failed(c, "invalid", FALSE) EXCEPT !.keys = {}]},
               call[c].good => call[c].token.kind # "jwt"
        PROVE  Inv'
    <2>1. /\ call[c].good /\ ~call[c].fault /\ ~FALSE =>
               "invalid" = "invalid" /\ Child(c).kind # Reader(call[c].token.kind)
          /\ call[c].token.kind = "listed" => Child(c).kind # "static"
      BY <1>2, <1>4, ReaderIs
    <2> QED
      BY <1>1, <1>4, <2>1, FailureKeeps
  <1>5. ASSUME NEW g \in CallRecord, f = g \/ f = [g EXCEPT !.keys = {}], g.pc \in {"lock", "introspect"},
               g.token = call[c].token, g.child = call[c].child, g.good = call[c].good, g.outage = call[c].outage,
               g.fault = call[c].fault, g.retried = FALSE, g.asked \in {call[c].asked, now},
               g.pc = "introspect" => /\ g.asked = now /\ g.sent = Snapshot
                                      /\ g.token.kind = "jwt" /\ g.token.key \in ks /\ HasPrincipal(g.token.claims)
        PROVE  Inv'
    <2>1. /\ f \in CallRecord /\ f.pc = g.pc /\ f.token = g.token /\ f.child = g.child /\ f.good = g.good
          /\ f.outage = g.outage /\ f.fault = g.fault /\ f.retried = g.retried /\ f.asked = g.asked /\ f.sent = g.sent
      BY <1>5 DEF CallRecord
    <2>2. Under(call[c])'
      BY <1>2, <1>3, <1>5, <2>1 DEF Under, OidcSteps, VaultSteps, Over, Steady, built
    <2>3. Timely(call[c])'
      BY <1>2, <1>3, <1>5, <2>1, Constants DEF Timely, Timed, Reading, Steady
    <2>4. Keys(call[c])'
      BY <1>3, <1>5, <2>1 DEF Keys, Steady
    <2>5. Secrets(call[c])'
      BY <1>3, <1>5, <2>1 DEF Secrets
    <2>6. Identity(call[c])'
      <3>1. MtlsConfigured(oidc) => Snapshot \in 1 .. issued
        BY DEF Snapshot, Inv, Builder, Fits
      <3>2. MtlsConfigured(oidc)' <=> MtlsConfigured(oidc)
        BY DEF built, MtlsConfigured, Configured
      <3> QED
        BY <1>3, <1>5, <2>1, <3>1, <3>2 DEF Identity, Steady
    <2>7. f.pc \notin {"idle", "refused", "get", "got"} /\ lock' # c /\ \A d \in Call \ {c} : lock' = d <=> lock = d
      BY <1>5, <2>1 DEF Releases
    <2> QED
      BY <1>1, <1>5, <2>1, <2>2, <2>3, <2>4, <2>5, <2>6, <2>7, GoesOn
  <1>6. CASE call[c].token.kind # "jwt"
    <2>1. Validated(c, ks) = Failed(c, "invalid", FALSE)
      BY <1>6 DEF Validated
    <2> QED
      BY <1>4, <1>6, <2>1
  <1>7. CASE call[c].token.kind = "jwt" /\ call[c].token.key \in ks /\ HasPrincipal(call[c].token.claims)
    <2> DEFINE g == [call[c] EXCEPT !.pc = "introspect", !.asked = now, !.sent = Snapshot]
    <2>1. Validated(c, ks) = g
      BY <1>7 DEF Validated
    <2>2. Snapshot \in 0 .. 2
      BY DEF Snapshot, Inv, Builder, Fits
    <2>3. "introspect" \in {"idle", "lock"} \cup Local \cup Timed \cup Reading \cup Over
      BY DEF Timed, Reading
    <2>4. /\ g \in CallRecord /\ g.pc = "introspect" /\ g.token = call[c].token /\ g.child = call[c].child
          /\ g.good = call[c].good /\ g.outage = call[c].outage /\ g.fault = call[c].fault /\ g.retried = FALSE
          /\ g.asked = now /\ g.sent = Snapshot
      BY <1>2, <2>2, <2>3 DEF CallRecord
    <2> HIDE DEF g
    <2> QED
      BY <1>5, <1>7, <2>1, <2>4
  <1>8. CASE call[c].token.kind = "jwt" /\ call[c].token.key \in ks /\ ~HasPrincipal(call[c].token.claims)
    <2>1. Validated(c, ks) = Failed(c, "invalid", FALSE)
      BY <1>8 DEF Validated
    <2>2. ~call[c].good
      BY <1>2, <1>8 DEF CallOK, Cause, Valid
    <2> QED
      BY <1>4, <2>1, <2>2
  <1>9. CASE call[c].token.kind = "jwt" /\ call[c].token.key \notin ks /\ call[c].force
    <2>1. Validated(c, ks) = Failed(c, "invalid", FALSE)
      BY <1>9 DEF Validated
    <2> QED
      BY <1>4, <1>9, <2>1
  <1>10. CASE call[c].token.kind = "jwt" /\ call[c].token.key \notin ks /\ ~call[c].force
    <2> DEFINE g == [call[c] EXCEPT !.force = TRUE, !.pc = "lock"]
    <2>1. Validated(c, ks) = g
      BY <1>10 DEF Validated
    <2>4. /\ g \in CallRecord /\ g.pc = "lock" /\ g.token = call[c].token /\ g.child = call[c].child
          /\ g.good = call[c].good /\ g.outage = call[c].outage /\ g.fault = call[c].fault /\ g.retried = FALSE
          /\ g.asked = call[c].asked
      BY <1>2 DEF CallRecord
    <2> HIDE DEF g
    <2> QED
      BY <1>5, <2>1, <2>4
  <1> QED
    BY <1>6, <1>7, <1>8, <1>9, <1>10


LEMMA KeysOfCache ==
  ASSUME Inv, FreshKeys
  PROVE  /\ jwks.keys \in SUBSET Key
         /\ \A key \in jwks.keys : retired[key] # Never =>
              now - retired[key] < Interval + Timeout \/ now - retired[key] <= Timeout
  <1>1. jwks.keys \in SUBSET Key /\ jwks.at \in Nat /\ now \in Nat /\ now - jwks.at < Interval
    BY DEF Inv, Cached, Facts, FreshKeys, Times
  <1>2. ASSUME NEW key \in jwks.keys, retired[key] # Never PROVE now - retired[key] < Interval + Timeout
    <2>1. jwks.at - retired[key] <= Timeout /\ retired[key] \in Int
      BY <1>1, <1>2 DEF Inv, Cached, Facts, Times, Never
    <2> QED
      BY <1>1, <2>1, Constants
  <1> QED
    BY <1>1, <1>2

LEMMA ReadCacheKeeps ==
  ASSUME Inv, NEW c \in Call, ReadCache(c)
  PROVE  Inv'
  <1>1. call[c].pc = "jwks" /\ Steady /\ UNCHANGED <<built, caches>> /\ lock # c /\ call[c].pc \notin {"idle", "introspect"} \cup Over
    BY DEF ReadCache, world, Steady, Inv, Over
  <1>2. Child(c).kind = "oidc" /\ ~call[c].force /\ ~call[c].retried
    BY <1>1, UnderWay DEF CallOK, Under, OidcSteps
  <1>3. Cached' /\ Releases(c)
    BY <1>1, CachedStill, KeepsLock DEF caches, Inv, Steady
  <1>4. CASE FreshKeys
    <2>1. call' = [call EXCEPT ![c] = Validated(c, jwks.keys)]
      BY <1>4 DEF ReadCache
    <2> QED
      BY <1>1, <1>2, <1>3, <1>4, <2>1, KeysOfCache, Validates
  <1>5. CASE ~FreshKeys
    <2>1. Goes(c, "lock")
      BY <1>5 DEF ReadCache
    <2> QED
      BY <1>1, <1>2, <2>1, Moves
  <1> QED
    BY <1>4, <1>5

LEMMA LockCacheKeeps ==
  ASSUME Inv, NEW c \in Call, LockCache(c)
  PROVE  Inv'
  <1>1. call[c].pc = "lock" /\ Steady /\ UNCHANGED <<built, jwks, principals, lease, clients>> /\ lock = None
        /\ call[c].pc \notin {"idle"} \cup Over
    BY DEF LockCache, world, Steady, Over
  <1>2. /\ Child(c).kind = "oidc" /\ ~call[c].retried /\ setup.phase = "serving" /\ call[c].child \in DOMAIN chain.children
        /\ call[c] \in CallRecord /\ Child(c) = chain.children[call[c].child] /\ now \in Nat
    BY <1>1, UnderWay DEF CallOK, Under, OidcSteps, Inv, Facts
  <1>3. CASE FreshKeys /\ ~call[c].force
    <2>1. call' = [call EXCEPT ![c] = Validated(c, jwks.keys)] /\ UNCHANGED lock
      BY <1>3 DEF LockCache
    <2>2. Cached' /\ Releases(c)
      BY <1>1, <2>1, CachedStill, KeepsLock DEF caches, Inv, Steady
    <2> QED
      BY <1>1, <1>2, <1>3, <2>1, <2>2, KeysOfCache, Validates
  <1>4. CASE ~(FreshKeys /\ ~call[c].force)
    <2> DEFINE f == [call[c] EXCEPT !.pc = "get", !.asked = now]
    <2>1. call' = [call EXCEPT ![c] = f] /\ lock' = c
      BY <1>4, GoesIs DEF LockCache
    <2>2. "get" \in {"idle", "lock"} \cup Local \cup Timed \cup Reading \cup Over
      BY DEF Timed, Reading
    <2>3. /\ f \in CallRecord /\ f.pc = "get" /\ f.token = call[c].token /\ f.child = call[c].child
          /\ f.good = call[c].good /\ f.outage = call[c].outage /\ f.fault = call[c].fault /\ f.asked = now
          /\ f.retried = call[c].retried
      BY <1>2, <2>2 DEF CallRecord
    <2> HIDE DEF f
    <2>4. call'[c] = f
      BY <2>1 DEF Inv
    <2>5. Under(call[c])'
      BY <1>1, <1>2, <2>3, <2>4 DEF Under, OidcSteps, VaultSteps, Over, Steady, built
    <2>6. Timely(call[c])' /\ Keys(call[c])' /\ Secrets(call[c])' /\ Identity(call[c])'
      BY <1>1, <1>2, <2>3, <2>4, Constants DEF Timely, Keys, Secrets, Identity, Steady
    <2>7. Cached'
      BY <1>1, <2>1 DEF Inv, Cached, Steady
    <2>8. \A d \in Call \ {c} : lock' = d <=> lock = d
      BY <1>1, <2>1, Constants
    <2> QED
      BY <1>1, <2>1, <2>3, <2>5, <2>6, <2>7, <2>8, GoesOn
  <1> QED
    BY <1>3, <1>4

LEMMA JwksAnsweredKeeps ==
  ASSUME Inv, NEW c \in Call, JwksAnswered(c)
  PROVE  Inv'
  <1> DEFINE ks == {<<k, published[k]>> : k \in Kid}
  <1>1. call[c].pc = "get" /\ Steady /\ UNCHANGED <<built, caches>> /\ lock = c /\ call[c].pc \notin {"idle"} \cup Over
    BY DEF JwksAnswered, world, Steady, Over, Inv
  <1>2. /\ call[c] \in CallRecord /\ CallOK(call[c]) /\ setup.phase = "serving" /\ call[c].child \in DOMAIN chain.children
        /\ Child(c).kind = "oidc" /\ Child(c) = chain.children[call[c].child] /\ ~call[c].retried
        /\ call[c].token \in Tokens
    BY <1>1, UnderWay DEF CallOK, Under, OidcSteps, CallRecord
  <1> DEFINE f == [call[c] EXCEPT !.pc = "got", !.keys = ks]
  <1>3. call' = [call EXCEPT ![c] = f]
    BY <1>2 DEF JwksAnswered, Inv, CallRecord
  <1>4. ks \in SUBSET Key
    BY DEF Inv, Facts, Key
  <1>5. \A key \in ks : retired[key] = Never
    <2>1. \A k \in Kid : published[k] \in Nat /\ <<k, published[k]>> \in Key /\ <<k, published[k]>>[1] = k
                         /\ <<k, published[k]>>[2] = published[k]
      BY <1>4, Constants DEF Inv, Facts
    <2> QED
      BY <2>1 DEF Inv, Facts
  <1>6. call[c].good /\ call[c].token.kind = "jwt" => call[c].token.key \in ks
    <2> SUFFICES ASSUME call[c].good, call[c].token.kind = "jwt" PROVE call[c].token.key \in ks
      OBVIOUS
    <2>1. published[call[c].token.key[1]] = call[c].token.key[2]
      BY <1>2 DEF CallOK, Cause, Valid
    <2>2. call[c].token.key \in Kid \X (1 .. MaxGen)
      BY <1>2, ReaderIs DEF Key
    <2>3. call[c].token.key = <<call[c].token.key[1], call[c].token.key[2]>> /\ call[c].token.key[1] \in Kid
      BY <2>2
    <2> QED
      BY <2>1, <2>3
  <1> HIDE DEF ks
  <1>7. "got" \in {"idle", "lock"} \cup Local \cup Timed \cup Reading \cup Over
    BY DEF Timed, Reading
  <1>8. /\ f \in CallRecord /\ f.pc = "got" /\ f.token = call[c].token /\ f.child = call[c].child
        /\ f.good = call[c].good /\ f.outage = call[c].outage /\ f.fault = call[c].fault /\ f.asked = call[c].asked
        /\ f.retried = call[c].retried /\ f.keys = ks
    BY <1>2, <1>4, <1>7 DEF CallRecord
  <1> HIDE DEF f
  <1>9. call'[c] = f
    BY <1>3 DEF Inv
  <1>10. Under(call[c])'
    BY <1>1, <1>2, <1>8, <1>9 DEF Under, OidcSteps, VaultSteps, Over, Steady, built
  <1>11. Timely(call[c])'
    BY <1>1, <1>2, <1>8, <1>9 DEF CallOK, Timely, Timed, Reading, Steady
  <1>12. Keys(call[c])' /\ Secrets(call[c])' /\ Identity(call[c])'
    BY <1>1, <1>5, <1>8, <1>9 DEF Keys, Secrets, Identity, Steady
  <1>13. Cached' /\ UNCHANGED lock
    BY <1>1, CachedStill DEF Inv, Steady, caches
  <1> QED
    BY <1>1, <1>3, <1>6, <1>8, <1>10, <1>11, <1>12, <1>13, GoesOn

LEMMA Releasing ==
  ASSUME Inv, NEW c \in Call, lock = c, lock' = None
  PROVE  Releases(c)
  BY Constants DEF Releases

LEMMA JwksArrivesKeeps ==
  ASSUME Inv, NEW c \in Call, JwksArrives(c)
  PROVE  Inv'
  <1> DEFINE ks == call[c].keys
  <1>1. call[c].pc = "got" /\ Steady /\ UNCHANGED <<built, principals, lease, clients>> /\ lock = c /\ lock' = None
        /\ jwks' = [keys |-> ks, at |-> now] /\ call[c].pc \notin {"idle"} \cup Over
    BY DEF JwksArrives, world, Steady, Over, Inv
  <1>2. /\ call[c] \in CallRecord /\ CallOK(call[c]) /\ now \in Nat /\ ks \in SUBSET Key
    BY <1>1, UnderWay DEF Inv, Facts, CallRecord
  <1>3. ASSUME NEW key \in ks PROVE retired[key] = Never \/ now - retired[key] <= Timeout
    <2>1. retired[key] = Never \/ retired[key] >= call[c].asked
      BY <1>1, <1>2, <1>3 DEF CallOK, Keys
    <2>2. now - call[c].asked <= Timeout /\ call[c].asked \in Nat /\ retired[key] \in Int
      BY <1>1, <1>2, <1>3 DEF CallOK, Timely, Timed, Reading, CallRecord, Inv, Facts, Times, Never
    <2> QED
      BY <1>2, <2>1, <2>2, Constants
  <1>4. Cached'
    <2>1. jwks' \in [keys : SUBSET Key, at : Times] /\ jwks'.at <= now /\ jwks'.at = now /\ jwks'.keys = ks
      BY <1>1, <1>2 DEF Times
    <2> QED
      BY <1>1, <1>3, <2>1 DEF Inv, Cached, Steady
  <1>5. call[c].good /\ call[c].token.kind = "jwt" => call[c].token.key \in ks
    BY <1>1, <1>2 DEF CallOK, Cause
  <1>6. call' = [call EXCEPT ![c] = [Validated(c, ks) EXCEPT !.keys = {}]]
    BY DEF JwksArrives
  <1> QED
    BY <1>1, <1>2, <1>3, <1>4, <1>5, <1>6, Releasing, Validates

LEMMA JwksFailsKeeps ==
  ASSUME Inv, NEW c \in Call, JwksFails(c)
  PROVE  Inv'
  <1>1. call[c].pc \in {"get", "got"} /\ Steady /\ UNCHANGED <<built, jwks, principals, lease, clients>> /\ lock = c
        /\ lock' = None /\ call[c].pc \notin {"idle"} \cup Over
    BY DEF JwksFails, world, Steady, Over, Inv
  <1>2. PICK e \in {"transport", "limited", "invalid"} : call' = [call EXCEPT ![c] = [Failed(c, e, TRUE) EXCEPT !.keys = {}]]
    BY DEF JwksFails
  <1>3. Cached'
    BY <1>1 DEF Inv, Cached, Steady
  <1>4. Child(c).kind = "oidc"
    BY <1>1, UnderWay DEF OidcSteps
  <1> QED
    BY <1>1, <1>2, <1>3, <1>4, Releasing, FailureKeeps


LEMMA RefreshesKeeps ==
  ASSUME Inv, NEW c \in Call, call[c].pc = "introspect", Refreshes(c)
  PROVE  Inv'
  <1>1. /\ call[c] \in CallRecord /\ CallOK(call[c]) /\ setup.phase = "serving" /\ call[c].child \in DOMAIN chain.children
        /\ Child(c).kind = "oidc" /\ Child(c) = chain.children[call[c].child] /\ now \in Nat
    BY UnderWay DEF OidcSteps, Over, Inv, Facts
  <1>2. MtlsConfigured(oidc) /\ ~call[c].retried /\ Steady /\ UNCHANGED <<setup, caches>>
    BY DEF Refreshes, ShouldRetry, Steady
  <1> DEFINE Fresh(w) == Reload(oidc, issued, w)
             Faulted(w) == call[c].fault \/ ~w \/ Accepted(c)
  <1>3. PICK worked \in BOOLEAN :
          /\ oidc' = Fresh(worked)
          /\ call' = [call EXCEPT ![c].retried = TRUE, ![c].asked = now, ![c].sent = Fresh(worked).cfg.client.id,
                                  ![c].fault = @ \/ ~worked \/ Accepted(c)]
    BY DEF Refreshes
  <1> DEFINE fresh == Fresh(worked)
             id == fresh.cfg.client.id
             fault == Faulted(worked)
  <1>4. Fits(fresh) /\ (Listens(oidc) => Listens(fresh)) /\ MtlsConfigured(fresh) /\ (worked => id = issued)
    BY <1>2, ReloadFits DEF Inv, Builder
  <1> HIDE DEF fresh
  <1>5. Builder' /\ (MtlsConfigured(oidc)' <=> MtlsConfigured(oidc))
    <2>1. oidc' = fresh
      BY <1>3 DEF fresh
    <2> QED
      BY <1>2, <1>4, <2>1 DEF Inv, Builder, Fits, Listens, MtlsConfigured, Configured, Steady
  <1>6. id \in 1 .. issued /\ issued \in 1 .. 2 /\ id \in 0 .. 2
    BY <1>4 DEF Fits, Inv, Builder
  <1>7. fault \in BOOLEAN /\ (~fault => worked /\ ~call[c].fault /\ ~Accepted(c))
    OBVIOUS
  <1>8. call' = [call EXCEPT ![c].retried = TRUE, ![c].asked = now, ![c].sent = id, ![c].fault = fault]
    <2>1. call[c].fault \/ ~worked \/ Accepted(c) <=> fault
      OBVIOUS
    <2> QED
      BY <1>3 DEF fresh
  <1> HIDE DEF id, fault
  <1> DEFINE f == [call[c] EXCEPT !.retried = TRUE, !.asked = now, !.sent = id, !.fault = fault]
  <1>9. call' = [call EXCEPT ![c] = f]
    BY <1>1, <1>8 DEF Inv, CallRecord
  <1>10. TRUE \in BOOLEAN
    OBVIOUS
  <1>11. /\ f \in CallRecord /\ f.pc = "introspect" /\ f.token = call[c].token /\ f.child = call[c].child
         /\ f.good = call[c].good /\ f.outage = call[c].outage /\ f.fault = fault /\ f.asked = now
         /\ f.retried = TRUE /\ f.sent = id
    BY <1>1, <1>6, <1>7, <1>10 DEF CallRecord
  <1> HIDE DEF f
  <1>12. call'[c] = f
    BY <1>9 DEF Inv
  <1>13. Under(call[c])'
    BY <1>1, <1>2, <1>11, <1>12 DEF Under, OidcSteps, VaultSteps, Over, Steady
  <1>14. Timely(call[c])'
    BY <1>1, <1>2, <1>11, <1>12, Constants DEF Timely, Steady
  <1>15. Keys(call[c])' /\ Secrets(call[c])'
    BY <1>1, <1>2, <1>11, <1>12 DEF CallOK, Keys, Secrets, Steady
  <1>16. Identity(call[c])'
    <2> SUFFICES ASSUME ~fault PROVE id = 2 /\ issued = 2
      BY <1>2, <1>6, <1>11, <1>12 DEF Identity, Steady
    <2>1. worked /\ ~call[c].fault /\ call[c].sent # issued
      BY <1>7 DEF Accepted
    <2>2. call[c].sent \in 1 .. issued
      BY <1>1, <1>2, <2>1 DEF CallOK, Identity
    <2> QED
      BY <1>4, <1>6, <2>1, <2>2 DEF id
  <1>17. Cause(call[c])' /\ Listed(call[c])' /\ Outage(call[c])'
    BY <1>1, <1>2, <1>7, <1>11, <1>12, Onward DEF Over
  <1>18. Cached' /\ UNCHANGED lock
    BY <1>2, CachedStill DEF Inv, Steady, caches
  <1>19. f.pc \in {"get", "got"} <=> lock' = c
    BY <1>11, <1>18 DEF Inv
  <1> QED
    BY <1>2, <1>5, <1>9, <1>11, <1>13, <1>14, <1>15, <1>16, <1>17, <1>18, <1>19, Compose DEF CallOK

LEMMA IntrospectKeeps ==
  ASSUME Inv, NEW c \in Call, Introspect(c)
  PROVE  Inv'
  <1>1. call[c].pc = "introspect" /\ call[c].pc \notin {"idle"} \cup Over /\ lock # c
    BY DEF Introspect, Over, Inv
  <1>2. /\ call[c] \in CallRecord /\ CallOK(call[c]) /\ setup.phase = "serving" /\ call[c].child \in DOMAIN chain.children
        /\ Child(c).kind = "oidc" /\ Child(c) = chain.children[call[c].child] /\ call[c].token.kind = "jwt"
        /\ call[c].asked <= now
    BY <1>1, UnderWay DEF OidcSteps, CallOK, Keys, Timely
  <1> DEFINE Still == Steady /\ UNCHANGED <<built, caches>>
  <1>3. ASSUME Still, NEW e \in {"transport", "limited", "invalid"}, NEW faulty \in BOOLEAN, Fails(c, e, faulty),
               call[c].good /\ ~call[c].fault => faulty
        PROVE  Inv'
    <2>1. call' = [call EXCEPT ![c] = Failed(c, e, faulty)]
      BY <1>3 DEF Fails
    <2>2. Cached' /\ Releases(c)
      BY <1>1, <1>3, CachedStill, KeepsLock DEF caches, Inv, Steady
    <2> QED
      BY <1>1, <1>2, <1>3, <2>1, <2>2, FailureKeeps
  <1>4. ASSUME Still, Goes(c, "accepted") PROVE Inv'
    <2> DEFINE f == [call[c] EXCEPT !.pc = "accepted"]
    <2>1. call' = [call EXCEPT ![c] = f]
      BY <1>4, GoesIs
    <2>2. "accepted" \in {"idle", "lock"} \cup Local \cup Timed \cup Reading \cup Over
      BY DEF Over
    <2>3. /\ f \in CallRecord /\ f.pc = "accepted" /\ f.token = call[c].token /\ f.child = call[c].child
          /\ f.good = call[c].good /\ f.outage = call[c].outage /\ f.fault = call[c].fault /\ f.asked = call[c].asked
      BY <1>2, <2>2 DEF CallRecord
    <2> HIDE DEF f
    <2>4. call'[c] = f
      BY <2>1 DEF Inv
    <2>5. Under(call[c])'
      BY <1>2, <1>4, <2>3, <2>4 DEF Under, OidcSteps, VaultSteps, Over, Steady, built
    <2>6. Timely(call[c])' /\ Keys(call[c])' /\ Secrets(call[c])' /\ Identity(call[c])'
      BY <1>2, <1>4, <2>3, <2>4 DEF Timely, Timed, Reading, Keys, Secrets, Identity, Steady
    <2>7. Cached' /\ UNCHANGED lock
      BY <1>4, CachedStill DEF Inv, Steady, caches
    <2> QED
      BY <1>1, <1>4, <2>1, <2>3, <2>5, <2>6, <2>7, GoesOn
  <1>5. CASE /\ Still
             /\ \/ Goes(c, "accepted")
                \/ Fails(c, "invalid", TRUE)
                \/ call[c].token.key[1] \in revoked /\ Fails(c, "invalid", FALSE)
    <2>1. call[c].token.key[1] \in revoked => ~call[c].good
      BY <1>2 DEF CallOK, Cause, Valid
    <2> QED
      BY <1>3, <1>4, <1>5, <2>1
  <1>6. CASE Refreshes(c)
    BY <1>1, <1>6, RefreshesKeeps
  <1>7. CASE /\ ~ShouldRetry(oidc) \/ call[c].retried
             /\ Fails(c, "transport", Accepted(c) \/ ~ShouldRetry(oidc))
             /\ Still
    <2>1. PICK b \in BOOLEAN : b = (Accepted(c) \/ ~ShouldRetry(oidc))
      OBVIOUS
    <2>2. ASSUME ~b, ~call[c].fault PROVE FALSE
      <3>1. ~Accepted(c) /\ ShouldRetry(oidc) /\ call[c].retried
        BY <1>7, <2>1, <2>2
      <3>2. call[c].sent = 2 /\ issued = 2
        BY <1>1, <1>2, <2>2, <3>1 DEF CallOK, Identity, ShouldRetry
      <3> QED
        BY <3>1, <3>2 DEF Accepted
    <2> QED
      BY <1>3, <1>7, <2>1, <2>2
  <1> QED
    BY <1>5, <1>6, <1>7 DEF Introspect, Steady, world


-----------------------------------------------------------------------------
(* Steps of the Vault resolver.                                                                        *)

LEMMA VaultGoesOn ==
  ASSUME Inv, NEW c \in Call, call[c].pc \in VaultSteps,
         NEW pc \in {"login", "loggedIn", "client", "read", "found", "accepted"},
         NEW a \in {call[c].asked, now}, NEW v \in 0 .. 2, NEW s \in Times, NEW w \in Nat,
         NEW f, f = [call[c] EXCEPT !.pc = pc, !.asked = a, !.got = v, !.took = w, !.since = s],
         call' = [call EXCEPT ![c] = f], Steady, UNCHANGED <<built, lock>>, Cached',
         a = now \/ call[c].pc \in Timed \/ pc \notin Timed,
         pc = "loggedIn" => s >= a,
         pc = "client" => (now - s - Timeout) * 10 <= Lease * 9,
         pc \in {"read", "found"} => (a - s - Timeout) * 10 <= Lease * 9,
         pc = "found" => v \in 1 .. 2 /\ (gone[v] = Never \/ gone[v] >= a),
         pc = "accepted" /\ call[c].token.kind = "vaulted" =>
           v \in 1 .. 2 /\ (gone[v] = Never \/ a - gone[v] < TTL + w \/ a - gone[v] <= w)
  PROVE  Inv'
  <1>1. call[c].pc \notin {"idle"} \cup Over \cup OidcSteps /\ lock # c
    BY DEF VaultSteps, OidcSteps, Over, Inv
  <1>2. /\ call[c] \in CallRecord /\ CallOK(call[c]) /\ setup.phase = "serving" /\ call[c].child \in DOMAIN chain.children
        /\ Child(c).kind = "vault" /\ Child(c) = chain.children[call[c].child] /\ now \in Nat /\ call[c].asked \in Nat
        /\ ~call[c].force /\ ~call[c].retried /\ call[c].asked <= now
    BY <1>1, UnderWay DEF CallOK, Under, Timely, CallRecord, Inv, Facts
  <1>3. pc \in {"idle", "lock"} \cup Local \cup Timed \cup Reading \cup Over
    BY DEF Local, Timed, Reading, Over
  <1>4. a \in Nat /\ a <= now
    BY <1>2
  <1>5. /\ f \in CallRecord /\ f.pc = pc /\ f.token = call[c].token /\ f.child = call[c].child /\ f.good = call[c].good
        /\ f.outage = call[c].outage /\ f.fault = call[c].fault /\ f.asked = a /\ f.got = v /\ f.since = s /\ f.took = w
        /\ f.force = call[c].force /\ f.retried = call[c].retried
    BY <1>2, <1>3, <1>4 DEF CallRecord
  <1>6. call'[c] = f
    BY DEF Inv
  <1>7. Under(call[c])'
    BY <1>2, <1>5, <1>6 DEF Under, OidcSteps, VaultSteps, Over, Steady, built
  <1>8. Timely(call[c])'
    BY <1>2, <1>4, <1>5, <1>6, Constants DEF CallOK, Timely, Steady
  <1>9. Keys(call[c])' /\ Identity(call[c])'
    BY <1>5, <1>6 DEF Keys, Identity
  <1>10. Secrets(call[c])'
    <2>1. /\ f.pc = "loggedIn" => f.since >= f.asked
          /\ f.pc = "client" => (now - f.since - Timeout) * 10 <= Lease * 9
          /\ f.pc \in {"read", "found"} => (f.asked - f.since - Timeout) * 10 <= Lease * 9
      BY <1>5
    <2>2. f.pc = "found" => f.got \in 1 .. 2 /\ (gone[f.got] = Never \/ gone[f.got] >= f.asked)
      BY <1>5
    <2>3. f.pc = "accepted" /\ f.token.kind = "vaulted" =>
            /\ f.got \in 1 .. 2
            /\ \/ gone[f.got] = Never
               \/ f.asked - gone[f.got] < TTL + f.took \/ f.asked - gone[f.got] <= f.took
      BY <1>5
    <2>4. UNCHANGED <<now, gone>>
      BY DEF Steady
    <2> QED
      BY <1>6, <2>1, <2>2, <2>3, <2>4 DEF Secrets
  <1>11. f.pc \notin {"idle", "refused", "get", "got"}
    BY <1>5
  <1> QED
    BY <1>1, <1>5, <1>7, <1>8, <1>9, <1>10, <1>11, GoesOn

LEMMA CachedPrincipalKeeps ==
  ASSUME Inv, NEW c \in Call, CachedPrincipal(c)
  PROVE  Inv'
  <1>1. /\ call[c].pc = "vault" /\ Steady /\ UNCHANGED <<built, caches>> /\ lock # c
        /\ call[c].pc \notin {"idle", "introspect"} \cup Over \cup OidcSteps
    BY DEF CachedPrincipal, world, Steady, Inv, Over, OidcSteps
  <1>2. /\ Child(c).kind = "vault" /\ ~call[c].force /\ ~call[c].retried /\ call[c] \in CallRecord
        /\ call[c].since \in Times /\ now \in Nat
    BY <1>1, UnderWay DEF CallOK, Under, VaultSteps, CallRecord, Inv, Facts
  <1>3. CASE call[c].token.kind = "vaulted" /\ principals.at # Never /\ now - principals.at < TTL
    <2> DEFINE v == principals.version
               w == principals.took
               f == [call[c] EXCEPT !.pc = "accepted", !.asked = now, !.got = v, !.took = w, !.since = call[c].since]
    <2>1. call' = [call EXCEPT ![c] = f]
      <3>1. call' = [call EXCEPT ![c] = [call[c] EXCEPT !.pc = "accepted", !.got = v, !.took = w, !.asked = now]]
        BY <1>2, <1>3 DEF CachedPrincipal, Inv, CallRecord
      <3>2. [call[c] EXCEPT !.pc = "accepted", !.got = v, !.took = w, !.asked = now] = f
        BY <1>2 DEF CallRecord
      <3> QED
        BY <3>1, <3>2
    <2>2. v \in 1 .. 2 /\ (gone[v] = Never \/ principals.at - gone[v] <= w) /\ principals.at \in Nat /\ w \in Nat
      BY <1>3 DEF Inv, Cached, Times
    <2>3. gone[v] = Never \/ now - gone[v] < TTL + w
      BY <1>2, <1>3, <2>2, Constants DEF Inv, Facts, Times, Never
    <2>4. v \in 0 .. 2
      BY <2>2
    <2>5. Cached' /\ UNCHANGED lock
      BY <1>1, CachedStill DEF Inv, Steady, caches
    <2> HIDE DEF v, w
    <2>6. PICK g : g = f
      OBVIOUS
    <2> HIDE DEF f
    <2> QED
      BY <1>1, <1>2, <2>1, <2>2, <2>3, <2>4, <2>5, <2>6, VaultGoesOn DEF VaultSteps, f
  <1>4. CASE ~(call[c].token.kind = "vaulted" /\ principals.at # Never /\ now - principals.at < TTL)
    <2>1. Goes(c, "lease")
      BY <1>4 DEF CachedPrincipal
    <2> QED
      BY <1>1, <1>2, <2>1, Moves
  <1> QED
    BY <1>3, <1>4


LEMMA VaultCall ==
  ASSUME Inv, NEW c \in Call, call[c].pc \in VaultSteps
  PROVE  /\ call[c].pc \notin {"idle", "introspect"} \cup Over \cup OidcSteps /\ lock # c
         /\ call[c] \in CallRecord /\ CallOK(call[c]) /\ Child(c).kind = "vault"
         /\ now \in Nat /\ call[c].asked \in Nat /\ call[c].asked <= now /\ call[c].since \in Times /\ call[c].got \in 0 .. 2
         /\ call[c].took \in Nat
  <1>1. call[c].pc \notin {"idle", "introspect"} \cup Over \cup OidcSteps /\ lock # c
    BY DEF VaultSteps, OidcSteps, Over, Inv
  <1>2. call[c] \in CallRecord /\ CallOK(call[c]) /\ Child(c).kind = "vault" /\ now \in Nat
    BY <1>1, UnderWay DEF Inv, Facts
  <1> QED
    BY <1>1, <1>2 DEF CallOK, Timely, CallRecord

LEMMA TakeTokenKeeps ==
  ASSUME Inv, NEW c \in Call, TakeToken(c)
  PROVE  Inv'
  <1>1. call[c].pc = "lease" /\ Steady /\ UNCHANGED <<built, caches>> /\ call[c].pc \in VaultSteps
    BY DEF TakeToken, world, Steady, VaultSteps
  <1>2. Cached' /\ UNCHANGED lock
    BY <1>1, CachedStill DEF Inv, Steady, caches
  <1>3. CASE FreshLease
    <2> DEFINE s == lease.since
    <2>2. s \in Times /\ (now - s - Timeout) * 10 <= Lease * 9
      <3>1. lease.at \in Nat /\ lease.since \in Times /\ lease.at - lease.since <= Timeout /\ (now - lease.at) * 10 < Lease * 9
        BY <1>3 DEF Inv, Cached, FreshLease, Times
      <3> QED
        BY <3>1, Constants, VaultCall, <1>1 DEF Times, Never
    <2> HIDE DEF s
    <2>3. PICK f : f = [call[c] EXCEPT !.pc = "client", !.asked = call[c].asked, !.got = call[c].got, !.took = call[c].took, !.since = s]
      OBVIOUS
    <2>4. call' = [call EXCEPT ![c] = f]
      <3>1. call' = [call EXCEPT ![c] = [call[c] EXCEPT !.pc = "client", !.since = s]]
        BY <1>3 DEF TakeToken, Goes, Sends, Inv, CallRecord, s
      <3>2. f = [call[c] EXCEPT !.pc = "client", !.since = s]
        BY <1>1, <2>3, VaultCall DEF CallRecord
      <3> QED
        BY <3>1, <3>2
    <2>5. "client" \notin Timed
      BY DEF Timed, Reading
    <2> QED
      BY <1>1, <1>2, <2>2, <2>3, <2>4, <2>5, VaultCall, VaultGoesOn
  <1>4. CASE ~FreshLease
    <2>1. Sends(c, "login")
      BY <1>4 DEF TakeToken
    <2>3. PICK f : f = [call[c] EXCEPT !.pc = "login", !.asked = now, !.got = call[c].got, !.took = call[c].took, !.since = call[c].since]
      OBVIOUS
    <2>4. call' = [call EXCEPT ![c] = f]
      <3>1. call' = [call EXCEPT ![c] = [call[c] EXCEPT !.pc = "login", !.asked = now]]
        BY <2>1 DEF TakeToken, Goes, Sends, Inv, CallRecord
      <3>2. f = [call[c] EXCEPT !.pc = "login", !.asked = now]
        BY <1>1, <2>3, VaultCall DEF CallRecord
      <3> QED
        BY <3>1, <3>2
    <2> QED
      BY <1>1, <1>2, <2>3, <2>4, VaultCall, VaultGoesOn
  <1> QED
    BY <1>3, <1>4

LEMMA LoginAnsweredKeeps ==
  ASSUME Inv, NEW c \in Call, LoginAnswered(c)
  PROVE  Inv'
  <1>1. call[c].pc = "login" /\ Steady /\ UNCHANGED <<built, caches>> /\ call[c].pc \in VaultSteps /\ call[c].pc \in Timed
    BY DEF LoginAnswered, world, Steady, VaultSteps, Timed, Reading
  <1>2. Cached' /\ UNCHANGED lock
    BY <1>1, CachedStill DEF Inv, Steady, caches
  <1>3. PICK f : f = [call[c] EXCEPT !.pc = "loggedIn", !.asked = call[c].asked, !.got = call[c].got, !.took = call[c].took, !.since = now]
    OBVIOUS
  <1>5. call' = [call EXCEPT ![c] = f]
    <2>1. call' = [call EXCEPT ![c] = [call[c] EXCEPT !.pc = "loggedIn", !.since = now]]
      BY <1>1 DEF LoginAnswered, Goes, Sends, Inv, CallRecord
    <2>2. f = [call[c] EXCEPT !.pc = "loggedIn", !.since = now]
      BY <1>1, <1>3, VaultCall DEF CallRecord
    <2> QED
      BY <2>1, <2>2
  <1>6. now \in Times
    BY <1>1, VaultCall DEF Times
  <1> QED
    BY <1>1, <1>2, <1>3, <1>5, <1>6, VaultCall, VaultGoesOn

LEMMA LoginArrivesKeeps ==
  ASSUME Inv, NEW c \in Call, LoginArrives(c)
  PROVE  Inv'
  <1>1. /\ call[c].pc = "loggedIn" /\ Steady /\ UNCHANGED <<built, jwks, lock, principals, clients>>
        /\ call[c].pc \in VaultSteps /\ call[c].pc \in Timed
    BY DEF LoginArrives, world, Steady, VaultSteps, Timed, Reading
  <1>2. lease' = [since |-> call[c].since, at |-> now] /\ Goes(c, "client")
    BY DEF LoginArrives
  <1>3. now - call[c].since <= Timeout /\ call[c].since \in Nat
    <2>1. call[c].since >= call[c].asked /\ now - call[c].asked <= Timeout
      BY <1>1, VaultCall DEF CallOK, Secrets, Timely
    <2> QED
      BY <1>1, <2>1, VaultCall, Constants DEF Times, Never
  <1>4. Cached'
    <2>1. lease' \in [since : Times, at : Times] /\ lease'.at <= now /\ lease'.at - lease'.since <= Timeout
      BY <1>1, <1>2, <1>3, VaultCall DEF Times
    <2> QED
      BY <1>1, <2>1 DEF Inv, Cached, Steady
  <1>5. PICK f : f = [call[c] EXCEPT !.pc = "client", !.asked = call[c].asked, !.got = call[c].got, !.took = call[c].took, !.since = call[c].since]
    OBVIOUS
  <1>6. call' = [call EXCEPT ![c] = f]
    <2>1. call' = [call EXCEPT ![c] = [call[c] EXCEPT !.pc = "client"]]
      BY <1>1 DEF LoginArrives, Goes, Sends, Inv, CallRecord
    <2>2. f = [call[c] EXCEPT !.pc = "client"]
      BY <1>1, <1>5, VaultCall DEF CallRecord
    <2> QED
      BY <2>1, <2>2
  <1>7. (now - call[c].since - Timeout) * 10 <= Lease * 9
    <2>1. now \in Nat /\ Timeout \in Nat /\ Lease \in Nat
      BY <1>1, VaultCall, Constants
    <2> QED
      BY <1>3, <2>1
  <1> QED
    BY <1>1, <1>4, <1>5, <1>6, <1>7, VaultCall, VaultGoesOn

LEMMA LoginFailsKeeps ==
  ASSUME Inv, NEW c \in Call, LoginFails(c)
  PROVE  Inv'
  <1>1. /\ call[c].pc \in {"login", "loggedIn"} /\ Steady /\ UNCHANGED <<built, caches>>
        /\ call[c].pc \in VaultSteps /\ call[c].pc \notin {"get", "got"}
    BY DEF LoginFails, world, Steady, VaultSteps
  <1>2. PICK e \in {"transport", "limited", "invalid"} : call' = [call EXCEPT ![c] = Failed(c, e, TRUE)]
    BY DEF LoginFails, Fails
  <1>3. Cached' /\ Releases(c)
    BY <1>1, CachedStill, KeepsLock DEF caches, Inv, Steady
  <1> QED
    BY <1>1, <1>2, <1>3, VaultCall, FailureKeeps


LEMMA ClientKeeps ==
  ASSUME Inv, NEW c \in Call, Client(c)
  PROVE  Inv'
  <1>1. call[c].pc = "client" /\ Steady /\ UNCHANGED <<built, jwks, lock, principals, lease>> /\ call[c].pc \in VaultSteps
    BY DEF Client, world, Steady, VaultSteps
  <1>2. PICK f : f = [call[c] EXCEPT !.pc = "read", !.asked = now, !.got = call[c].got, !.took = call[c].took, !.since = call[c].since]
    OBVIOUS
  <1>3. call' = [call EXCEPT ![c] = f]
    <2>1. call' = [call EXCEPT ![c] = [call[c] EXCEPT !.pc = "read", !.asked = now]]
      BY GoesIs DEF Client
    <2>2. f = [call[c] EXCEPT !.pc = "read", !.asked = now]
      BY <1>1, <1>2, VaultCall DEF CallRecord
    <2> QED
      BY <2>1, <2>2
  <1>4. IsFiniteSet(clients') /\ Cardinality(clients') <= ClientLimit
    <2>1. IsFiniteSet(clients) /\ Cardinality(clients) <= ClientLimit /\ Cardinality(clients) \in Nat
      BY FS_CardinalityType DEF Inv, Cached
    <2> DEFINE new == call[c].since
    <2>2. CASE new \in clients \/ Cardinality(clients) < ClientLimit
      <3>1. clients' = clients \cup {new}
        BY <2>2 DEF Client
      <3>2. IsFiniteSet(clients') /\ (new \in clients => clients' = clients)
            /\ (new \notin clients => Cardinality(clients') = Cardinality(clients) + 1)
        BY <2>1, <3>1, FS_AddElement
      <3> QED
        BY <2>1, <2>2, <3>2, Constants
    <2>3. CASE ~(new \in clients \/ Cardinality(clients) < ClientLimit)
      <3>1. PICK old \in clients : clients' = (clients \ {old}) \cup {new}
        BY <2>3 DEF Client
      <3>2. IsFiniteSet(clients \ {old}) /\ Cardinality(clients \ {old}) = Cardinality(clients) - 1
        BY <2>1, FS_RemoveElement
      <3>3. IsFiniteSet(clients') /\ Cardinality(clients') = Cardinality(clients \ {old}) + 1
        BY <2>3, <3>1, <3>2, FS_AddElement
      <3> QED
        BY <2>1, <3>2, <3>3
    <2> QED
      BY <2>2, <2>3
  <1>5. Cached'
    BY <1>1, <1>4 DEF Inv, Cached, Steady
  <1>6. (now - call[c].since - Timeout) * 10 <= Lease * 9
    BY <1>1, VaultCall DEF CallOK, Secrets
  <1> QED
    BY <1>1, <1>2, <1>3, <1>5, <1>6, VaultCall, VaultGoesOn

LEMMA ReadFoundKeeps ==
  ASSUME Inv, NEW c \in Call, ReadFound(c)
  PROVE  Inv'
  <1>1. /\ call[c].pc = "read" /\ Steady /\ UNCHANGED <<built, caches>> /\ call[c].pc \in VaultSteps
        /\ entry # 0
    BY DEF ReadFound, world, Steady, VaultSteps, Timed, Reading
  <1>2. Cached' /\ UNCHANGED lock
    BY <1>1, CachedStill DEF Inv, Steady, caches
  <1>3. PICK f : f = [call[c] EXCEPT !.pc = "found", !.asked = call[c].asked, !.got = entry, !.took = call[c].took, !.since = call[c].since]
    OBVIOUS
  <1>4. call' = [call EXCEPT ![c] = f]
    <2>1. call' = [call EXCEPT ![c] = [call[c] EXCEPT !.pc = "found", !.got = entry]]
      BY DEF ReadFound, Inv, CallRecord
    <2>2. f = [call[c] EXCEPT !.pc = "found", !.got = entry]
      BY <1>1, <1>3, VaultCall DEF CallRecord
    <2> QED
      BY <2>1, <2>2
  <1>5. entry \in 1 .. 2 /\ entry \in 0 .. 2 /\ gone[entry] = Never
    BY <1>1 DEF Inv, Facts
  <1>6. (call[c].asked - call[c].since - Timeout) * 10 <= Lease * 9
    BY <1>1, VaultCall DEF CallOK, Secrets
  <1>7. "found" \notin Timed
    BY DEF Timed
  <1> QED
    BY <1>1, <1>2, <1>3, <1>4, <1>5, <1>6, <1>7, VaultCall, VaultGoesOn

LEMMA ReadArrivesKeeps ==
  ASSUME Inv, NEW c \in Call, ReadArrives(c)
  PROVE  Inv'
  <1>1. /\ call[c].pc = "found" /\ Steady /\ UNCHANGED <<built, jwks, lock, lease, clients>> /\ call[c].pc \in VaultSteps
        /\ principals' = [version |-> call[c].got, at |-> now, took |-> now - call[c].asked]
    BY DEF ReadArrives, world, Steady, VaultSteps
  <1> DEFINE w == now - call[c].asked
  <1>2. w \in Nat /\ call[c].got \in 1 .. 2 /\ (gone[call[c].got] = Never \/ now - gone[call[c].got] <= w)
    <2>1. call[c].got \in 1 .. 2 /\ (gone[call[c].got] = Never \/ gone[call[c].got] >= call[c].asked)
      BY <1>1, VaultCall DEF CallOK, Secrets
    <2>2. gone[call[c].got] \in Int
      BY <2>1 DEF Inv, Facts, Times, Never
    <2> QED
      BY <1>1, <2>1, <2>2, VaultCall, Constants
  <1>3. Cached'
    <2>1. principals' \in [version : 0 .. 2, at : Times, took : Nat] /\ principals'.at <= now /\ principals'.at = now
          /\ principals'.version = call[c].got /\ principals'.took = w
      BY <1>1, <1>2, VaultCall DEF Times
    <2> QED
      BY <1>1, <1>2, <2>1 DEF Inv, Cached, Steady
  <1> HIDE DEF w
  <1>4. PICK f : f = [call[c] EXCEPT !.pc = "accepted", !.asked = now, !.got = call[c].got, !.took = w, !.since = call[c].since]
    OBVIOUS
  <1>5. call' = [call EXCEPT ![c] = f]
    <2>1. call' = [call EXCEPT ![c] = [call[c] EXCEPT !.pc = "accepted", !.took = w, !.asked = now]]
      BY DEF ReadArrives, Inv, CallRecord, w
    <2>2. f = [call[c] EXCEPT !.pc = "accepted", !.took = w, !.asked = now]
      BY <1>1, <1>4, VaultCall DEF CallRecord
    <2> QED
      BY <2>1, <2>2
  <1>6. "accepted" \notin Timed
    BY DEF Timed
  <1> QED
    BY <1>1, <1>2, <1>3, <1>4, <1>5, <1>6, VaultCall, VaultGoesOn

LEMMA ReadFailsKeeps ==
  ASSUME Inv, NEW c \in Call, ReadFails(c)
  PROVE  Inv'
  <1>1. /\ call[c].pc \in {"read", "found"} /\ Steady /\ UNCHANGED <<built, caches>>
        /\ call[c].pc \in VaultSteps /\ call[c].pc \notin {"get", "got"}
    BY DEF ReadFails, world, Steady, VaultSteps
  <1>2. Cached' /\ Releases(c)
    BY <1>1, CachedStill, KeepsLock DEF caches, Inv, Steady
  <1>3. call[c].token \in Tokens
    BY <1>1, VaultCall DEF CallRecord
  <1>4. CASE (call[c].token.kind # "vaulted" \/ entry = 0 \/ Expired(c)) /\ Fails(c, "invalid", Expired(c))
    <2>1. call' = [call EXCEPT ![c] = Failed(c, "invalid", Expired(c))]
      BY <1>4 DEF Fails
    <2> DEFINE late == now - call[c].since > Lease
    <2>5. late \in BOOLEAN
      OBVIOUS
    <2>6. Expired(c) = late
      BY DEF Expired
    <2> HIDE DEF late
    <2>2. PICK b \in BOOLEAN : b = Expired(c)
      BY <2>5, <2>6
    <2>3. ASSUME call[c].good, ~call[c].fault, ~b PROVE Child(c).kind # Reader(call[c].token.kind)
      <3>1. CASE call[c].token.kind # "vaulted"
        BY <1>1, <1>3, <3>1, VaultCall, ReaderIs
      <3>2. CASE call[c].token.kind = "vaulted"
        <4>1. entry # 0
          BY <1>1, <2>3, <3>2, VaultCall DEF CallOK, Cause, Valid
        <4> QED
          BY <1>4, <2>2, <2>3, <3>2, <4>1
      <3> QED
        BY <3>1, <3>2
    <2>4. call[c].token.kind = "listed" => Child(c).kind # "static"
      BY <1>1, VaultCall
    <2> QED
      BY <1>1, <1>2, <2>1, <2>2, <2>3, <2>4, VaultCall, FailureKeeps
  <1>5. CASE Fails(c, "invalid", TRUE)
    <2>1. call' = [call EXCEPT ![c] = Failed(c, "invalid", TRUE)]
      BY <1>5 DEF Fails
    <2> QED
      BY <1>1, <1>2, <2>1, VaultCall, FailureKeeps
  <1> QED
    BY <1>4, <1>5 DEF ReadFails


-----------------------------------------------------------------------------
(* Steps of the issuer, of Vault's operator, of the clock and of the builder.                            *)

(* Calls that stand still while the resolver or the identity changes.                                    *)
LEMMA StandsStill ==
  ASSUME Inv, UNCHANGED <<now, published, retired, entry, gone, revoked, chain, caches, call>>, Builder',
         issued' >= issued,
         \/ UNCHANGED setup /\ (MtlsConfigured(oidc)' <=> MtlsConfigured(oidc)) /\ (UNCHANGED issued \/ issued = 1)
         \/ \A d \in Call : call[d].pc = "idle"
  PROVE  Inv'
  <1>1. Facts' /\ Cached' /\ call' \in [Call -> CallRecord] /\ \A c \in Call : call'[c].pc \in {"get", "got"} <=> lock' = c
    <2>1. Facts'
      BY DEF Inv, Facts
    <2>2. Cached'
      BY CachedStill DEF Inv
    <2> QED
      BY <2>1, <2>2 DEF Inv, caches
  <1>2. ASSUME NEW d \in Call PROVE CallOK(call[d])'
    <2>1. CallOK(call[d]) /\ call'[d] = call[d] /\ issued \in 1 .. 2 /\ issued' \in 1 .. 2 /\ call[d] \in CallRecord
      BY DEF Inv, Builder
    <2>2. Timely(call[d])' /\ Keys(call[d])' /\ Secrets(call[d])'
      BY <2>1 DEF CallOK, Timely, Keys, Secrets
    <2>3. Cause(call[d])' /\ Listed(call[d])' /\ Outage(call[d])'
      <3>1. Cause(call[d])'
        BY <2>1 DEF CallOK, Cause, Passed
      <3>2. Listed(call[d])' /\ Outage(call[d])'
        BY <2>1 DEF CallOK, Listed, Passed, Outage, Halts
      <3> QED
        BY <3>1, <3>2
    <2>4. Under(call[d])'
      BY <2>1 DEF CallOK, Under
    <2>5. Identity(call[d])'
      BY <2>1 DEF CallOK, Identity, CallRecord
    <2> QED
      BY <2>2, <2>3, <2>4, <2>5 DEF CallOK
  <1> QED
    BY <1>1, <1>2 DEF Inv

(* Something is withdrawn: what was good may be so no longer, from now on.                                *)
LEMMA Withdraws ==
  ASSUME Inv, StillGood, UNCHANGED <<now, built, issued, chain, caches>>, Facts',
         \A key \in Key : retired'[key] = retired[key] \/ retired'[key] = now,
         \A v \in 1 .. 2 : gone'[v] = gone[v] \/ gone'[v] = now
  PROVE  Inv'
  <1>1. now \in Nat /\ now # Never /\ \A key \in Key : retired[key] \in Int
    BY DEF Inv, Facts, Times, Never
  <1>2. Builder'
    BY DEF Inv, Builder, Fits, Listens, built, MtlsConfigured, Configured
  <1>3. Cached'
    <2>1. \A key \in jwks.keys : retired'[key] = Never \/ jwks.at - retired'[key] <= Timeout
      <3> SUFFICES ASSUME NEW key \in jwks.keys PROVE retired'[key] = Never \/ jwks.at - retired'[key] <= Timeout
        OBVIOUS
      <3>1. key \in Key /\ jwks.at \in Int /\ jwks.at <= now /\ (retired[key] = Never \/ jwks.at - retired[key] <= Timeout)
        BY DEF Inv, Cached, Times, Never
      <3> QED
        BY <1>1, <3>1, Constants
    <2>2. principals.at # Never =>
            gone'[principals.version] = Never \/ principals.at - gone'[principals.version] <= principals.took
      <3> SUFFICES ASSUME principals.at # Never
                   PROVE  gone'[principals.version] = Never \/ principals.at - gone'[principals.version] <= principals.took
        OBVIOUS
      <3>1. /\ principals.version \in 1 .. 2 /\ principals.at \in Int /\ principals.at <= now /\ principals.took \in Nat
            /\ gone[principals.version] = Never \/ principals.at - gone[principals.version] <= principals.took
        BY DEF Inv, Cached, Times, Never
      <3> QED
        BY <1>1, <3>1, Constants
    <2> QED
      BY <2>1, <2>2 DEF Inv, Cached, caches
  <1>4. ASSUME NEW d \in Call
        PROVE  /\ call'[d] \in CallRecord /\ CallOK(call[d])'
               /\ call'[d].pc \in {"get", "got"} <=> lock' = d
    <2>1. call[d] \in CallRecord /\ CallOK(call[d]) /\ call[d].token \in Tokens /\ call[d].asked \in Nat /\ call[d].asked <= now
      BY DEF Inv, CallRecord, CallOK, Timely
    <2> DEFINE b == call[d].good /\ Valid(call[d].token, published', revoked', entry')
    <2>2. b \in BOOLEAN /\ (b => call[d].good /\ Valid(call[d].token, published', revoked', entry'))
      OBVIOUS
    <2>3. call'[d] = [call[d] EXCEPT !.good = b]
      BY DEF StillGood
    <2> HIDE DEF b
    <2> DEFINE f == [call[d] EXCEPT !.good = b]
    <2>4. /\ f \in CallRecord /\ f.pc = call[d].pc /\ f.token = call[d].token /\ f.child = call[d].child /\ f.force = call[d].force
          /\ f.sent = call[d].sent /\ f.retried = call[d].retried /\ f.asked = call[d].asked /\ f.got = call[d].got
          /\ f.keys = call[d].keys /\ f.since = call[d].since /\ f.err = call[d].err /\ f.fault = call[d].fault
          /\ f.outage = call[d].outage /\ f.good = b /\ f.took = call[d].took /\ f.took \in Nat
      BY <2>1, <2>2 DEF CallRecord
    <2> HIDE DEF f
    <2>5. call'[d] = f
      BY <2>3 DEF f
    <2>6. Under(call[d])' /\ Timely(call[d])' /\ Identity(call[d])'
      <3>1. Under(call[d])' /\ Timely(call[d])'
        BY <2>1, <2>4, <2>5 DEF CallOK, Under, Timely, built
      <3>2. Identity(call[d])'
        BY <2>1, <2>4, <2>5 DEF CallOK, Identity, built, MtlsConfigured, Configured
      <3> QED
        BY <3>1, <3>2
    <2>7. Keys(call[d])'
      <3>1. ASSUME f.pc = "got", NEW key \in f.keys PROVE retired'[key] = Never \/ retired'[key] >= f.asked
        <4>1. key \in Key /\ (retired[key] = Never \/ retired[key] >= f.asked)
          BY <2>1, <2>4, <3>1 DEF CallOK, Keys, CallRecord
        <4> QED
          BY <2>1, <2>4, <4>1
      <3>2. ASSUME f.pc = "introspect", ~f.retried, retired'[f.token.key] # Never
            PROVE  f.asked - retired'[f.token.key] < Interval + Timeout \/ f.asked - retired'[f.token.key] <= Timeout
        <4>1. f.token.key \in Key
          BY <2>1, <2>4, <3>2, ReaderIs DEF CallOK, Keys
        <4>2. CASE retired'[f.token.key] = now
          BY <1>1, <2>1, <2>4, <4>2, Constants
        <4>3. CASE retired'[f.token.key] = retired[f.token.key]
          BY <2>1, <2>4, <3>2, <4>3 DEF CallOK, Keys
        <4> QED
          BY <4>1, <4>2, <4>3
      <3>3. f.pc = "introspect" => f.token.kind = "jwt" /\ HasPrincipal(f.token.claims)
        BY <2>1, <2>4 DEF CallOK, Keys
      <3> QED
        BY <2>5, <3>1, <3>2, <3>3 DEF Keys
    <2>8. Secrets(call[d])'
      <3>1. f.pc = "found" => f.got \in 1 .. 2 /\ (gone'[f.got] = Never \/ gone'[f.got] >= f.asked)
        BY <1>1, <2>1, <2>4 DEF CallOK, Secrets
      <3>2. ASSUME f.pc = "accepted", f.token.kind = "vaulted", chain.children[f.child].kind = "vault"
            PROVE  /\ f.got \in 1 .. 2
                   /\ \/ gone'[f.got] = Never
                      \/ f.asked - gone'[f.got] < TTL + f.took \/ f.asked - gone'[f.got] <= f.took
        <4>1. /\ f.got \in 1 .. 2
              /\ \/ gone[f.got] = Never
                 \/ f.asked - gone[f.got] < TTL + f.took \/ f.asked - gone[f.got] <= f.took
          BY <2>1, <2>4, <3>2 DEF CallOK, Secrets
        <4>2. CASE gone'[f.got] = now
          BY <1>1, <2>1, <2>4, <4>1, <4>2, Constants
        <4>3. CASE gone'[f.got] = gone[f.got]
          BY <4>1, <4>3
        <4> QED
          BY <4>1, <4>2, <4>3
      <3> QED
        BY <2>1, <2>4, <2>5, <3>1, <3>2 DEF CallOK, Secrets
    <2>9. Cause(call[d])'
      BY <2>1, <2>2, <2>4, <2>5 DEF CallOK, Cause, Passed
    <2>10. Listed(call[d])' /\ Outage(call[d])'
      BY <2>1, <2>4, <2>5 DEF CallOK, Listed, Passed, Outage, Halts
    <2>11. call'[d].pc \in {"get", "got"} <=> lock' = d
      BY <2>4, <2>5 DEF Inv, caches
    <2> QED
      BY <2>4, <2>5, <2>6, <2>7, <2>8, <2>9, <2>10, <2>11 DEF CallOK
  <1>5. call' \in [Call -> CallRecord]
    <2>1. call' = [c \in Call |-> call'[c]]
      BY DEF StillGood
    <2> QED
      BY <1>4, <2>1
  <1> QED
    BY <1>2, <1>3, <1>4, <1>5 DEF Inv


LEMMA RotateKeeps ==
  ASSUME Inv, NEW k \in Kid, Rotate(k)
  PROVE  Inv'
  <1>1. /\ published[k] < MaxGen /\ published' = [published EXCEPT ![k] = @ + 1]
        /\ retired' = [retired EXCEPT ![<<k, published[k]>>] = now] /\ StillGood
        /\ UNCHANGED <<now, entry, gone, revoked, issued, built, chain, caches>>
    BY DEF Rotate
  <1> DEFINE old == <<k, published[k]>>
  <1>2. /\ published \in [Kid -> 1 .. MaxGen] /\ retired \in [Key -> Times] /\ now \in Nat /\ now \in Times
        /\ published[k] \in 1 .. MaxGen
    BY DEF Inv, Facts, Times
  <1>3. published' \in [Kid -> 1 .. MaxGen] /\ retired' \in [Key -> Times]
    <2>1. published[k] + 1 \in 1 .. MaxGen
      BY <1>1, <1>2, Constants
    <2> QED
      BY <1>1, <1>2, <2>1
  <1>4. old \in Key /\ \A key \in Key : retired'[key] = IF key = old THEN now ELSE retired[key]
    BY <1>1, <1>2 DEF Key
  <1>5. ASSUME NEW key \in Key
        PROVE  retired'[key] <= now /\ (published'[key[1]] <= key[2] => retired'[key] = Never)
    <2>1. key[1] \in Kid /\ key[2] \in 1 .. MaxGen /\ key = <<key[1], key[2]>>
      BY DEF Key
    <2>2. retired[key] <= now /\ (published[key[1]] <= key[2] => retired[key] = Never)
      BY DEF Inv, Facts
    <2>3. CASE key = old
      <3>1. key[1] = k /\ key[2] = published[k] /\ published'[k] = published[k] + 1 /\ retired'[key] = now
        BY <1>1, <1>2, <1>4, <2>3
      <3> QED
        BY <1>2, <3>1
    <2>4. CASE key # old
      <3>1. retired'[key] = retired[key] /\ published'[key[1]] >= published[key[1]]
            /\ published'[key[1]] \in Nat /\ published[key[1]] \in Nat
        BY <1>1, <1>2, <1>4, <2>1, <2>4, Constants
      <3> QED
        BY <2>1, <2>2, <3>1
    <2> QED
      BY <2>3, <2>4
  <1>6. Facts'
    BY <1>1, <1>3, <1>5 DEF Inv, Facts
  <1>7. UNCHANGED <<now, built, issued, chain, caches>> /\ \A v \in 1 .. 2 : gone'[v] = gone[v]
    BY <1>1
  <1> QED
    BY <1>1, <1>4, <1>6, <1>7, Withdraws

LEMMA WorldKeeps ==
  ASSUME Inv, World
  PROVE  Inv'
  <1>1. ASSUME NEW k \in Kid, Revoke(k) PROVE Inv'
    <2>1. StillGood /\ UNCHANGED <<now, published, retired, entry, gone, issued, built, chain, caches>>
          /\ revoked' = revoked \cup {k}
      BY <1>1 DEF Revoke
    <2>2. Facts'
      BY <2>1 DEF Inv, Facts
    <2> QED
      BY <2>1, <2>2, Withdraws
  <1>2. CASE ChangeEntry
    <2>1. /\ StillGood /\ UNCHANGED <<now, published, retired, revoked, issued, built, chain, caches>>
          /\ entry = 1 /\ entry' \in {0, 2} /\ gone' = [gone EXCEPT ![1] = now]
      BY <1>2 DEF ChangeEntry
    <2>2. gone \in [1 .. 2 -> Times] /\ now \in Nat /\ now \in Times /\ gone[2] = Never /\ 1 \in 1 .. 2 /\ 2 \in 1 .. 2
      BY <2>1 DEF Inv, Facts, Times
    <2>3. gone' \in [1 .. 2 -> Times] /\ gone'[1] = now /\ gone'[2] = Never /\ entry' \in 0 .. 2 /\ 1 \notin {entry'}
      BY <2>1, <2>2
    <2>4. \A v \in 1 .. 2 : v = 1 \/ v = 2
      OBVIOUS
    <2>5. \A v \in 1 .. 2 : gone'[v] <= now /\ (entry' \in {1, v} => gone'[v] = Never)
      BY <2>1, <2>2, <2>3, <2>4 DEF Never
    <2>6. Facts'
      BY <2>1, <2>3, <2>5 DEF Inv, Facts
    <2>7. \A v \in 1 .. 2 : gone'[v] = gone[v] \/ gone'[v] = now
      BY <2>2, <2>3, <2>4
    <2> QED
      BY <2>1, <2>6, <2>7, Withdraws
  <1>3. CASE Reissue
    <2>1. UNCHANGED <<now, published, retired, entry, gone, revoked, built, chain, caches, call>> /\ issued = 1 /\ issued' = 2
      BY <1>3 DEF Reissue
    <2>2. Builder'
      BY <2>1 DEF Inv, Builder, Fits, Listens, built, MtlsConfigured, Configured
    <2>3. UNCHANGED setup /\ (MtlsConfigured(oidc)' <=> MtlsConfigured(oidc)) /\ issued' >= issued
      BY <2>1 DEF built, MtlsConfigured, Configured
    <2> QED
      BY <2>1, <2>2, <2>3, StandsStill
  <1>4. CASE Tick
    <2>1. /\ now < MaxTime /\ now' = now + 1 /\ UNCHANGED <<world, chain, caches, call>>
          /\ \A c \in Call : call[c].pc \notin Local /\ (call[c].pc \in Timed => now - call[c].asked < Timeout)
      BY <1>4 DEF Tick
    <2>2. now \in Nat /\ MaxTime \in Nat /\ \A key \in Key : retired[key] \in Int
      BY Constants DEF Inv, Facts, Times, Never
    <2>3. now' \in Nat /\ now' <= MaxTime /\ now < now'
      BY <2>1, <2>2
    <2>4. Builder'
      BY <2>1 DEF Inv, Builder, Fits, Listens, world, built, MtlsConfigured, Configured
    <2>5. Facts'
      <3>1. \A key \in Key : retired[key] <= now'
        BY <2>2, <2>3 DEF Inv, Facts
      <3>2. \A v \in 1 .. 2 : gone[v] <= now'
        BY <2>2, <2>3 DEF Inv, Facts, Times, Never
      <3> QED
        BY <2>1, <2>3, <3>1, <3>2 DEF Inv, Facts, world
    <2>6. Cached'
      <3>1. jwks.at <= now' /\ principals.at <= now' /\ lease.at <= now'
        BY <2>2, <2>3 DEF Inv, Cached, Times, Never
      <3> QED
        BY <2>1, <3>1 DEF Inv, Cached, world, caches
    <2>7. ASSUME NEW d \in Call PROVE CallOK(call[d])' /\ call'[d] = call[d]
      <3>1. CallOK(call[d]) /\ call'[d] = call[d] /\ call[d].asked \in Nat /\ call[d].pc \notin Local
        BY <2>1 DEF Inv, CallRecord
      <3>2. Timely(call[d])'
        BY <2>1, <2>2, <2>3, <3>1, Constants DEF CallOK, Timely
      <3>3. Under(call[d])' /\ Keys(call[d])' /\ Identity(call[d])'
        <4>1. Under(call[d])' /\ Keys(call[d])'
          BY <2>1, <3>1 DEF CallOK, Under, Keys, world, built
        <4>2. Identity(call[d])'
          BY <2>1, <3>1 DEF CallOK, Identity, world, built, MtlsConfigured, Configured
        <4> QED
          BY <4>1, <4>2
      <3>4. Secrets(call[d])'
        BY <2>1, <3>1 DEF CallOK, Secrets, world, Local
      <3>5. Cause(call[d])'
        BY <2>1, <3>1 DEF CallOK, Cause, Passed, world
      <3>6. Listed(call[d])' /\ Outage(call[d])'
        BY <2>1, <3>1 DEF CallOK, Listed, Passed, Outage, Halts, world
      <3> QED
        BY <3>1, <3>2, <3>3, <3>4, <3>5, <3>6 DEF CallOK
    <2> QED
      BY <2>1, <2>3, <2>4, <2>5, <2>6, <2>7 DEF Inv, world, caches
  <1> QED
    BY <1>1, <1>2, <1>3, <1>4, RotateKeeps DEF World

LEMMA BuilderKeeps ==
  ASSUME Inv, Discovery \/ Configure \/ Negotiate \/ Serve \/ ReloadIdentity
  PROVE  Inv'
  <1>1. Builder'
    BY NextBuilder DEF Inv, Facts
  <1>2. UNCHANGED <<now, published, retired, entry, gone, revoked, issued, chain, caches, call>>
    BY DEF Discovery, Configure, Negotiate, Serve, ReloadIdentity, Becomes
  <1>3. issued' >= issued
    BY <1>2 DEF Inv, Builder
  <1>4. CASE ReloadIdentity
    <2>1. oidc' = Reload(oidc, issued, TRUE) /\ UNCHANGED setup
      BY <1>4 DEF ReloadIdentity
    <2>2. MtlsConfigured(oidc') <=> MtlsConfigured(oidc)
      BY <2>1, ReloadFits DEF Inv, Builder
    <2>3. MtlsConfigured(oidc)' <=> MtlsConfigured(oidc)
      BY <2>2 DEF MtlsConfigured, Configured
    <2> QED
      BY <1>1, <1>2, <1>3, <2>1, <2>3, StandsStill
  <1>5. CASE Discovery \/ Configure \/ Negotiate \/ Serve
    <2>1. setup.phase # "serving"
      BY <1>5 DEF Discovery, Configure, Negotiate, Serve
    <2>2. \A d \in Call : call[d].pc = "idle"
      BY <2>1 DEF Inv, CallOK, Under
    <2> QED
      BY <1>1, <1>2, <1>3, <2>2, StandsStill
  <1> QED
    BY <1>4, <1>5


-----------------------------------------------------------------------------
(* The theorems.                                                                                          *)

LEMMA InitInv == Init => Inv
  <1> SUFFICES ASSUME Init PROVE Inv
    OBVIOUS
  <1>1. Builder
    BY InitBuilder
  <1>2. /\ now = 0 /\ published = [k \in Kid |-> 1] /\ retired = [k \in Key |-> Never] /\ entry = 1
        /\ gone = [v \in 1 .. 2 |-> Never] /\ revoked = {} /\ chain \in Chains
        /\ jwks = [keys |-> {}, at |-> Never] /\ lock = None /\ principals = [version |-> 0, at |-> Never, took |-> 0]
        /\ lease = [since |-> Never, at |-> Never] /\ clients = {}
    BY DEF Init
  <1>3. Facts
    <2>1. published \in [Kid -> 1 .. MaxGen] /\ retired \in [Key -> Times] /\ gone \in [1 .. 2 -> Times]
      BY <1>2, Constants DEF Times
    <2>2. \A key \in Key : retired[key] = Never
      BY <1>2
    <2>3. \A v \in 1 .. 2 : gone[v] = Never
      BY <1>2
    <2> QED
      BY <1>2, <2>1, <2>2, <2>3 DEF Facts, Never
  <1>4. Cached
    <2>1. IsFiniteSet(clients) /\ Cardinality(clients) = 0
      BY <1>2, FS_EmptySet
    <2>2. jwks \in [keys : SUBSET Key, at : Times] /\ jwks.at <= now /\ jwks.keys = {}
      BY <1>2 DEF Times, Never
    <2>3. principals \in [version : 0 .. 2, at : Times, took : Nat] /\ principals.at = Never /\ principals.at <= now
      BY <1>2 DEF Times, Never
    <2>4. lease \in [since : Times, at : Times] /\ lease.at = Never /\ lease.at <= now
      BY <1>2 DEF Times, Never
    <2> QED
      BY <1>2, <2>1, <2>2, <2>3, <2>4, Constants DEF Cached
  <1> DEFINE t == [kind |-> "listed", key |-> None, claims |-> None]
             r == [pc |-> "idle", token |-> t, child |-> 1,
                   force |-> FALSE, sent |-> 0, retried |-> FALSE, asked |-> 0, got |-> 0, took |-> 0, keys |-> {}, since |-> Never,
                   err |-> None, good |-> TRUE, fault |-> FALSE, outage |-> 0]
  <1>5. call = [c \in Call |-> r]
    BY DEF Init
  <1>6. t \in Tokens
    BY DEF Tokens
  <1>7. t.kind = "listed"
    OBVIOUS
  <1> HIDE DEF t
  <1>8. r \in CallRecord
    BY <1>6 DEF CallRecord, Times
  <1>9. CallOK(r)
    <2>1. /\ r.pc = "idle" /\ r.token = t /\ r.child = 1 /\ ~r.force /\ ~r.retried /\ r.asked = 0 /\ ~r.fault /\ r.outage = 0
      OBVIOUS
    <2> HIDE DEF r
    <2>2. Under(r) /\ Timely(r) /\ Keys(r) /\ Secrets(r) /\ Identity(r)
      BY <1>2, <2>1 DEF Under, Timely, Keys, Secrets, Identity, OidcSteps, VaultSteps, Timed, Reading, Over
    <2>3. Cause(r)
      <3>1. Valid(r.token, published, revoked, entry)
        BY <1>7, <2>1 DEF Valid
      <3> QED
        BY <2>1, <3>1 DEF Cause
    <2>4. Listed(r) /\ Outage(r)
      BY <2>1 DEF Listed, Outage
    <2> QED
      BY <2>2, <2>3, <2>4 DEF CallOK
  <1>10. r.pc = "idle"
    OBVIOUS
  <1> HIDE DEF r
  <1>11. call \in [Call -> CallRecord] /\ \A c \in Call : call[c] = r
    BY <1>5, <1>8
  <1> QED
    BY <1>1, <1>2, <1>3, <1>4, <1>9, <1>10, <1>11, Constants DEF Inv

LEMMA NextInv == Inv /\ [Next]_vars => Inv'
  <1> SUFFICES ASSUME Inv, [Next]_vars PROVE Inv'
    OBVIOUS
  <1>1. CASE Discovery \/ Configure \/ Negotiate \/ Serve \/ ReloadIdentity
    BY <1>1, BuilderKeeps
  <1>2. CASE World
    BY <1>2, WorldKeeps
  <1>3. ASSUME NEW c \in Call, Begin(c) PROVE Inv'
    BY <1>3, BeginKeeps
  <1>4. ASSUME NEW c \in Call, Step(c) PROVE Inv'
    <2>1. CASE Try(c)
      BY <2>1, TryKeeps
    <2>2. CASE ReadCache(c) \/ LockCache(c)
      BY <2>2, ReadCacheKeeps, LockCacheKeeps
    <2>3. CASE JwksAnswered(c) \/ JwksArrives(c) \/ JwksFails(c)
      BY <2>3, JwksAnsweredKeeps, JwksArrivesKeeps, JwksFailsKeeps
    <2>4. CASE Introspect(c)
      BY <2>4, IntrospectKeeps
    <2>5. CASE CachedPrincipal(c) \/ TakeToken(c)
      BY <2>5, CachedPrincipalKeeps, TakeTokenKeeps
    <2>6. CASE LoginAnswered(c) \/ LoginArrives(c) \/ LoginFails(c)
      BY <2>6, LoginAnsweredKeeps, LoginArrivesKeeps, LoginFailsKeeps
    <2>7. CASE Client(c)
      BY <2>7, ClientKeeps
    <2> QED
      BY <1>4, <2>1, <2>2, <2>3, <2>4, <2>5, <2>6, <2>7 DEF Step
  <1>5. ASSUME NEW c \in Call, ReadEnds(c) PROVE Inv'
    BY <1>5, ReadFoundKeeps, ReadArrivesKeeps, ReadFailsKeeps DEF ReadEnds
  <1>6. CASE UNCHANGED vars
    <2>1. Builder'
      BY <1>6 DEF Inv, Builder, Fits, Listens, vars, world, built, MtlsConfigured, Configured
    <2>2. MtlsConfigured(oidc)' <=> MtlsConfigured(oidc)
      BY <1>6 DEF vars, world, built, MtlsConfigured, Configured
    <2>3. issued' >= issued
      BY <1>6 DEF vars, world, Inv, Builder
    <2> QED
      BY <1>6, <2>1, <2>2, <2>3, StandsStill DEF vars, world, built, caches
  <1> QED
    BY <1>1, <1>2, <1>3, <1>4, <1>5, <1>6 DEF Next

LEMMA SpecInv == Spec => []Inv
  BY InitInv, NextInv, PTL DEF Spec

(* Whatever the intervals, lifetimes and timeouts, and however calls, rotations and failures     *)
(* interleave, a signature, a principal or a Vault token is never used longer after it was          *)
(* withdrawn than the cache it came from allows, and the request that filled it took. A Vault token   *)
(* is judged when the read is sent, a JWKS request ends in its timeout; a read may take for ever        *)
(* (oidc.rs:1324, vault.rs:217-253, vault_token.rs:284).                                                 *)
THEOREM StaleBounded == Spec => []NothingStale
  <1>1. Inv => NothingStale
    <2> SUFFICES ASSUME Inv PROVE NothingStale
      OBVIOUS
    <2>1. TypeOK
      <3>1. now \in 0 .. MaxTime /\ lock \in Call \cup {None} /\ jwks.keys \subseteq Key /\ Cardinality(clients) <= ClientLimit
        BY Constants DEF Inv, Facts, Cached
      <3>2. \A c \in Call : /\ call[c].pc \in {"idle", "lock"} \cup Local \cup Timed \cup Reading \cup Over
                            /\ call[c].err \in {None, "transport", "limited", "invalid"}
                            /\ call[c].pc \in {"get", "got"} <=> lock = c
        BY DEF Inv, CallRecord
      <3>3. Configured(oidc) => oidc.cfg \in IntrospectionConfig
        BY ConfiguredIs DEF Inv, Builder, Fits
      <3> QED
        BY <3>1, <3>2, <3>3 DEF TypeOK
    <2>2. KeysFresh
      BY DEF Inv, CallOK, Keys, KeysFresh
    <2>3. PrincipalsFresh
      <3> SUFFICES ASSUME NEW c \in Call, call[c].pc = "accepted", call[c].token.kind = "vaulted", Child(c).kind = "vault"
                   PROVE  \/ gone[call[c].got] = Never
                          \/ call[c].asked - gone[call[c].got] < TTL + call[c].took \/ call[c].asked - gone[call[c].got] <= call[c].took
        BY DEF PrincipalsFresh
      <3> QED
        BY DEF Inv, CallOK, Secrets, Child
    <2>4. TokensLive
      BY DEF Inv, CallOK, Secrets, TokensLive, Reading
    <2> QED
      BY <2>1, <2>2, <2>3, <2>4 DEF NothingStale
  <1> QED
    BY <1>1, SpecInv, PTL

(* In every chain, with every policy, a call whose token is good all the while is refused by the  *)
(* child that reads it only after a fault, a listed token reaches its table unless a child before    *)
(* it may halt the chain, and an outage that halts the chain is what the caller is told                *)
(* (chained.rs:254-323).                                                                                *)
THEOREM RefusedForGoodReason == Spec => []RefusedRightly
  <1>1. Inv => RefusedRightly
    <2> SUFFICES ASSUME Inv PROVE RefusedRightly
      OBVIOUS
    <2>1. RefusedForCause
      <3> SUFFICES ASSUME NEW c \in Call, call[c].pc = "refused", call[c].good, ~call[c].fault, NEW n \in DOMAIN chain.children
                   PROVE  chain.children[n].kind # [jwt |-> "oidc", vaulted |-> "vault", listed |-> "static"][call[c].token.kind]
        BY DEF RefusedForCause
      <3>1. call[c].token \in Tokens /\ chain.children[n].kind # Reader(call[c].token.kind)
        BY DEF Inv, CallRecord, CallOK, Cause, Passed
      <3>2. [jwt |-> "oidc", vaulted |-> "vault", listed |-> "static"][call[c].token.kind] = Reader(call[c].token.kind)
        BY <3>1, ReaderIs
      <3> QED
        BY <3>1, <3>2
    <2>2. TailServes
      <3> SUFFICES ASSUME NEW c \in Call, call[c].pc = "refused", call[c].token.kind = "listed"
                   PROVE  \/ \A n \in DOMAIN chain.children : chain.children[n].kind # "static"
                          \/ \E n \in 1 .. call[c].child : Halts(chain.children[n])
        BY DEF TailServes
      <3>1. \/ \A n \in DOMAIN chain.children : chain.children[n].kind # "static"
            \/ call[c].child \in DOMAIN chain.children /\ Halts(chain.children[call[c].child])
        BY DEF Inv, CallOK, Listed, Passed
      <3>2. call[c].child \in DOMAIN chain.children => call[c].child \in 1 .. call[c].child
        BY ChainIs DEF Inv, Facts
      <3> QED
        BY <3>1, <3>2
    <2>3. OutageTold
      BY DEF Inv, CallOK, Outage, OutageTold
    <2> QED
      BY <2>1, <2>2, <2>3 DEF RefusedRightly
  <1> QED
    BY <1>1, SpecInv, PTL

(* Whatever calls built the resolver and in whatever order, and however often its identity is     *)
(* reloaded, a method that was negotiated is one that the issuer lists and the resolver can use,      *)
(* and the mTLS client trusts the roots it was given (oidc.rs:545-883).                                *)
THEOREM BuiltToWork == Spec => []BuiltRight
  <1>1. Inv => BuiltRight
    BY DEF Inv, Builder, Fits, Listens, BuiltRight, NegotiatedWorks, TrustKept
  <1> QED
    BY <1>1, SpecInv, PTL

-----------------------------------------------------------------------------
(* The handler. Its invariant.                                                        *)

Unwritten == \A k \in Frames : wire[k] = 0
FirstRounds == \A l \in Layers : offset[l] = 0
Second == IF body.stream /\ mode = "run" THEN 1 ELSE 0
Words == {"auth", "serving", "closing"} \cup Closed
ServeTyped ==
  /\ body \in [stream : BOOLEAN, leaf : Leaves]
  /\ at \in Words /\ mode \in {"none", "stream", "run"} /\ level \in 0 .. Leaf
  /\ phase \in {"idle", "leaf", "partial", "scored", "over"}
  /\ offset \in [Layers -> Nat] /\ (\A l \in Layers : offset[l] <= MaxDepth[l])
  /\ acc \in [Layers -> Nat] /\ out \in Nat /\ said \in 0 .. MaxText /\ turn \in 0 .. said
  /\ wire \in [Frames -> Nat] /\ runs \in Nat /\ begun \in BOOLEAN
  /\ Inner!StreamTypeOK

(* Who has control, and in which of the two ways the leaf runs.                        *)
Controlled ==
  /\ phase \in {"partial", "scored"} => level \in Layers /\ (mode = "stream" => begun)
  /\ phase = "partial" => mode = "stream"
  /\ at = "auth" => mode = "none" /\ runs = 0 /\ ~begun /\ FirstRounds /\ \A l \in Layers : acc[l] = 0
  /\ at = "serving" => mode \in {"stream", "run"}
  /\ mode = "stream" => body.stream
  /\ mode = "run" => ~begun
  /\ body.stream /\ mode = "run" => body.leaf = "foreign"
  /\ mode = "stream" /\ ~begun => runs <= 1

(* What is on the wire before the end, and at it.                                      *)
OneLast == wire.finish + wire.error <= 1 /\ (wire.finish + wire.error = 1 \/ phaseOf = "dropped")
Framed ==
  /\ at \in {"auth", "serving"} => wire.finish = 0 /\ wire.error = 0 /\ wire.done = 0
  /\ at \in {"auth", "serving"} /\ ~begun => Unwritten
  /\ at = "closing" => wire.done = 0 /\ OneLast
  /\ at = "closed" => wire.done = 1 /\ OneLast

(* How much of the texts on the wire is of the round under way.                        *)
Shares(n) == n <= wire.text /\ (FirstRounds => n = wire.text)

(* The last step's text is the run's if there was one step; and what a loop passes up was *)
(* shown, as the last step's text or as what a guard was content with.                     *)
Turns == (shownStep = -1 => said = 0) /\ (shownStep <= 0 => turn = said)
Told(n) == n <= wire.text /\ (FirstRounds /\ shownStep <= 0 => n = wire.text)
Loops == body.leaf = "loop"
Shown == mode = "stream" =>
  /\ at = "serving" => Shares(said) /\ (\A l \in Layers : Shares(acc[l])) /\ Turns
                        /\ (Loops /\ phase = "scored" => Told(out))
  /\ at = "closing" /\ wire.finish = 1 /\ Loops => Told(out)

(* The rounds of layer l, of all its runs, are h[l] + 1 at most.                       *)
Climbs(h, f) == \A l \in Layers : h[l] <= h[l - 1] * (MaxDepth[l] + 1) + f[l]
RunsCounted(h) ==
  /\ h[0] = 0 /\ Climbs(h, offset)
  /\ runs <= h[Len(MaxDepth)] + 1 + Second
RunsHeld == \E h \in [0 .. Len(MaxDepth) -> Nat] : RunsCounted(h)

ServeInv == ServeTyped /\ Controlled /\ Framed /\ Shown /\ RunsHeld

-----------------------------------------------------------------------------
LEMMA DepthIs ==
  /\ Len(MaxDepth) \in Nat /\ Layers = 1 .. Len(MaxDepth) /\ Leaf = Len(MaxDepth) + 1
  /\ \A l \in Layers : MaxDepth[l] \in Nat
  /\ MaxText \in Nat /\ MaxSteps \in Nat
  BY ServeAssumption DEF Layers, Leaf

LEMMA ShowIs ==
  ASSUME wire \in [Frames -> Nat], NEW ks, Show(ks)
  PROVE  wire' \in [Frames -> Nat] /\ \A k \in Frames : wire'[k] = IF k \in ks THEN wire[k] + 1 ELSE wire[k]
  BY DEF Show

LEMMA StreamOpens ==
  ASSUME phaseOf = "open", shownStep = -1, openCall = NoCall
  PROVE  Inner!StreamTypeOK
  <1>1. -1 \in -1 .. MaxSteps - 1
    BY DepthIs
  <1> QED
    BY <1>1 DEF Inner!StreamTypeOK

(* None of the rounds is counted yet.                                                  *)
LEMMA NoneCounted ==
  ASSUME NEW f, \A l \in Layers : f[l] = 0
  PROVE  \E h \in [0 .. Len(MaxDepth) -> Nat] : h[0] = 0 /\ h[Len(MaxDepth)] = 0 /\ Climbs(h, f)
  <1>1. PICK h : h = [l \in 0 .. Len(MaxDepth) |-> 0]
    OBVIOUS
  <1>2. h \in [0 .. Len(MaxDepth) -> Nat] /\ h[0] = 0 /\ h[Len(MaxDepth)] = 0
        /\ \A l \in Layers : h[l] = 0 /\ h[l - 1] = 0 /\ MaxDepth[l] \in Nat /\ f[l] = 0
    BY <1>1, DepthIs
  <1>3. ASSUME NEW l \in Layers PROVE h[l] <= h[l - 1] * (MaxDepth[l] + 1) + f[l]
    <2>1. PICK a, b, c, d \in Nat : a = h[l] /\ b = h[l - 1] /\ c = f[l] /\ d = MaxDepth[l]
                                     /\ a = 0 /\ b = 0 /\ c = 0
      BY <1>2
    <2>2. 0 * (d + 1) = 0
      OBVIOUS
    <2>3. a <= b * (d + 1) + c
      BY <2>1, <2>2
    <2> QED
      BY <2>1, <2>3
  <1> QED
    BY <1>2, <1>3 DEF Climbs

LEMMA ServeStarts == ServeInit => ServeInv
  <1> SUFFICES ASSUME ServeInit PROVE ServeInv
    OBVIOUS
  <1>1. ServeTyped
    <2>1. /\ body \in [stream : BOOLEAN, leaf : Leaves] /\ at \in Words
          /\ mode \in {"none", "stream", "run"} /\ phase \in {"idle", "leaf", "partial", "scored", "over"}
          /\ out \in Nat /\ runs \in Nat /\ begun \in BOOLEAN
      BY DEF ServeInit, Words
    <2>2. level \in 0 .. Leaf /\ said \in 0 .. MaxText /\ turn \in 0 .. said
      BY DepthIs DEF ServeInit
    <2>3. offset \in [Layers -> Nat] /\ acc \in [Layers -> Nat] /\ wire \in [Frames -> Nat]
      BY DEF ServeInit
    <2>4. \A l \in Layers : offset[l] <= MaxDepth[l]
      BY DepthIs DEF ServeInit
    <2>5. Inner!StreamTypeOK
      <3>1. phaseOf = "open" /\ shownStep = -1 /\ openCall = NoCall
        BY DEF ServeInit, Inner!StreamInit
      <3> QED
        BY <3>1, DepthIs, StreamOpens
    <2> QED
      BY <2>1, <2>2, <2>3, <2>4, <2>5 DEF ServeTyped
  <1>2. Controlled /\ Framed /\ Shown
    BY DEF ServeInit, Controlled, Framed, Shown, FirstRounds, Unwritten, Frames
  <1>3. RunsHeld
    <2>1. PICK h \in [0 .. Len(MaxDepth) -> Nat] : h[0] = 0 /\ h[Len(MaxDepth)] = 0 /\ Climbs(h, offset)
      BY NoneCounted DEF ServeInit
    <2>2. runs <= h[Len(MaxDepth)] + 1 + Second
      BY <2>1 DEF ServeInit, Second
    <2> QED
      BY <2>1, <2>2 DEF RunsHeld, RunsCounted
  <1> QED
    BY <1>1, <1>2, <1>3 DEF ServeInv

(* The runs: as they were, or none counted and one begun.                              *)
LEMMA RunsKept ==
  ASSUME ServeInv, UNCHANGED <<offset, runs, body>>, mode' = mode
  PROVE  RunsHeld'
  BY DEF ServeInv, RunsHeld, RunsCounted, Climbs, Second

LEMMA RunsAnew ==
  ASSUME ServeTyped, \A l \in Layers : offset'[l] = 0, runs' <= 1 + Second', runs' \in Nat
  PROVE  RunsHeld'
  <1>1. PICK h \in [0 .. Len(MaxDepth) -> Nat] : h[0] = 0 /\ h[Len(MaxDepth)] = 0 /\ Climbs(h, offset')
    BY NoneCounted
  <1>2. Second' \in Nat
    BY DEF Second
  <1>3. runs' <= h[Len(MaxDepth)] + 1 + Second'
    <2>1. PICK r, n, z \in Nat : r = runs' /\ n = Second' /\ z = h[Len(MaxDepth)] /\ z = 0
      BY <1>1, <1>2
    <2>2. r <= z + 1 + n
      BY <2>1
    <2> QED
      BY <2>1, <2>2
  <1> QED
    BY <1>1, <1>3 DEF RunsHeld, RunsCounted

(* An error on its way to the client.                                                  *)
LEMMA ErrsKeeps ==
  ASSUME ServeInv, at = "serving", Errs, UNCHANGED <<body, out, begun>>,
         mode = "stream" /\ ~begun => body.leaf = "foreign"
  PROVE  ServeInv'
  <1>1. /\ body \in [stream : BOOLEAN, leaf : Leaves] /\ mode \in {"stream", "run"} /\ begun \in BOOLEAN
        /\ offset \in [Layers -> Nat] /\ acc \in [Layers -> Nat] /\ wire \in [Frames -> Nat] /\ runs \in Nat
        /\ (mode = "stream" => body.stream) /\ (mode = "run" => ~begun)
        /\ wire.finish = 0 /\ wire.error = 0 /\ wire.done = 0 /\ (~begun => Unwritten)
        /\ (mode = "stream" /\ ~begun => runs <= 1) /\ Frames # {}
    BY DEF ServeInv, ServeTyped, Controlled, Framed, Frames
  <1>2. CASE mode = "stream" /\ ~begun
    <2>1. /\ mode' = "run" /\ level' = Leaf /\ phase' = "leaf" /\ said' = 0 /\ turn' = 0 /\ runs' = runs + 1
          /\ phaseOf' = "open" /\ shownStep' = -1 /\ openCall' = NoCall
          /\ offset' = [l \in Layers |-> 0] /\ acc' = [l \in Layers |-> 0] /\ UNCHANGED <<at, wire>>
      BY <1>2 DEF Errs, StartOver, StartLeaf
    <2>2. ServeTyped'
      BY <1>1, <2>1, DepthIs DEF ServeInv, ServeTyped, Inner!StreamTypeOK
    <2>3. Controlled' /\ Framed' /\ Shown'
      BY <1>1, <1>2, <2>1 DEF Controlled, Framed, Shown, Unwritten
    <2>4. RunsHeld'
      BY <1>1, <1>2, <2>1, RunsAnew DEF ServeInv, Second
    <2> QED
      BY <2>2, <2>3, <2>4 DEF ServeInv
  <1>3. CASE ~(mode = "stream" /\ ~begun) /\ body.stream
    <2>1. /\ Show({"error"}) /\ at' = "closing" /\ phase' = "over" /\ phaseOf' = "error"
          /\ UNCHANGED <<mode, level, offset, acc, said, turn, runs, shownStep, openCall>>
      BY <1>3 DEF Errs
    <2>2. wire' \in [Frames -> Nat] /\ wire'.error = 1 /\ wire'.finish = 0 /\ wire'.done = 0
      BY <1>1, <2>1, ShowIs DEF Frames
    <2>3. ServeTyped'
      BY <2>1, <2>2 DEF ServeInv, ServeTyped, Inner!StreamTypeOK, Words
    <2>4. Controlled'
      BY <2>1 DEF ServeInv, Controlled
    <2>5. Framed' /\ Shown'
      BY <2>1, <2>2 DEF Framed, OneLast, Shown
    <2>6. RunsHeld'
      BY <2>1, RunsKept
    <2> QED
      BY <2>3, <2>4, <2>5, <2>6 DEF ServeInv
  <1>4. CASE ~(mode = "stream" /\ ~begun) /\ ~body.stream
    <2>1. /\ UNCHANGED wire /\ at' \in {"403", "402", "500"} /\ phase' = "over" /\ phaseOf' = "error"
          /\ UNCHANGED <<mode, level, offset, acc, said, turn, runs, shownStep, openCall>>
      BY <1>4 DEF Errs
    <2>3. ServeTyped'
      BY <2>1 DEF ServeInv, ServeTyped, Inner!StreamTypeOK, Words, Closed
    <2>4. Controlled'
      BY <2>1 DEF ServeInv, Controlled
    <2>5. Framed' /\ Shown'
      BY <2>1 DEF Framed, Shown
    <2>6. RunsHeld'
      BY <2>1, RunsKept
    <2> QED
      BY <2>3, <2>4, <2>5, <2>6 DEF ServeInv
  <1> QED
    BY <1>2, <1>3, <1>4

LEMMA StreamKept ==
  ASSUME Inner!StreamTypeOK, phaseOf' \in {"open", "final", "error", "dropped"}, UNCHANGED <<shownStep, openCall>>
  PROVE  Inner!StreamTypeOK'
  BY DEF Inner!StreamTypeOK

(* The answer on its way to the client.                                                *)
LEMMA AnsweredKeeps ==
  ASSUME ServeInv, at = "serving", NEW text \in Nat, NEW frames \in {{}, {"extension"}}, Answered(text, frames),
         UNCHANGED <<body, mode, offset, acc, said, turn, runs, shownStep, openCall>>, out' = text,
         phaseOf' \in {"open", "final", "error", "dropped"}, begun' \in BOOLEAN,
         mode = "stream" => begun' /\ (Loops => Told(text)), mode = "run" => begun' = begun
  PROVE  ServeInv'
  <1>1. /\ body \in [stream : BOOLEAN, leaf : Leaves] /\ mode \in {"stream", "run"}
        /\ wire \in [Frames -> Nat] /\ wire.finish = 0 /\ wire.error = 0 /\ wire.done = 0
        /\ phase' = "over" /\ level' = 0
    BY DEF ServeInv, ServeTyped, Controlled, Framed, Answered
  <1>2. RunsHeld'
    BY RunsKept
  <1>3. Controlled'
    <2>1. mode' = mode /\ body' = body /\ runs' = runs /\ at' # "auth"
      BY DEF Answered
    <2> QED
      BY <1>1, <2>1 DEF ServeInv, Controlled
  <1>4. Inner!StreamTypeOK'
    BY StreamKept DEF ServeInv, ServeTyped
  <1>5. level' \in 0 .. Leaf
    BY <1>1, DepthIs
  <1>6. CASE ~body.stream
    <2>1. at' = "200" /\ wire' = wire
      BY <1>6 DEF Answered
    <2>2. ServeTyped'
      BY <1>1, <1>4, <1>5, <2>1 DEF ServeInv, ServeTyped, Words, Closed
    <2>3. Framed' /\ Shown'
      BY <2>1 DEF Framed, Shown
    <2> QED
      BY <1>2, <1>3, <2>2, <2>3 DEF ServeInv
  <1>7. CASE body.stream
    <2>1. PICK ks : ks = frames \union {"finish"} \union (IF mode = "run" /\ text > 0 THEN {"text"} ELSE {})
      OBVIOUS
    <2>2. at' = "closing" /\ Show(ks)
      BY <1>7, <2>1 DEF Answered
    <2>3. "finish" \in ks /\ "error" \notin ks /\ "done" \notin ks /\ (mode = "stream" => "text" \notin ks)
      BY <2>1
    <2>4. /\ wire' \in [Frames -> Nat] /\ wire'.finish = 1 /\ wire'.error = 0 /\ wire'.done = 0
          /\ mode = "stream" => wire'.text = wire.text
      BY <1>1, <2>2, <2>3, ShowIs DEF Frames
    <2>5. ServeTyped'
      BY <1>1, <1>4, <1>5, <2>2, <2>4 DEF ServeInv, ServeTyped, Words
    <2>6. Framed'
      BY <2>2, <2>4 DEF Framed, OneLast
    <2>7. Shown'
      BY <2>2, <2>4 DEF Shown, Told, FirstRounds, Loops
    <2> QED
      BY <1>2, <1>3, <2>5, <2>6, <2>7 DEF ServeInv
  <1> QED
    BY <1>6, <1>7

(* The answer on its way to the layer above.                                           *)
LEMMA PassedUpKeeps ==
  ASSUME ServeInv, at = "serving", NEW text \in Nat, level' \in Layers, phase' = "scored", at' = at, out' = text,
         UNCHANGED <<body, mode, offset, acc, said, turn, runs, shownStep, openCall>>,
         phaseOf' \in {"open", "final", "error", "dropped"}, begun' \in BOOLEAN,
         mode = "stream" => begun' /\ (Loops => Told(text)), mode = "run" => begun' = begun /\ wire' = wire,
         wire' = wire \/ Show({"extension"})
  PROVE  ServeInv'
  <1>1. mode \in {"stream", "run"} /\ wire \in [Frames -> Nat]
    BY DEF ServeInv, ServeTyped, Controlled
  <1>2. RunsHeld'
    BY RunsKept
  <1>3. Inner!StreamTypeOK'
    BY StreamKept DEF ServeInv, ServeTyped
  <1>4. /\ wire' \in [Frames -> Nat] /\ wire'.finish = wire.finish /\ wire'.error = wire.error
        /\ wire'.done = wire.done /\ wire'.text = wire.text
    BY <1>1, ShowIs DEF Frames
  <1>5. level' \in 0 .. Leaf
    BY DepthIs
  <1>6. ServeTyped'
    BY <1>1, <1>3, <1>4, <1>5 DEF ServeInv, ServeTyped
  <1>7. Controlled'
    BY <1>1 DEF ServeInv, Controlled
  <1>8. Framed'
    BY <1>1, <1>4 DEF ServeInv, Framed, Unwritten
  <1>9. Shown'
    BY <1>4 DEF ServeInv, Shown, Shares, FirstRounds, Turns, Told, Loops
  <1> QED
    BY <1>2, <1>6, <1>7, <1>8, <1>9 DEF ServeInv

LEMMA HandedKeeps ==
  ASSUME ServeInv, at = "serving", NEW text \in Nat, Handed(text), out' = text,
         UNCHANGED <<body, mode, offset, acc, said, turn, runs, shownStep, openCall>>,
         phaseOf' \in {"open", "final", "error", "dropped"}, begun' \in BOOLEAN,
         mode = "stream" => begun' /\ (Loops => Told(text)), mode = "run" => begun' = begun
  PROVE  ServeInv'
  <1>1. CASE Layers = {}
    BY <1>1, AnsweredKeeps DEF Handed
  <1>2. CASE Layers # {}
    <2>1. level' = Leaf - 1 /\ phase' = "scored" /\ at' = at /\ wire' = wire
      BY <1>2 DEF Handed
    <2>2. level' \in Layers
      BY <1>2, <2>1, DepthIs
    <2> QED
      BY <2>1, <2>2, PassedUpKeeps
  <1> QED
    BY <1>1, <1>2

LEMMA AcceptKeeps ==
  ASSUME ServeInv, at = "serving", phase \in {"partial", "scored"}, NEW l \in Layers, NEW text \in Nat,
         Accept(l, text), UNCHANGED body, mode = "stream" /\ Loops => Told(text)
  PROVE  ServeInv'
  <1>1. /\ out' = text /\ UNCHANGED <<mode, offset, acc, said, turn, runs, begun, phaseOf, shownStep, openCall>>
    BY DEF Accept, leafStream
  <1>2. /\ mode \in {"stream", "run"} /\ begun \in BOOLEAN /\ (mode = "stream" => begun) /\ wire \in [Frames -> Nat]
        /\ phaseOf \in {"open", "final", "error", "dropped"}
    BY DEF ServeInv, ServeTyped, Controlled, Inner!StreamTypeOK
  <1>3. CASE l = 1
    <2>1. Answered(text, RoundEnds) /\ RoundEnds \in {{}, {"extension"}}
      BY <1>3 DEF Accept, RoundEnds
    <2> QED
      BY <1>1, <1>2, <2>1, AnsweredKeeps
  <1>4. CASE l # 1
    <2>1. level' = l - 1 /\ phase' = "scored" /\ at' = at /\ Show(RoundEnds)
      BY <1>4 DEF Accept
    <2>2. level' \in Layers
      BY <1>4, <2>1, DepthIs
    <2>3. (mode = "run" => wire' = wire) /\ (wire' = wire \/ Show({"extension"}))
      BY <1>2, <2>1 DEF RoundEnds, Show
    <2> QED
      BY <1>1, <1>2, <2>1, <2>2, <2>3, PassedUpKeeps
  <1> QED
    BY <1>3, <1>4

(* A round that is rejected is one more of its layer, and lets those inside start anew.  *)
LEMMA OneRoundMore ==
  ASSUME NEW a \in Nat, NEW b \in Nat, NEW c \in Nat, NEW d \in Nat, a <= b * (d + 1) + c, c <= d
  PROVE  a + 1 <= (b + 1) * (d + 1)
  <1>1. (b + 1) * (d + 1) = b * (d + 1) + (d + 1)
    OBVIOUS
  <1>2. b * (d + 1) \in Nat
    OBVIOUS
  <1> QED
    BY <1>1, <1>2

LEMMA RejectCounts ==
  ASSUME ServeInv, level \in Layers, Reject, UNCHANGED body
  PROVE  RunsHeld'
  <1>1. PICK h \in [0 .. Len(MaxDepth) -> Nat] : RunsCounted(h)
    BY DEF ServeInv, RunsHeld
  <1> DEFINE g == [j \in 0 .. Len(MaxDepth) |-> IF j < level THEN h[j] ELSE h[j] + 1]
  <1>2. /\ level \in 1 .. Len(MaxDepth) /\ level \in Nat /\ offset \in [Layers -> Nat] /\ runs \in Nat
        /\ \A l \in Layers : offset[l] <= MaxDepth[l] /\ MaxDepth[l] \in Nat
    BY DepthIs DEF ServeInv, ServeTyped
  <1>3. g \in [0 .. Len(MaxDepth) -> Nat] /\ g[0] = h[0] /\ g[Len(MaxDepth)] = h[Len(MaxDepth)] + 1
    BY <1>2, DepthIs
  <1>4. ASSUME NEW l \in Layers PROVE g[l] <= g[l - 1] * (MaxDepth[l] + 1) + offset'[l]
    <2>0. h[l] \in Nat /\ h[l - 1] \in Nat /\ offset[l] \in Nat /\ MaxDepth[l] \in Nat
      <3>1. l \in 0 .. Len(MaxDepth) /\ l - 1 \in 0 .. Len(MaxDepth)
        BY DepthIs
      <3>2. h[l] \in Nat /\ h[l - 1] \in Nat
        BY <3>1
      <3>3. offset[l] \in Nat /\ MaxDepth[l] \in Nat
        BY <1>2
      <3> QED
        BY <3>2, <3>3
    <2>1. PICK a, b, c, d \in Nat : a = h[l] /\ b = h[l - 1] /\ c = offset[l] /\ d = MaxDepth[l]
      BY <2>0
    <2>2. a <= b * (d + 1) + c /\ c <= d
      BY <1>1, <1>2, <2>1 DEF RunsCounted, Climbs
    <2>3. l \in 1 .. Len(MaxDepth) /\ l \in 0 .. Len(MaxDepth) /\ l - 1 \in 0 .. Len(MaxDepth)
      BY DepthIs
    <2>4. offset'[l] = IF l < level THEN offset[l] ELSE IF l = level THEN offset[l] + 1 ELSE 0
      BY DEF Reject
    <2>5. CASE l < level
      <3>1. g[l] = a /\ g[l - 1] = b /\ offset'[l] = c
        BY <1>2, <2>1, <2>3, <2>4, <2>5
      <3> QED
        BY <2>1, <2>2, <3>1
    <2>6. CASE l = level
      <3>1. g[l] = a + 1 /\ g[l - 1] = b /\ offset'[l] = c + 1
        BY <1>2, <2>1, <2>3, <2>4, <2>6
      <3>2. PICK x \in Nat : x = b * (d + 1)
        OBVIOUS
      <3>3. a + 1 <= b * (d + 1) + (c + 1)
        BY <2>2, <3>2
      <3> QED
        BY <2>1, <3>1, <3>3
    <2>7. CASE l > level
      <3>1. g[l] = a + 1 /\ g[l - 1] = b + 1 /\ offset'[l] = 0
        BY <1>2, <2>1, <2>3, <2>4, <2>7
      <3>2. a + 1 <= (b + 1) * (d + 1)
        BY <2>2, OneRoundMore
      <3>3. PICK x \in Nat : x = (b + 1) * (d + 1)
        OBVIOUS
      <3>4. a + 1 <= (b + 1) * (d + 1) + 0
        BY <3>2, <3>3
      <3> QED
        BY <2>1, <3>1, <3>4
    <2> QED
      BY <1>2, <2>3, <2>5, <2>6, <2>7
  <1>5. runs' <= g[Len(MaxDepth)] + 1 + Second'
    <2>1. runs' = runs + 1 /\ Second' = Second /\ Second \in Nat
      BY DEF Reject, StartLeaf, Second
    <2>0. h[Len(MaxDepth)] \in Nat
      BY DepthIs
    <2>2. PICK r, n, z \in Nat : r = runs /\ n = Second /\ z = h[Len(MaxDepth)]
      BY <1>2, <2>0, <2>1
    <2>3. r <= z + 1 + n
      BY <1>1, <2>2 DEF RunsCounted
    <2>4. r + 1 <= (z + 1) + 1 + n
      BY <2>3
    <2> QED
      BY <1>3, <2>1, <2>2, <2>4
  <1>6. g[0] = 0
    BY <1>1, <1>3 DEF RunsCounted
  <1> HIDE DEF g
  <1> QED
    BY <1>3, <1>4, <1>5, <1>6 DEF RunsHeld, RunsCounted, Climbs

LEMMA RejectKeeps ==
  ASSUME ServeInv, at = "serving", phase = "scored", ~AtCap, Reject, UNCHANGED body
  PROVE  ServeInv'
  <1>1. /\ level \in Layers /\ mode \in {"stream", "run"} /\ begun \in BOOLEAN /\ (mode = "stream" => begun)
        /\ wire \in [Frames -> Nat] /\ offset \in [Layers -> Nat] /\ acc \in [Layers -> Nat] /\ runs \in Nat
        /\ \A l \in Layers : offset[l] <= MaxDepth[l]
    BY DEF ServeInv, ServeTyped, Controlled
  <1>2. RunsHeld'
    BY <1>1, RejectCounts
  <1>3. /\ level' = Leaf /\ phase' = "leaf" /\ said' = 0 /\ turn' = 0 /\ runs' = runs + 1
        /\ phaseOf' = "open" /\ shownStep' = -1 /\ openCall' = NoCall
        /\ UNCHANGED <<at, mode, out, begun>> /\ Show(RoundEnds)
    BY DEF Reject, StartLeaf
  <1>4. /\ wire' \in [Frames -> Nat] /\ wire'.finish = wire.finish /\ wire'.error = wire.error
        /\ wire'.done = wire.done /\ wire'.text = wire.text /\ (mode = "run" => wire' = wire)
    <2>1. RoundEnds \in {{}, {"extension"}} /\ (mode = "run" => RoundEnds = {})
      BY DEF RoundEnds
    <2>2. \A k \in {"finish", "error", "done", "text"} : k \notin RoundEnds /\ k \in Frames
      BY <2>1 DEF Frames
    <2>3. wire' \in [Frames -> Nat] /\ \A k \in {"finish", "error", "done", "text"} : wire'[k] = wire[k]
      BY <1>1, <1>3, <2>2, ShowIs
    <2>4. mode = "run" => wire' = wire
      BY <1>1, <1>3, <2>1 DEF Show
    <2> QED
      BY <2>3, <2>4
  <1>5. /\ offset' = [l \in Layers |-> IF l < level THEN offset[l] ELSE IF l = level THEN offset[l] + 1 ELSE 0]
        /\ acc' = [l \in Layers |-> IF l < level THEN acc[l] ELSE 0]
    BY DEF Reject
  <1>6. offset' \in [Layers -> Nat] /\ (\A l \in Layers : offset'[l] <= MaxDepth[l]) /\ offset'[level] # 0
    <2>1. offset' \in [Layers -> Nat]
      BY <1>1, <1>5
    <2>2. offset[level] + 1 <= MaxDepth[level]
      BY <1>1, DepthIs DEF AtCap
    <2>3. \A l \in Layers : offset'[l] <= MaxDepth[l]
      BY <1>1, <1>5, <2>2, DepthIs
    <2>4. offset'[level] = offset[level] + 1
      <3>1. PICK k \in Layers : k = level
        BY <1>1
      <3>2. ~(k < k)
        BY <3>1, DepthIs
      <3>3. offset'[k] = offset[k] + 1
        BY <1>5, <3>1, <3>2
      <3> QED
        BY <3>1, <3>3
    <2> QED
      BY <1>1, <2>1, <2>3, <2>4
  <1>7. acc' \in [Layers -> Nat] /\ \A l \in Layers : acc'[l] = acc[l] \/ acc'[l] = 0
    BY <1>1, <1>5
  <1>8. ServeTyped'
    <2>1. level' \in 0 .. Leaf /\ said' \in 0 .. MaxText /\ turn' \in 0 .. said' /\ runs' \in Nat
      BY <1>1, <1>3, DepthIs
    <2>2. Inner!StreamTypeOK'
      <3>1. -1 \in -1 .. MaxSteps - 1
        BY DepthIs
      <3> QED
        BY <1>3, <3>1 DEF Inner!StreamTypeOK
    <2> QED
      BY <1>3, <1>4, <1>6, <1>7, <2>1, <2>2 DEF ServeInv, ServeTyped
  <1>9. Controlled'
    BY <1>1, <1>3 DEF ServeInv, Controlled
  <1>10. Framed'
    BY <1>1, <1>3, <1>4 DEF ServeInv, Framed, Unwritten
  <1>11. Shown'
    <2>1. ~FirstRounds'
      BY <1>1, <1>6 DEF FirstRounds
    <2>2. at' = "serving" /\ phase' # "scored" /\ said' = 0 /\ mode' = mode
      BY <1>3
    <2>3. mode = "stream" => 0 <= wire'.text /\ \A l \in Layers : acc'[l] <= wire'.text
      BY <1>4, <1>7 DEF ServeInv, Shown, Shares, Frames
    <2> QED
      BY <1>3, <2>1, <2>2, <2>3 DEF Shown, Shares, Turns
  <1> QED
    BY <1>2, <1>8, <1>9, <1>10, <1>11 DEF ServeInv

-----------------------------------------------------------------------------
(* One action at a time.                                                               *)
LEMMA AuthenticateKeeps == ServeInv /\ Authenticate => ServeInv'
  <1> SUFFICES ASSUME ServeInv, Authenticate PROVE ServeInv'
    OBVIOUS
  <1>1. /\ at = "auth" /\ UNCHANGED <<body, offset, acc, out, wire, asked, begun>>
        /\ body \in [stream : BOOLEAN, leaf : Leaves] /\ mode = "none" /\ runs = 0 /\ ~begun /\ begun \in BOOLEAN
        /\ FirstRounds /\ (\A l \in Layers : acc[l] = 0) /\ Unwritten
        /\ wire \in [Frames -> Nat] /\ offset \in [Layers -> Nat] /\ acc \in [Layers -> Nat]
    BY DEF Authenticate, ServeInv, ServeTyped, Controlled, Framed
  <1>2. CASE at' = "401" /\ UNCHANGED <<mode, level, phase, said, turn, runs, leafStream>>
    <2>1. UNCHANGED <<phaseOf, shownStep, openCall>>
      BY <1>2 DEF leafStream
    <2>2. ServeTyped'
      BY <1>1, <1>2, <2>1 DEF ServeInv, ServeTyped, Words, Closed, Inner!StreamTypeOK
    <2>3. Controlled' /\ Framed' /\ Shown'
      BY <1>1, <1>2, <2>1 DEF ServeInv, Controlled, Framed, Shown
    <2>4. RunsHeld'
      BY <1>1, <1>2, RunsKept
    <2> QED
      BY <2>2, <2>3, <2>4 DEF ServeInv
  <1>3. CASE at' = "serving" /\ mode' = (IF body.stream THEN "stream" ELSE "run") /\ StartLeaf
    <2>1. /\ level' = Leaf /\ phase' = "leaf" /\ said' = 0 /\ turn' = 0 /\ runs' = 1
          /\ phaseOf' = "open" /\ shownStep' = -1 /\ openCall' = NoCall
      BY <1>1, <1>3 DEF StartLeaf
    <2>2. /\ mode' \in {"stream", "run"} /\ (mode' = "stream" => body'.stream) /\ (mode' = "run" => ~body'.stream)
          /\ at' = "serving"
      BY <1>1, <1>3
    <2>3. ServeTyped'
      <3>1. Leaf \in 0 .. Leaf /\ 0 \in 0 .. MaxText /\ 0 \in 0 .. 0 /\ -1 \in -1 .. MaxSteps - 1
        BY DepthIs
      <3>2. Inner!StreamTypeOK'
        BY <2>1, <3>1 DEF Inner!StreamTypeOK
      <3> QED
        BY <1>1, <2>1, <2>2, <3>1, <3>2 DEF ServeInv, ServeTyped, Words
    <2>4. Controlled'
      BY <1>1, <2>1, <2>2 DEF Controlled
    <2>5. Framed'
      BY <1>1, <2>1, <2>2 DEF Framed, Unwritten, Frames
    <2>6. Shown'
      <3>1. wire'.text = 0 /\ said' = 0 /\ (\A l \in Layers : acc'[l] = 0) /\ phase' = "leaf"
        BY <1>1, <2>1 DEF Unwritten, Frames
      <3> QED
        BY <2>1, <2>2, <3>1 DEF Shown, Shares, Turns
    <2>7. RunsHeld'
      <3>1. \A l \in Layers : offset'[l] = 0
        BY <1>1 DEF FirstRounds
      <3>2. runs' \in Nat /\ runs' <= 1 + Second'
        BY <2>1 DEF Second
      <3> QED
        BY <3>1, <3>2, RunsAnew DEF ServeInv
    <2> QED
      BY <2>3, <2>4, <2>5, <2>6, <2>7 DEF ServeInv
  <1> QED
    BY <1>2, <1>3 DEF Authenticate

LEMMA CloseKeeps == ServeInv /\ Close => ServeInv'
  <1> SUFFICES ASSUME ServeInv, Close PROVE ServeInv'
    OBVIOUS
  <1>1. /\ at = "closing" /\ at' = "closed" /\ Show({"done"}) /\ wire \in [Frames -> Nat]
        /\ UNCHANGED <<body, mode, level, phase, offset, acc, out, said, turn, runs, begun, phaseOf, shownStep, openCall>>
    BY DEF Close, leafStream, ServeInv, ServeTyped
  <1>2. wire' \in [Frames -> Nat] /\ wire'.done = wire.done + 1 /\ wire'.finish = wire.finish /\ wire'.error = wire.error
    BY <1>1, ShowIs DEF Frames
  <1>3. ServeTyped'
    BY <1>1, <1>2 DEF ServeInv, ServeTyped, Words, Closed, Inner!StreamTypeOK
  <1>4. Controlled' /\ Shown'
    BY <1>1 DEF ServeInv, Controlled, Shown, Loops
  <1>5. Framed'
    BY <1>1, <1>2 DEF ServeInv, Framed, OneLast
  <1>6. RunsHeld'
    BY <1>1, RunsKept
  <1> QED
    BY <1>3, <1>4, <1>5, <1>6 DEF ServeInv

LEMMA DisconnectKeeps == ServeInv /\ Disconnect => ServeInv'
  <1> SUFFICES ASSUME ServeInv, Disconnect PROVE ServeInv'
    OBVIOUS
  <1>1. /\ at' = "gone"
        /\ UNCHANGED <<body, mode, level, phase, offset, acc, out, said, turn, wire, runs, begun, phaseOf, shownStep, openCall>>
    BY DEF Disconnect, leafStream
  <1>2. ServeTyped'
    BY <1>1 DEF ServeInv, ServeTyped, Words, Closed, Inner!StreamTypeOK
  <1>3. Controlled' /\ Shown' /\ Framed'
    BY <1>1 DEF ServeInv, Controlled, Shown, Framed
  <1>4. RunsHeld'
    BY <1>1, RunsKept
  <1> QED
    BY <1>2, <1>3, <1>4 DEF ServeInv

LEMMA LeafReturnsKeeps == ServeInv /\ LeafReturns => ServeInv'
  <1> SUFFICES ASSUME ServeInv, LeafReturns PROVE ServeInv'
    OBVIOUS
  <1>1. at = "serving" /\ mode = "run" /\ UNCHANGED <<body, asked, begun>> /\ begun \in BOOLEAN
    BY DEF LeafReturns, LeafHas, ServeInv, ServeTyped
  <1>2. CASE Errs /\ UNCHANGED out
    BY <1>1, <1>2, ErrsKeeps
  <1>3. ASSUME NEW n \in 0 .. MaxText, out' = n, Handed(n), phaseOf' = "final",
               UNCHANGED <<mode, offset, acc, said, turn, runs, shownStep, openCall>>
        PROVE ServeInv'
    <2>1. n \in Nat
      BY DepthIs
    <2> QED
      BY <1>1, <1>3, <2>1, HandedKeeps
  <1> QED
    BY <1>2, <1>3 DEF LeafReturns

LEMMA LeafStepKeeps == ServeInv /\ LeafStep => ServeInv'
  <1> SUFFICES ASSUME ServeInv, LeafStep PROVE ServeInv'
    OBVIOUS
  <1>1. /\ at = "serving" /\ mode = "stream" /\ phase = "leaf" /\ begun' = TRUE /\ Inner!StepStart
        /\ UNCHANGED <<body, at, mode, level, phase, offset, acc, out, said, wire, asked, runs>> /\ turn' = 0
    BY DEF LeafStep, Streaming, LeafHas
  <1>2. Inner!StreamTypeOK'
    BY <1>1, DepthIs DEF ServeInv, ServeTyped, Inner!StreamTypeOK, Inner!StepStart
  <1>3. ServeTyped'
    BY <1>1, <1>2 DEF ServeInv, ServeTyped
  <1>4. Controlled' /\ Framed'
    BY <1>1 DEF ServeInv, Controlled, Framed
  <1>5. Shown'
    <2>1. Shares(said)' /\ \A l \in Layers : Shares(acc[l])'
      BY <1>1 DEF ServeInv, Shown, Shares, FirstRounds
    <2>2. shownStep \in Int /\ shownStep >= -1 /\ shownStep' = shownStep + 1
      BY <1>1, DepthIs DEF ServeInv, ServeTyped, Inner!StreamTypeOK, Inner!StepStart
    <2>3. shownStep' <= 0 => said = 0
      BY <1>1, <2>2 DEF ServeInv, Shown, Turns
    <2>4. Turns'
      BY <1>1, <2>2, <2>3 DEF Turns
    <2> QED
      BY <1>1, <2>1, <2>4 DEF Shown
  <1>6. RunsHeld'
    BY <1>1, RunsKept
  <1> QED
    BY <1>3, <1>4, <1>5, <1>6 DEF ServeInv

LEMMA LeafToolKeeps == ServeInv /\ LeafTool => ServeInv'
  <1> SUFFICES ASSUME ServeInv, LeafTool PROVE ServeInv'
    OBVIOUS
  <1>1. /\ at = "serving" /\ mode = "stream" /\ phase = "leaf" /\ begun' = TRUE /\ wire \in [Frames -> Nat]
        /\ UNCHANGED <<body, at, mode, level, phase, offset, acc, out, said, turn, asked, runs>>
    BY DEF LeafTool, Streaming, LeafHas, ServeInv, ServeTyped
  <1>2. Inner!StreamTypeOK' /\ \E ks \in {{"tool", "extension"}, {"extension"}} : Show(ks)
    <2>1. ASSUME NEW id \in CallIds, Inner!ToolCallStart(id), Show({"tool", "extension"})
          PROVE Inner!StreamTypeOK' /\ \E ks \in {{"tool", "extension"}, {"extension"}} : Show(ks)
      <3>1. Inner!StreamTypeOK'
        BY <2>1 DEF ServeInv, ServeTyped, Inner!StreamTypeOK, Inner!ToolCallStart
      <3> QED
        BY <2>1, <3>1
    <2>2. ASSUME Inner!ToolCallResult, Show({"extension"})
          PROVE Inner!StreamTypeOK' /\ \E ks \in {{"tool", "extension"}, {"extension"}} : Show(ks)
      <3>1. Inner!StreamTypeOK'
        BY <2>2 DEF ServeInv, ServeTyped, Inner!StreamTypeOK, Inner!ToolCallResult
      <3> QED
        BY <2>2, <3>1
    <2> QED
      BY <2>1, <2>2 DEF LeafTool
  <1>3. /\ wire' \in [Frames -> Nat] /\ wire'.finish = wire.finish /\ wire'.error = wire.error
        /\ wire'.done = wire.done /\ wire'.text = wire.text
    BY <1>1, <1>2, ShowIs DEF Frames
  <1>4. ServeTyped'
    BY <1>1, <1>2, <1>3 DEF ServeInv, ServeTyped
  <1>5. Controlled' /\ Framed'
    BY <1>1, <1>3 DEF ServeInv, Controlled, Framed
  <1>7. Shown'
    <2>1. shownStep' = shownStep
      BY DEF LeafTool, Inner!ToolCallStart, Inner!ToolCallResult
    <2> QED
      BY <1>1, <1>3, <2>1 DEF ServeInv, Shown, Shares, FirstRounds, Turns
  <1>6. RunsHeld'
    BY <1>1, RunsKept
  <1> QED
    BY <1>4, <1>5, <1>6, <1>7 DEF ServeInv

LEMMA LeafTextKeeps == ServeInv /\ LeafText => ServeInv'
  <1> SUFFICES ASSUME ServeInv, LeafText PROVE ServeInv'
    OBVIOUS
  <1>1. /\ at = "serving" /\ mode = "stream" /\ phase = "leaf" /\ begun' = TRUE /\ wire \in [Frames -> Nat]
        /\ said < MaxText /\ said' = said + 1 /\ Show({"text"}) /\ acc' = [l \in Layers |-> acc[l] + 1]
        /\ acc \in [Layers -> Nat] /\ said \in 0 .. MaxText /\ turn \in 0 .. said /\ turn' = turn + 1
        /\ shownStep \in Int /\ shownStep >= 0
        /\ UNCHANGED <<body, at, mode, offset, out, asked, runs, phaseOf, shownStep, openCall>>
    BY DepthIs DEF LeafText, Streaming, LeafHas, leafStream, ServeInv, ServeTyped, Inner!StreamTypeOK
  <1>2. \/ level' = level /\ phase' = "leaf"
        \/ level' \in Layers /\ phase' = "partial"
    <2>1. Layers # {} => 1 \in Layers
      BY DepthIs
    <2> QED
      BY <1>1, <2>1 DEF LeafText
  <1>3. /\ wire' \in [Frames -> Nat] /\ wire'.finish = wire.finish /\ wire'.error = wire.error
        /\ wire'.done = wire.done /\ wire'.text = wire.text + 1 /\ wire.text \in Nat
    BY <1>1, ShowIs DEF Frames
  <1>4. acc' \in [Layers -> Nat] /\ said' \in 0 .. MaxText /\ turn' \in 0 .. said' /\ level' \in 0 .. Leaf
    BY <1>1, <1>2, DepthIs DEF ServeInv, ServeTyped
  <1>5. ServeTyped'
    BY <1>1, <1>2, <1>3, <1>4 DEF ServeInv, ServeTyped, Inner!StreamTypeOK
  <1>6. Controlled'
    BY <1>1, <1>2 DEF ServeInv, Controlled
  <1>7. Framed'
    BY <1>1, <1>3 DEF ServeInv, Framed
  <1>8. Shown'
    <2>1. Shares(said) /\ \A l \in Layers : Shares(acc[l])
      BY <1>1 DEF ServeInv, Shown
    <2>2. Shares(said)'
      BY <1>1, <1>3, <2>1 DEF Shares, FirstRounds
    <2>3. ASSUME NEW l \in Layers PROVE Shares(acc[l])'
      <3>1. acc'[l] = acc[l] + 1 /\ acc[l] \in Nat
        BY <1>1
      <3> QED
        BY <1>1, <1>3, <2>1, <3>1 DEF Shares, FirstRounds
    <2>4. Turns'
      BY <1>1 DEF ServeInv, Shown, Turns
    <2> QED
      BY <1>1, <1>2, <2>2, <2>3, <2>4 DEF Shown
  <1>9. RunsHeld'
    BY <1>1, RunsKept
  <1> QED
    BY <1>5, <1>6, <1>7, <1>8, <1>9 DEF ServeInv

LEMMA LeafFinalKeeps == ServeInv /\ LeafFinal => ServeInv'
  <1> SUFFICES ASSUME ServeInv, LeafFinal PROVE ServeInv'
    OBVIOUS
  <1>1. /\ at = "serving" /\ mode = "stream" /\ begun' = TRUE /\ phaseOf' = "final"
        /\ turn \in Nat /\ said \in Nat /\ turn <= said /\ wire.text \in Nat
        /\ UNCHANGED <<body, mode, offset, acc, said, turn, asked, runs, shownStep, openCall>>
    BY DepthIs DEF LeafFinal, Streaming, LeafHas, ServeInv, ServeTyped, Inner!Final, Frames
  <1>2. PICK n \in Nat : out' = n /\ Handed(n) /\ (Loops => n = turn)
    BY <1>1, DepthIs DEF LeafFinal, Loops
  <1>3. Shares(said) /\ Turns
    BY <1>1 DEF ServeInv, Shown
  <1>4. Loops => Told(n)
    BY <1>1, <1>2, <1>3 DEF Shares, Turns, Told
  <1> QED
    BY <1>1, <1>2, <1>4, HandedKeeps

LEMMA LeafFailsKeeps == ServeInv /\ LeafFails => ServeInv'
  BY ErrsKeeps DEF LeafFails, Streaming, LeafHas

LEMMA LeafVanishesKeeps == ServeInv /\ LeafVanishes => ServeInv'
  <1> SUFFICES ASSUME ServeInv, LeafVanishes PROVE ServeInv'
    OBVIOUS
  <1>1. at = "serving" /\ mode = "stream" /\ body.leaf = "foreign" /\ UNCHANGED <<body, out, asked, begun>>
    BY DEF LeafVanishes, Streaming, LeafHas
  <1>2. CASE Layers # {}
    BY <1>1, <1>2, ErrsKeeps DEF LeafVanishes
  <1>3. CASE Layers = {}
    <2>1. /\ at' = "closing" /\ phase' = "over" /\ phaseOf' = "dropped"
          /\ UNCHANGED <<mode, level, offset, acc, said, turn, wire, runs, shownStep, openCall>>
      BY <1>3 DEF LeafVanishes
    <2>2. ServeTyped'
      BY <1>1, <2>1 DEF ServeInv, ServeTyped, Words, Inner!StreamTypeOK
    <2>3. Controlled' /\ Framed' /\ Shown'
      BY <1>1, <2>1 DEF ServeInv, Controlled, Framed, OneLast, Shown
    <2>4. RunsHeld'
      BY <1>1, <2>1, RunsKept
    <2> QED
      BY <2>2, <2>3, <2>4 DEF ServeInv
  <1> QED
    BY <1>2, <1>3

ReadsOn ==
  /\ IF level + 1 = Leaf THEN level' = Leaf /\ phase' = "leaf" ELSE level' = level + 1 /\ UNCHANGED phase
  /\ UNCHANGED <<at, mode, offset, acc, out, said, turn, wire, runs, begun, leafStream>>

LEMMA JudgePartialKeeps == ServeInv /\ JudgePartial => ServeInv'
  <1> SUFFICES ASSUME ServeInv, JudgePartial PROVE ServeInv'
    OBVIOUS
  <1>1. /\ at = "serving" /\ phase = "partial" /\ UNCHANGED body /\ level \in Layers /\ mode = "stream" /\ begun
        /\ begun \in BOOLEAN /\ acc[level] \in Nat /\ Shares(acc[level])
    BY DEF JudgePartial, ServeInv, ServeTyped, Controlled, Shown
  <1>6. Told(acc[level])
    BY <1>1 DEF Shares, Told
  <1>2. \/ Errs /\ UNCHANGED <<out, begun>>
        \/ Accept(level, acc[level])
        \/ ReadsOn
    BY DEF JudgePartial, ReadsOn
  <1>3. CASE Errs /\ UNCHANGED <<out, begun>>
    BY <1>1, <1>3, ErrsKeeps
  <1>4. CASE Accept(level, acc[level])
    BY <1>1, <1>4, <1>6, AcceptKeeps
  <1>5. CASE ReadsOn
    <2>1. UNCHANGED <<at, mode, offset, acc, out, said, turn, wire, runs, begun, phaseOf, shownStep, openCall>>
      BY <1>5 DEF ReadsOn, leafStream
    <2>2. \/ level' = Leaf /\ phase' = "leaf"
          \/ level' \in Layers /\ phase' = "partial"
      BY <1>1, <1>5, DepthIs DEF ReadsOn
    <2>3. level' \in 0 .. Leaf
      BY <2>2, DepthIs
    <2>4. ServeTyped'
      BY <1>1, <2>1, <2>2, <2>3 DEF ServeInv, ServeTyped, Inner!StreamTypeOK
    <2>5. Controlled'
      BY <1>1, <2>1, <2>2 DEF ServeInv, Controlled
    <2>6. Framed' /\ Shown'
      BY <1>1, <2>1, <2>2 DEF ServeInv, Framed, Shown, Shares, FirstRounds, Turns
    <2>7. RunsHeld'
      BY <1>1, <2>1, RunsKept
    <2> QED
      BY <2>4, <2>5, <2>6, <2>7 DEF ServeInv
  <1> QED
    BY <1>2, <1>3, <1>4, <1>5

LEMMA JudgeAnswerKeeps == ServeInv /\ JudgeAnswer => ServeInv'
  <1> SUFFICES ASSUME ServeInv, JudgeAnswer PROVE ServeInv'
    OBVIOUS
  <1>1. /\ at = "serving" /\ phase = "scored" /\ UNCHANGED <<body, asked>> /\ level \in Layers /\ out \in Nat
        /\ (mode = "stream" => begun) /\ (mode = "stream" /\ Loops => Told(out))
    BY DEF JudgeAnswer, ServeInv, ServeTyped, Controlled, Shown
  <1>2. (Errs /\ UNCHANGED <<out, begun>>) \/ Accept(level, out) \/ (~AtCap /\ Reject)
    BY DEF JudgeAnswer
  <1>3. CASE Errs /\ UNCHANGED <<out, begun>>
    BY <1>1, <1>3, ErrsKeeps
  <1>4. CASE Accept(level, out)
    BY <1>1, <1>4, AcceptKeeps
  <1>5. CASE ~AtCap /\ Reject
    BY <1>1, <1>5, RejectKeeps
  <1> QED
    BY <1>2, <1>3, <1>4, <1>5

LEMMA ServeIdles == ServeInv /\ UNCHANGED serveVars => ServeInv'
  <1> SUFFICES ASSUME ServeInv, UNCHANGED serveVars PROVE ServeInv'
    OBVIOUS
  <1>1. UNCHANGED <<body, at, mode, level, phase, offset, acc, out, said, turn, wire, runs, begun, phaseOf, shownStep, openCall>>
    BY DEF serveVars, leafStream
  <1>2. ServeTyped'
    BY <1>1 DEF ServeInv, ServeTyped, Inner!StreamTypeOK
  <1>3. Controlled' /\ Framed' /\ Shown'
    BY <1>1 DEF ServeInv, Controlled, Framed, OneLast, Shown, Shares, FirstRounds, Unwritten, Turns, Told, Loops
  <1>4. RunsHeld'
    BY <1>1, RunsKept
  <1> QED
    BY <1>2, <1>3, <1>4 DEF ServeInv

LEMMA ServeStays == ServeInv /\ [Progress \/ Disconnect]_serveVars => ServeInv'
  BY AuthenticateKeeps, CloseKeeps, DisconnectKeeps, LeafReturnsKeeps, LeafStepKeeps, LeafToolKeeps, LeafTextKeeps,
     LeafFinalKeeps, LeafFailsKeeps, LeafVanishesKeeps, JudgePartialKeeps, JudgeAnswerKeeps, ServeIdles
  DEF Progress, Caller

-----------------------------------------------------------------------------
(* What the rounds add up to: Product, layer by layer. A first layer at which it failed   *)
(* would be the one above a layer at which it holds.                                     *)
LEMMA FirstOf ==
  ASSUME NEW S \in SUBSET Nat, S # {}
  PROVE  \E n \in S : \A m \in S : n <= m
  <1> DEFINE Less == OpToRel(<, Nat)
  <1>1. IsWellFoundedOn(Less, Nat)
    BY NatLessThanWellFounded
  <1>2. \A a, b \in Nat : a < b => <<a, b>> \in Less
    BY DEF OpToRel
  <1> HIDE DEF Less
  <1>3. PICK n \in S : \A m \in S : ~(<<m, n>> \in Less)
    BY <1>1, WFMin
  <1>4. \A m \in S : ~(m < n)
    BY <1>2, <1>3
  <1>5. \A a, b \in Nat : ~(a < b) => b <= a
    OBVIOUS
  <1> QED
    BY <1>3, <1>4, <1>5

Multiplied(p, n) ==
  /\ p \in [0 .. n -> Nat] /\ p[0] = 1
  /\ \A l \in 1 .. n : p[l] = p[l - 1] * (MaxDepth[l] + 1)

LEMMA MultipliedOn ==
  ASSUME NEW n \in Nat, n # 0, n <= Len(MaxDepth), NEW q, Multiplied(q, n - 1)
  PROVE  \E p : Multiplied(p, n)
  <1>1. /\ n - 1 \in Nat /\ n \in Layers /\ n - 1 \in 0 .. n - 1 /\ n \in 0 .. n /\ 0 \in 0 .. n /\ 0 \in 0 .. n - 1
    BY DepthIs
  <1>2. PICK d, b \in Nat : d = MaxDepth[n] /\ b = q[n - 1]
    BY <1>1, DepthIs DEF Multiplied
  <1>3. PICK v \in Nat : v = b * (d + 1)
    OBVIOUS
  <1>4. PICK p : p = [l \in 0 .. n |-> IF l = n THEN v ELSE q[l]]
    OBVIOUS
  <1>5. \A l \in 0 .. n : l # n => l \in 0 .. n - 1 /\ p[l] = q[l] /\ q[l] \in Nat
    BY <1>4 DEF Multiplied
  <1>6. p \in [0 .. n -> Nat] /\ p[n] = v
    BY <1>1, <1>4, <1>5
  <1>7. p[0] = 1
    BY <1>1, <1>5 DEF Multiplied
  <1>8. ASSUME NEW l \in 1 .. n PROVE p[l] = p[l - 1] * (MaxDepth[l] + 1)
    <2>1. l \in 0 .. n /\ l - 1 \in 0 .. n /\ l - 1 # n
      OBVIOUS
    <2>2. p[l - 1] = q[l - 1]
      BY <1>5, <2>1
    <2>3. CASE l = n
      BY <1>2, <1>3, <1>6, <2>2, <2>3
    <2>4. CASE l # n
      <3>1. l \in 1 .. n - 1
        BY <2>4
      <3> QED
        BY <1>5, <2>1, <2>2, <2>4, <3>1 DEF Multiplied
    <2> QED
      BY <2>3, <2>4
  <1> QED
    BY <1>6, <1>7, <1>8 DEF Multiplied

LEMMA MultipliedExists == \E p : Multiplied(p, Len(MaxDepth))
  <1> DEFINE S == {n \in 0 .. Len(MaxDepth) : ~\E p : Multiplied(p, n)}
  <1> SUFFICES ASSUME S # {} PROVE FALSE
    BY DepthIs
  <1>1. S \in SUBSET Nat
    BY DepthIs
  <1>2. PICK n \in S : \A m \in S : n <= m
    BY <1>1, FirstOf
  <1>3. n \in Nat /\ n <= Len(MaxDepth) /\ ~\E p : Multiplied(p, n)
    BY <1>2, DepthIs
  <1>4. n # 0
    <2>1. PICK p : p = [l \in 0 .. 0 |-> 1]
      OBVIOUS
    <2>2. Multiplied(p, 0)
      BY <2>1 DEF Multiplied
    <2> QED
      BY <1>3, <2>2
  <1>5. n - 1 \in 0 .. Len(MaxDepth) /\ ~(n <= n - 1)
    BY <1>3, <1>4, DepthIs
  <1>6. n - 1 \notin S
    BY <1>2, <1>5
  <1>7. PICK q : Multiplied(q, n - 1)
    BY <1>5, <1>6
  <1> QED
    BY <1>3, <1>4, <1>7, MultipliedOn

LEMMA ProductIs == Multiplied(Product, Len(MaxDepth))
  <1>1. PICK p : Multiplied(p, Len(MaxDepth))
    BY MultipliedExists
  <1>2. p = [l \in 0 .. Len(MaxDepth) |-> IF l = 0 THEN 1 ELSE p[l - 1] * (MaxDepth[l] + 1)]
    <2>1. \A l \in 0 .. Len(MaxDepth) : p[l] = IF l = 0 THEN 1 ELSE p[l - 1] * (MaxDepth[l] + 1)
      <3> TAKE l \in 0 .. Len(MaxDepth)
      <3>1. l # 0 => l \in 1 .. Len(MaxDepth)
        BY DepthIs
      <3> QED
        BY <1>1, <3>1 DEF Multiplied
    <2>2. p = [l \in 0 .. Len(MaxDepth) |-> p[l]]
      BY <1>1 DEF Multiplied
    <2> QED
      BY <2>1, <2>2
  <1>3. Product = [l \in 0 .. Len(MaxDepth) |-> IF l = 0 THEN 1 ELSE Product[l - 1] * (MaxDepth[l] + 1)]
    BY <1>2 DEF Product
  <1>4. \A l \in 0 .. Len(MaxDepth) : Product[l] = p[l]
    <2> DEFINE S == {l \in 0 .. Len(MaxDepth) : Product[l] # p[l]}
    <2> SUFFICES ASSUME S # {} PROVE FALSE
      OBVIOUS
    <2>1. S \in SUBSET Nat
      BY DepthIs
    <2>2. PICK l \in S : \A m \in S : l <= m
      BY <2>1, FirstOf
    <2>3. l \in 0 .. Len(MaxDepth) /\ Product[l] # p[l]
      BY <2>2
    <2>4. Product[l] = (IF l = 0 THEN 1 ELSE Product[l - 1] * (MaxDepth[l] + 1))
          /\ p[l] = (IF l = 0 THEN 1 ELSE p[l - 1] * (MaxDepth[l] + 1))
      BY <1>2, <1>3, <2>3
    <2>5. l # 0
      BY <2>3, <2>4
    <2>6. l - 1 \in 0 .. Len(MaxDepth) /\ ~(l <= l - 1)
      BY <2>3, <2>5, DepthIs
    <2>7. Product[l - 1] = p[l - 1]
      BY <2>2, <2>6
    <2> QED
      BY <2>3, <2>4, <2>7
  <1>5. Product = p
    BY <1>2, <1>3, <1>4
  <1> QED
    BY <1>1, <1>5

LEMMA TimesGrows ==
  ASSUME NEW x \in Nat, NEW y \in Nat, NEW d \in Nat, x <= y
  PROVE  x * (d + 1) <= y * (d + 1)
  <1>1. PICK k \in Nat : y = x + k
    <2>1. y - x \in Nat /\ y = x + (y - x)
      OBVIOUS
    <2> QED
      BY <2>1
  <1>2. (x + k) * (d + 1) = x * (d + 1) + k * (d + 1)
    OBVIOUS
  <1>3. k * (d + 1) \in Nat /\ x * (d + 1) \in Nat
    OBVIOUS
  <1> QED
    BY <1>1, <1>2, <1>3

LEMMA CountedInProduct ==
  ASSUME NEW h \in [0 .. Len(MaxDepth) -> Nat], h[0] = 0, Climbs(h, offset),
         \A l \in Layers : offset[l] \in Nat /\ offset[l] <= MaxDepth[l]
  PROVE  h[Len(MaxDepth)] + 1 <= Product[Len(MaxDepth)] /\ Product[Len(MaxDepth)] \in Nat
  <1> DEFINE S == {l \in 0 .. Len(MaxDepth) : ~(h[l] + 1 <= Product[l])}
  <1>1. Product \in [0 .. Len(MaxDepth) -> Nat] /\ Product[0] = 1
    BY ProductIs DEF Multiplied
  <1>2. Len(MaxDepth) \in 0 .. Len(MaxDepth)
    BY DepthIs
  <1> SUFFICES ASSUME S # {} PROVE FALSE
    BY <1>1, <1>2
  <1>3. S \in SUBSET Nat
    BY DepthIs
  <1>4. PICK l \in S : \A m \in S : l <= m
    BY <1>3, FirstOf
  <1>5. l \in 0 .. Len(MaxDepth) /\ ~(h[l] + 1 <= Product[l]) /\ l \in Nat
    BY <1>4, DepthIs
  <1>6. l # 0
    BY <1>1, <1>5
  <1>7. l - 1 \in 0 .. Len(MaxDepth) /\ ~(l <= l - 1) /\ l \in Layers /\ l \in 1 .. Len(MaxDepth)
    BY <1>5, <1>6, DepthIs
  <1>8. h[l - 1] + 1 <= Product[l - 1]
    BY <1>4, <1>7
  <1>9. h[l] \in Nat /\ h[l - 1] \in Nat /\ Product[l - 1] \in Nat /\ offset[l] \in Nat /\ MaxDepth[l] \in Nat
    BY <1>1, <1>5, <1>7, DepthIs
  <1>10. PICK a, b, c, d, y \in Nat : a = h[l] /\ b = h[l - 1] /\ c = offset[l] /\ d = MaxDepth[l] /\ y = Product[l - 1]
    BY <1>9
  <1>11. a <= b * (d + 1) + c /\ c <= d /\ b + 1 <= y
    BY <1>7, <1>8, <1>10 DEF Climbs
  <1>12. a + 1 <= (b + 1) * (d + 1)
    BY <1>11, OneRoundMore
  <1>13. (b + 1) * (d + 1) <= y * (d + 1)
    BY <1>11, TimesGrows
  <1>14. PICK u, v \in Nat : u = (b + 1) * (d + 1) /\ v = y * (d + 1)
    OBVIOUS
  <1>15. a + 1 <= y * (d + 1)
    BY <1>12, <1>13, <1>14
  <1>16. Product[l] = y * (d + 1)
    BY <1>7, <1>10, ProductIs DEF Multiplied
  <1> QED
    BY <1>5, <1>10, <1>15, <1>16

LEMMA InvSeesOnce == ServeInv => SeenOnce
  <1> SUFFICES ASSUME ServeInv PROVE SeenOnce
    OBVIOUS
  <1>1. ServeTypeOK
    <2>1. \A l \in Layers : offset[l] \in 0 .. MaxDepth[l]
      BY DepthIs DEF ServeInv, ServeTyped
    <2> QED
      BY <2>1 DEF ServeInv, ServeTyped, ServeTypeOK, Words
  <1>2. SecondRunHidden
    BY DEF ServeInv, Controlled, Framed, Unwritten, SecondRunHidden
  <1>3. AnswerShown
    BY DEF ServeInv, Shown, Told, Loops, FirstRounds, AnswerShown
  <1>4. RunsBounded
    <2>1. PICK h \in [0 .. Len(MaxDepth) -> Nat] : RunsCounted(h)
      BY DEF ServeInv, RunsHeld
    <2>2. \A l \in Layers : offset[l] \in Nat /\ offset[l] <= MaxDepth[l]
      BY DEF ServeInv, ServeTyped
    <2>3. h[Len(MaxDepth)] + 1 <= Product[Len(MaxDepth)] /\ Product[Len(MaxDepth)] \in Nat
      BY <2>1, <2>2, CountedInProduct DEF RunsCounted
    <2>4. h[Len(MaxDepth)] \in Nat /\ runs \in Nat /\ Second \in Nat
      BY DepthIs DEF ServeInv, ServeTyped, Second
    <2>5. PICK r, n, x, y \in Nat : r = runs /\ n = Second /\ x = h[Len(MaxDepth)] /\ y = Product[Len(MaxDepth)]
      BY <2>3, <2>4
    <2>6. r <= x + 1 + n /\ x + 1 <= y
      BY <2>1, <2>3, <2>5 DEF RunsCounted
    <2>7. r <= y + n
      BY <2>6
    <2>8. runs <= Product[Len(MaxDepth)] + Second
      BY <2>5, <2>7
    <2> QED
      BY <2>8 DEF RunsBounded, Second
  <1> QED
    BY <1>1, <1>2, <1>3, <1>4 DEF SeenOnce

(* The orchestrator inside a request runs no more often than the caps of the layers        *)
(* multiply to, and once more where a stream failed with its first item; that second run    *)
(* follows a stream of which nothing was shown, and never one of this project's own          *)
(* orchestrators; and around a loop the closing chunk comes for an answer that is on the wire *)
(* (routes.rs:114-131, self_caller.rs:157).                                                  *)
THEOREM RunsAreSeenOnce == ServeSpec => []SeenOnce
  <1>1. ServeSpec => []ServeInv
    BY ServeStarts, ServeStays, PTL DEF ServeSpec
  <1> QED
    BY <1>1, InvSeesOnce, PTL

StepEnds == wire.finish + wire.error > 0 => \A k \in Frames \ {"done"} : wire'[k] = wire[k]

LEMMA StepsEnd == ServeInv /\ [Progress \/ Disconnect]_serveVars => [StepEnds]_serveVars
  <1> SUFFICES ASSUME ServeInv, Progress \/ Disconnect, wire.finish + wire.error > 0
               PROVE  \A k \in Frames \ {"done"} : wire'[k] = wire[k]
    BY DEF StepEnds
  <1>1. wire \in [Frames -> Nat] /\ at \notin {"auth", "serving"}
    BY DEF ServeInv, ServeTyped, Framed
  <1>2. Close \/ Disconnect
    BY <1>1 DEF Progress, Caller, Authenticate, LeafReturns, LeafStep, LeafTool, LeafText, LeafFinal, LeafFails,
                LeafVanishes, JudgePartial, JudgeAnswer, Streaming, LeafHas
  <1>3. CASE Close
    BY <1>1, <1>3, ShowIs DEF Close
  <1>4. CASE Disconnect
    BY <1>4 DEF Disconnect
  <1> QED
    BY <1>2, <1>3, <1>4

(* A stream that is read to its end has one [DONE] and one closing chunk or error frame     *)
(* before it, except where a foreign orchestrator ended without a word; and after either     *)
(* frame nothing but [DONE] is written, whichever layer it came through                      *)
(* (routes.rs:137-187).                                                                     *)
THEOREM ResponsesEndOnce == ServeSpec => OneEnd
  <1>1. ServeSpec => []ServeInv
    BY ServeStarts, ServeStays, PTL DEF ServeSpec
  <1>2. ServeInv => EndsOnce
    BY DEF ServeInv, Framed, OneLast, EndsOnce
  <1>3. ServeSpec => [][StepEnds]_serveVars
    BY <1>1, StepsEnd, PTL DEF ServeSpec
  <1> QED
    BY <1>1, <1>2, <1>3, PTL DEF OneEnd, WireEnds, StepEnds
=============================================================================
