----------------------------- MODULE AuthChain -----------------------------
(* How tako-compat turns a bearer token into a principal: a ChainedAuthResolver *)
(* over an OIDC resolver with its JWKS cache and introspection, a Vault resolver *)
(* with its cache of principals, its lease and its clients, a JWT resolver with a  *)
(* fixed key, a static table, and resolvers of the application. The caches are      *)
(* shared by all calls. The OIDC resolver is first built, by any calls in any order. *)
(*                                                                                    *)
(* Signatures are abstracted to the key that made them. Local work takes no time.      *)
EXTENDS OidcBuilder

CONSTANTS
  Call,
  Kid, MaxGen, \* the issuer publishes a generation of keys under each key id
  Chains,      \* the chains configured: [wide, children], children of [kind, policy]
  Docs,        \* the discovery documents: [answered, sameIssuer, endpoint, methods]
  Served,      \* a bound: the OIDC resolvers that calls are made to, of all that are built
  Claims,      \* the claims of a token: [tenant, user]
  Interval,    \* refresh_interval of the JWKS
  TTL,         \* cache_ttl of principals
  Lease,       \* lease_duration of Vault tokens
  Timeout,     \* longest time of one HTTP request, of those that have any
  ClientLimit, \* CLIENT_CACHE_LIMIT
  MaxTime,     \* a bound on the clock
  None

Children == [kind : {"oidc", "vault", "fixed", "static", "other"},
             policy : {"inherit", "always", "transport", "infrastructure"}]
Key == Kid \X (1 .. MaxGen)
Tokens == [kind : {"jwt"}, key : Key, claims : Claims] \union [kind : {"vaulted", "listed"}, key : {None}, claims : {None}]

ASSUME ChainAssumption ==
  /\ Kid # {} /\ MaxGen \in Nat \ {0} /\ MaxTime \in Nat
  /\ Interval \in Nat /\ TTL \in Nat /\ Timeout \in Nat
  /\ Lease \in Nat \ {0} /\ ClientLimit \in Nat \ {0}
  /\ Chains \subseteq [wide : {"none", "transport", "infrastructure"}, children : Seq(Children)]
  /\ Docs \subseteq [answered : BOOLEAN, sameIssuer : BOOLEAN, endpoint : BOOLEAN, methods : SUBSET Listable]
  /\ None \notin Call

VARIABLES
  now, published, retired, \* the clock; the generation under each key id; when a key was withdrawn
  entry, gone,   \* the version of the Vault entry, 0 for none; when each was replaced
  revoked,       \* the issuer calls the tokens of these key ids inactive
  oidc, setup,   \* the OIDC resolver; whether it serves, and whether its method was negotiated last
  issued,        \* the identity that the issuer accepts, which the operator's files hold
  chain,
  jwks, lock,    \* OidcAuthResolver.cache: keys and fetched_at; who holds it for writing
  principals,    \* VaultAuthResolver.cache: version, time, and how long it was read, of the one token with an entry
  lease, clients,\* the CachedAuth of the token provider: when Vault made it and fetched_at; client_cache
  call           \* one record per call

built == <<oidc, setup>>
world == <<published, retired, entry, gone, revoked, issued, built>>
caches == <<jwks, lock, principals, lease, clients>>
vars == <<now, world, chain, caches, call>>

Never == -1
Child(c) == chain.children[call[c].child]
Local == {"try", "jwks", "vault", "lease", "client"}
Timed == {"get", "got", "introspect", "login", "loggedIn"}
Reading == {"read", "found"} \* by the VaultClient, which is built without a timeout
Over == {"accepted", "refused"}
Asks(kind) == \E n \in DOMAIN chain.children : chain.children[n].kind = kind

Init ==
  /\ now = 0 /\ published = [k \in Kid |-> 1] /\ retired = [k \in Key |-> Never]
  /\ entry = 1 /\ gone = [v \in 1 .. 2 |-> Never] /\ revoked = {}
  /\ chain \in Chains /\ issued = 1 /\ oidc = Broken
  /\ setup = [phase |-> IF Asks("oidc") THEN "new" ELSE "serving", negotiated |-> FALSE]
  /\ jwks = [keys |-> {}, at |-> Never] /\ lock = None
  /\ principals = [version |-> 0, at |-> Never, took |-> 0]
  /\ lease = [since |-> Never, at |-> Never] /\ clients = {}
  /\ call = [c \in Call |-> [pc |-> "idle", token |-> [kind |-> "listed", key |-> None, claims |-> None], child |-> 1,
                             force |-> FALSE, sent |-> 0, retried |-> FALSE, asked |-> 0, got |-> 0, took |-> 0, keys |-> {}, since |-> Never,
                             err |-> None, good |-> TRUE, fault |-> FALSE, outage |-> 0]]

-----------------------------------------------------------------------------
(* The chain: its builder, and how it tries its children. *)

NewChain == [wide |-> "none", children |-> <<>>]
ThenWithShortCircuit(ch, kind, policy) == [ch EXCEPT !.children = Append(@, [kind |-> kind, policy |-> policy])]
Then(ch, kind) == ThenWithShortCircuit(ch, kind, "inherit")
\* The last of these two calls counts.
OnTransportError(ch) == [ch EXCEPT !.wide = "transport"]
OnInfrastructureErrors(ch) == [ch EXCEPT !.wide = "infrastructure"]

(* Whether an error of this child halts the chain: by its own policy, or by the chain's.   *)
ShortCircuits(child, e) ==
  LET policy == IF child.policy = "inherit" THEN chain.wide ELSE child.policy
  IN CASE policy = "transport" -> e = "transport"
       [] policy = "infrastructure" -> e \in {"transport", "limited"}
       [] OTHER -> FALSE

(* What a call keeps of an error: the chain returns it, or goes on and may forget it.       *)
Failed(c, e, faulty) ==
  LET r == [call[c] EXCEPT !.err = e, !.force = FALSE, !.sent = 0, !.retried = FALSE,
                               !.fault = @ \/ faulty, !.outage = IF e = "transport" THEN call[c].child ELSE @]
  IN IF ShortCircuits(Child(c), e) \/ r.child = Len(chain.children)
     THEN [r EXCEPT !.pc = "refused"]
     ELSE [r EXCEPT !.pc = "try", !.child = @ + 1]
Fails(c, e, faulty) == call' = [call EXCEPT ![c] = Failed(c, e, faulty)]
Goes(c, pc) == call' = [call EXCEPT ![c].pc = pc]
Sends(c, pc) == call' = [call EXCEPT ![c].pc = pc, ![c].asked = now]

Valid(t, pub, dead, version) ==
  CASE t.kind = "jwt" -> pub[t.key[1]] = t.key[2] /\ t.key[1] \notin dead /\ HasPrincipal(t.claims)
    [] t.kind = "vaulted" -> version # 0
    [] OTHER -> TRUE

\* An issued token names a key that is, or was, published. Bounds: a JWT that no child of the
\* chain can read fares like a listed token and is left out; there is one call to an OIDC resolver
\* but to the one that introspects with a secret.
Begin(c) ==
  /\ call[c].pc = "idle" /\ setup.phase = "serving"
  /\ Asks("oidc") /\ oidc.cfg.method # "client_secret_basic" => \A d \in Call : call[d].pc = "idle"
  /\ \E t \in Tokens :
       /\ t.kind = "jwt" => t.key[2] <= published[t.key[1]] /\ (Asks("oidc") \/ Asks("fixed"))
       /\ call' = [call EXCEPT ![c].token = t, ![c].good = Valid(t, published, revoked, entry),
                               ![c].pc = IF chain.children = <<>> THEN "refused" ELSE "try",
                               ![c].err = IF chain.children = <<>> THEN "invalid" ELSE None]
  /\ UNCHANGED <<now, world, chain, caches>>

(* A static table answers at once and so does a JWT resolver, whose key is the first one     *)
(* and stays so; a resolver of the application answers as it likes.                            *)
SignedByFixedKey(t) == t.kind = "jwt" /\ t.key[2] = 1 /\ HasPrincipal(t.claims)
Try(c) ==
  /\ call[c].pc = "try"
  /\ CASE Child(c).kind = "oidc" -> Goes(c, "jwks")
       [] Child(c).kind = "vault" -> Goes(c, "vault")
       [] Child(c).kind = "fixed" ->
            IF SignedByFixedKey(call[c].token) THEN Goes(c, "accepted") ELSE Fails(c, "invalid", FALSE)
       [] Child(c).kind = "static" ->
            IF call[c].token.kind = "listed" THEN Goes(c, "accepted") ELSE Fails(c, "invalid", FALSE)
       [] OTHER -> \E e \in {"transport", "limited", "invalid"} : Fails(c, e, e # "invalid")
  /\ UNCHANGED <<now, world, chain, caches>>

-----------------------------------------------------------------------------
(* OIDC: the JWKS cache, read under the lock and refreshed while it is held for writing.     *)

FreshKeys == jwks.at # Never /\ now - jwks.at < Interval

(* validate_against(): an unknown key id and a signature that does not match are tried once   *)
(* more with keys fetched anew, any other error is final. The introspection that follows takes   *)
(* the mTLS client that is installed as it starts.                                                 *)
Snapshot == IF MtlsConfigured(oidc) THEN oidc.cfg.client.id ELSE 0
Validated(c, keys) ==
  IF call[c].token.kind # "jwt" THEN Failed(c, "invalid", FALSE)
  ELSE IF call[c].token.key \in keys
  THEN IF HasPrincipal(call[c].token.claims)
       THEN [call[c] EXCEPT !.pc = "introspect", !.asked = now, !.sent = Snapshot]
       ELSE Failed(c, "invalid", FALSE)
  ELSE IF call[c].force THEN Failed(c, "invalid", FALSE)
  ELSE [call[c] EXCEPT !.force = TRUE, !.pc = "lock"]

ReadCache(c) ==
  /\ call[c].pc = "jwks" /\ lock = None
  /\ IF FreshKeys THEN call' = [call EXCEPT ![c] = Validated(c, jwks.keys)] ELSE Goes(c, "lock")
  /\ UNCHANGED <<now, world, chain, caches>>

LockCache_ForceToo(c) ==  \* mutant: the second look at the cache does not ask for force
  /\ call[c].pc = "lock" /\ lock = None
  /\ IF FreshKeys
     THEN call' = [call EXCEPT ![c] = Validated(c, jwks.keys)] /\ UNCHANGED lock
     ELSE Sends(c, "get") /\ lock' = c
  /\ UNCHANGED <<now, world, chain, jwks, principals, lease, clients>>
LockCache(c) ==
  /\ call[c].pc = "lock" /\ lock = None
  /\ IF FreshKeys /\ ~call[c].force
     THEN call' = [call EXCEPT ![c] = Validated(c, jwks.keys)] /\ UNCHANGED lock
     ELSE Sends(c, "get") /\ lock' = c
  /\ UNCHANGED <<now, world, chain, jwks, principals, lease, clients>>

JwksAnswered(c) ==
  /\ call[c].pc = "get"
  /\ call' = [call EXCEPT ![c].pc = "got", ![c].keys = {<<k, published[k]>> : k \in Kid}]
  /\ UNCHANGED <<now, world, chain, caches>>

JwksArrives(c) ==
  /\ call[c].pc = "got"
  /\ jwks' = [keys |-> call[c].keys, at |-> now] /\ lock' = None
  /\ call' = [call EXCEPT ![c] = [Validated(c, call[c].keys) EXCEPT !.keys = {}]]
  /\ UNCHANGED <<now, world, chain, principals, lease, clients>>

JwksFails_ServesStale(c) ==  \* mutant: old keys are good enough when the issuer is away
  /\ call[c].pc \in {"get", "got"} /\ lock' = None
  /\ call' = [call EXCEPT ![c] = [Validated(c, jwks.keys) EXCEPT !.keys = {}]]
  /\ UNCHANGED <<now, world, chain, jwks, principals, lease, clients>>
JwksFails_KeepsLock(c) ==  \* mutant
  /\ call[c].pc \in {"get", "got"}
  /\ call' = [call EXCEPT ![c] = [Failed(c, "transport", TRUE) EXCEPT !.keys = {}]]
  /\ UNCHANGED <<now, world, chain, caches>>
(* No answer in time or an error status, or a body that does not decode: the cache stays.     *)
JwksFails(c) ==
  /\ call[c].pc \in {"get", "got"}
  /\ lock' = None
  /\ \E e \in {"transport", "invalid"} : call' = [call EXCEPT ![c] = [Failed(c, e, TRUE) EXCEPT !.keys = {}]]
  /\ UNCHANGED <<now, world, chain, jwks, principals, lease, clients>>

Accepted(c) == oidc.cfg.method \in Mtls => call[c].sent = issued
(* A transport error with an mTLS identity and a hook: the identity is reloaded, or that fails, *)
(* and the request is made once more.                                                             *)
Refreshes(c) ==
  /\ ShouldRetry(oidc) /\ ~call[c].retried
  /\ \E worked \in BOOLEAN :
       LET fresh == Reload(oidc, issued, worked)
       IN /\ oidc' = fresh
          /\ call' = [call EXCEPT ![c].retried = TRUE, ![c].asked = now, ![c].sent = fresh.cfg.client.id,
                                  ![c].fault = @ \/ ~worked \/ Accepted(c)]
  /\ UNCHANGED <<now, published, retired, entry, gone, revoked, issued, setup, chain, caches>>

(* introspect(): nothing to ask, no credential for the method, an answer as of now, another      *)
(* status, or no answer: the request was lost, or the issuer broke it off at the handshake.        *)
Introspect(c) ==
  /\ call[c].pc = "introspect"
  /\ \/ /\ ~Configured(oidc) /\ Goes(c, "accepted")
        /\ UNCHANGED <<now, world, chain, caches>>
     \/ /\ Configured(oidc) /\ ~Has(oidc.cfg, oidc.cfg.method) /\ Fails(c, "invalid", TRUE)
        /\ UNCHANGED <<now, world, chain, caches>>
     \/ /\ Configured(oidc) /\ Has(oidc.cfg, oidc.cfg.method) /\ Accepted(c)
        /\ \/ call[c].token.key[1] \in revoked /\ Fails(c, "invalid", FALSE)
           \/ call[c].token.key[1] \notin revoked /\ Goes(c, "accepted")
           \/ Fails(c, "invalid", TRUE)
        /\ UNCHANGED <<now, world, chain, caches>>
     \/ /\ Configured(oidc) /\ Has(oidc.cfg, oidc.cfg.method)
        /\ \/ Refreshes(c)
           \/ /\ ~ShouldRetry(oidc) \/ call[c].retried
              /\ Fails(c, "transport", Accepted(c) \/ ~ShouldRetry(oidc))
              /\ UNCHANGED <<now, world, chain, caches>>

-----------------------------------------------------------------------------
(* Vault: a cache of principals that were found, and a Vault token with a lease.                *)

CachedPrincipal(c) ==
  /\ call[c].pc = "vault"
  /\ IF call[c].token.kind = "vaulted" /\ principals.at # Never /\ now - principals.at < TTL
     THEN call' = [call EXCEPT ![c].pc = "accepted", ![c].got = principals.version, ![c].took = principals.took,
                               ![c].asked = now]
     ELSE Goes(c, "lease")
  /\ UNCHANGED <<now, world, chain, caches>>

(* is_fresh(): nine tenths of the lease, counted from the login's answer.                         *)
FreshLease == lease.at # Never /\ (now - lease.at) * 10 < Lease * 9

TakeToken(c) ==
  /\ call[c].pc = "lease"
  /\ IF FreshLease THEN call' = [call EXCEPT ![c].pc = "client", ![c].since = lease.since] ELSE Sends(c, "login")
  /\ UNCHANGED <<now, world, chain, caches>>

LoginAnswered(c) ==
  /\ call[c].pc = "login"
  /\ call' = [call EXCEPT ![c].pc = "loggedIn", ![c].since = now]
  /\ UNCHANGED <<now, world, chain, caches>>
\* Of two logins under way the one that arrives last is kept.
LoginArrives(c) ==
  /\ call[c].pc = "loggedIn"
  /\ lease' = [since |-> call[c].since, at |-> now] /\ Goes(c, "client")
  /\ UNCHANGED <<now, world, chain, jwks, lock, principals, clients>>
LoginFails(c) ==
  /\ call[c].pc \in {"login", "loggedIn"}
  /\ \E e \in {"transport", "invalid"} : Fails(c, e, TRUE)
  /\ UNCHANGED <<now, world, chain, caches>>

(* get_or_build_client(): any of the clients makes room for a new one.                             *)
Client(c) ==
  /\ call[c].pc = "client" /\ Sends(c, "read")
  /\ IF call[c].since \in clients \/ Cardinality(clients) < ClientLimit
     THEN clients' = clients \union {call[c].since}
     ELSE \E old \in clients : clients' = (clients \ {old}) \union {call[c].since}
  /\ UNCHANGED <<now, world, chain, jwks, lock, principals, lease>>

Expired(c) == now - call[c].since > Lease
ReadFound(c) ==
  /\ call[c].pc = "read" /\ call[c].token.kind = "vaulted" /\ entry # 0 /\ ~Expired(c)
  /\ call' = [call EXCEPT ![c].pc = "found", ![c].got = entry]
  /\ UNCHANGED <<now, world, chain, caches>>
ReadArrives(c) ==
  /\ call[c].pc = "found"
  /\ principals' = [version |-> call[c].got, at |-> now, took |-> now - call[c].asked]
  /\ call' = [call EXCEPT ![c].pc = "accepted", ![c].took = now - call[c].asked, ![c].asked = now]
  /\ UNCHANGED <<now, world, chain, jwks, lock, lease, clients>>
(* No entry, a Vault token that Vault no longer knows, a lost answer: all read as Invalid. What     *)
(* the cache holds stays.                                                                            *)
ReadFails(c) ==
  /\ call[c].pc \in {"read", "found"}
  /\ \/ /\ call[c].pc = "read" /\ (call[c].token.kind # "vaulted" \/ entry = 0 \/ Expired(c))
        /\ Fails(c, "invalid", Expired(c))
     \/ Fails(c, "invalid", TRUE)
  /\ UNCHANGED <<now, world, chain, caches>>

-----------------------------------------------------------------------------
(* Building the OIDC resolver. A call that fails takes the resolver with it. *)

Becomes(r, negotiated) ==
  /\ oidc' = r /\ setup' = [phase |-> IF r.ok THEN "building" ELSE "broken", negotiated |-> negotiated]
  /\ UNCHANGED <<now, published, retired, entry, gone, revoked, issued, chain, caches, call>>
Discovery ==
  /\ setup.phase = "new"
  /\ \E doc \in Docs, p \in BOOLEAN : Becomes(Discover(doc, p), FALSE)
SameMethod(r) == r.ok /\ Configured(oidc) /\ r.cfg.method = oidc.cfg.method
Configure ==
  /\ setup.phase = "building"
  /\ \E r \in Calls(oidc) : Becomes(r, setup.negotiated /\ SameMethod(r))
Negotiate ==
  /\ setup.phase = "building"
  /\ LET r == WithMethodFromDiscovery(oidc) IN Becomes(r, Configured(r))
Serve ==
  /\ setup.phase = "building" /\ oidc \in Served
  /\ setup' = [phase |-> "serving", negotiated |-> FALSE]
  /\ UNCHANGED <<now, published, retired, entry, gone, revoked, issued, oidc, chain, caches, call>>
\* A watcher or the operator reloads what the files hold.
ReloadIdentity ==
  /\ setup.phase = "serving" /\ Snapshot \notin {0, issued}
  /\ oidc' = Reload(oidc, issued, TRUE)
  /\ UNCHANGED <<now, published, retired, entry, gone, revoked, issued, setup, chain, caches, call>>

-----------------------------------------------------------------------------
(* The issuer, Vault's operator and the clock. *)

StillGood == call' = [c \in Call |-> [call[c] EXCEPT !.good = @ /\ Valid(call[c].token, published', revoked', entry')]]
Rotate(k) ==
  /\ published[k] < MaxGen
  /\ published' = [published EXCEPT ![k] = @ + 1]
  /\ retired' = [retired EXCEPT ![<<k, published[k]>>] = now]
  /\ UNCHANGED <<now, entry, gone, revoked, issued, built, chain, caches>> /\ StillGood
Revoke(k) ==
  /\ k \notin revoked /\ revoked' = revoked \union {k}
  /\ UNCHANGED <<now, published, retired, entry, gone, issued, built, chain, caches>> /\ StillGood
ChangeEntry ==
  /\ entry = 1 /\ entry' \in {0, 2} /\ gone' = [gone EXCEPT ![1] = now]
  /\ UNCHANGED <<now, published, retired, revoked, issued, built, chain, caches>> /\ StillGood
\* The identity in use is replaced by the operator, and no longer accepted.
Reissue ==
  /\ issued = 1 /\ issued' = 2
  /\ UNCHANGED <<now, published, retired, entry, gone, revoked, built, chain, caches, call>>
Tick ==
  /\ now < MaxTime /\ now' = now + 1
  /\ \A c \in Call : /\ call[c].pc \notin Local \union (IF lock = None THEN {"lock"} ELSE {})
                     /\ call[c].pc \in Timed => now - call[c].asked < Timeout
  /\ UNCHANGED <<world, chain, caches, call>>

Step(c) ==
  \/ Try(c) \/ ReadCache(c) \/ LockCache(c) \/ JwksAnswered(c) \/ JwksArrives(c) \/ JwksFails(c) \/ Introspect(c)
  \/ CachedPrincipal(c) \/ TakeToken(c) \/ LoginAnswered(c) \/ LoginArrives(c) \/ LoginFails(c) \/ Client(c)
ReadEnds(c) == ReadFound(c) \/ ReadArrives(c) \/ ReadFails(c)
\* Bound: nothing happens once all calls are over, nor where the chain does not ask.
World ==
  /\ setup.phase = "serving" /\ \E c \in Call : call[c].pc \notin Over
  /\ \/ Tick
     \/ Asks("vault") /\ ChangeEntry
     \/ Asks("oidc") /\ \E k \in Kid : Rotate(k) \/ Revoke(k)
     \/ MtlsConfigured(oidc) /\ Reissue
Next == Discovery \/ Configure \/ Negotiate \/ Serve \/ ReloadIdentity \/ World \/ \E c \in Call : Begin(c) \/ Step(c) \/ ReadEnds(c)
\* Nothing ends a read that Vault does not answer.
Spec == Init /\ [][Next]_vars /\ \A c \in Call : WF_vars(Step(c))

-----------------------------------------------------------------------------
(* Properties *)

TypeOK ==
  /\ now \in 0 .. MaxTime /\ lock \in Call \union {None}
  /\ jwks.keys \subseteq Key /\ Cardinality(clients) <= ClientLimit
  /\ \A c \in Call :
       /\ call[c].pc \in {"idle", "lock"} \union Local \union Timed \union Reading \union Over
       /\ call[c].err \in {None, "transport", "limited", "invalid"}
       /\ call[c].pc \in {"get", "got"} <=> lock = c
  /\ Configured(oidc) => oidc.cfg \in IntrospectionConfig

(* A signature is accepted by a key the issuer withdrew only for as long as its JWKS may be   *)
(* cached and was under way: failed and forced refreshes do not stretch it (oidc.rs:1322-1360). *)
KeysFresh == \A c \in Call :
  call[c].pc = "introspect" /\ ~call[c].retried /\ retired[call[c].token.key] # Never =>
    \/ call[c].asked - retired[call[c].token.key] < Interval + Timeout
    \/ call[c].asked - retired[call[c].token.key] <= Timeout

(* A principal is handed out for cache_ttl, and as long as the read took that brought it, after  *)
(* its entry changed, however many calls race on the cache, and however long that was              *)
(* (vault.rs:250-290).                                                                              *)
PrincipalsFresh == \A c \in Call :
  call[c].pc = "accepted" /\ call[c].token.kind = "vaulted" /\ Child(c).kind = "vault" =>
    \/ gone[call[c].got] = Never
    \/ call[c].asked - gone[call[c].got] < TTL + call[c].took
    \/ call[c].asked - gone[call[c].got] <= call[c].took

(* No read is sent with a Vault token older than nine tenths of its lease and the time of the    *)
(* login, although racing logins replace each other's (vault_token.rs:144-186, 302-306).          *)
TokensLive == \A c \in Call :
  call[c].pc \in Reading => (call[c].asked - call[c].since - Timeout) * 10 <= Lease * 9

(* A token that is good all the while is refused only after a fault: keys rotated under a cached *)
(* JWKS, racing refreshes, changed entries and an mTLS identity replaced under a request cost       *)
(* nobody his access (oidc.rs:1214-1240, 1639-1655).                                                  *)
RefusedForCause == \A c \in Call :
  call[c].pc = "refused" /\ call[c].good /\ ~call[c].fault =>
    \A n \in DOMAIN chain.children :
      chain.children[n].kind # [jwt |-> "oidc", vaulted |-> "vault", listed |-> "static"][call[c].token.kind]

(* A method that was negotiated stays one that the issuer lists and that the resolver has the     *)
(* credential for, whatever is called after it and in whatever order (oidc.rs:614-675).             *)
NegotiatedWorks ==
  setup.negotiated =>
    /\ Has(oidc.cfg, oidc.cfg.method)
    /\ oidc.cfg.method \in (IF oidc.methods = Unlisted THEN {"client_secret_basic"} ELSE oidc.methods)

(* The mTLS client trusts the roots its builder was given, through every builder call after it     *)
(* and every reload, by a watcher or before a retry (oidc.rs:924-945).                               *)
TrustKept == MtlsConfigured(oidc) => oidc.cfg.client.roots = oidc.cfg.roots

(* A listed token is served whatever becomes of the resolvers before the table, unless one of     *)
(* them may halt the chain (chained.rs:23-24, 82-86).                                               *)
Halts(child) == (IF child.policy = "inherit" THEN chain.wide ELSE child.policy) \notin {"none", "always"}
TailServes == \A c \in Call :
  call[c].pc = "refused" /\ call[c].token.kind = "listed" =>
    \/ \A n \in DOMAIN chain.children : chain.children[n].kind # "static"
    \/ \E n \in 1 .. call[c].child : Halts(chain.children[n])

(* A call that met a transport error where it halts the chain is told so, and not that its        *)
(* token is unknown (chained.rs:169-175).                                                            *)
OutageTold == \A c \in Call :
  LET n == call[c].outage
  IN n # 0 /\ Halts(chain.children[n]) =>
       call[c].pc = "refused" /\ call[c].child = n /\ call[c].err = "transport"

(* A call is admitted on nothing older than the caches may be (oidc.rs:1324, vault.rs:253,         *)
(* vault_token.rs:284).                                                                              *)
NothingStale == TypeOK /\ KeysFresh /\ PrincipalsFresh /\ TokensLive

(* A call is refused for a cause, and told which (chained.rs:254-323).                               *)
RefusedRightly == RefusedForCause /\ TailServes /\ OutageTold

(* Whatever the builder calls and their order, the resolver they make can do what it was told to     *)
(* (oidc.rs:545-883).                                                                                *)
BuiltRight == NegotiatedWorks /\ TrustKept

(* Every call ends whose own reads Vault answers, although the JWKS lock is held over a request,     *)
(* and whichever other calls wait for Vault for ever (oidc.rs:1334-1358, vault.rs:217-262).          *)
CallsEnd == \A c \in Call :
  []<>(call[c].pc \notin Reading) => (call[c].pc = "try" ~> call[c].pc \in Over)
=============================================================================
