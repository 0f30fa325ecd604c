---------------------------- MODULE OidcBuilder ----------------------------
(* How an OidcAuthResolver comes to be: discovery, then any chain of with_...()    *)
(* calls, each taking the resolver and giving it back or failing with it, and the    *)
(* one change made to a resolver that serves, the reload of its mTLS identity.        *)
(*                                                                                    *)
(* Secrets, keys and certificates are there or not, and parse or do not; an mTLS      *)
(* client is known by the number of its identity, 0 for none, and by whether it        *)
(* trusts the operator's own root certificates besides the public ones.                *)
EXTENDS Integers, Sequences, FiniteSetsExt

Mtls == {"tls_client_auth", "self_signed_tls_client_auth"}
Method == Mtls \union {"private_key_jwt", "client_secret_jwt", "client_secret_basic", "client_secret_post"}
NoClient == [id |-> 0, roots |-> FALSE]
IntrospectionConfig ==
  [method : Method, secret : BOOLEAN, key : BOOLEAN, client : [id : 0 .. 2, roots : BOOLEAN], roots : BOOLEAN]
NoConfig == [method |-> "none"]
Unlisted == {"unlisted"}  \* a discovery document without a list of methods
Listable == Method \union Unlisted \union {"other"}

(* What discovery leaves: the endpoints of a document whose issuer is the one asked for. *)
Broken == [ok |-> FALSE, endpoint |-> FALSE, methods |-> Unlisted, cfg |-> NoConfig, hook |-> FALSE]
Discover(doc, rootsParse) ==
  IF rootsParse /\ doc.answered /\ doc.sameIssuer
  THEN [ok |-> TRUE, endpoint |-> doc.endpoint, methods |-> doc.methods, cfg |-> NoConfig, hook |-> FALSE]
  ELSE Broken

Configured(r) == r.cfg # NoConfig
MtlsConfigured(r) == Configured(r) /\ r.cfg.client # NoClient

(* A configuration is attached anew: what was set before goes, the mTLS client with it.  *)
Attached(r, secret) ==
  [r EXCEPT !.cfg = [method |-> "client_secret_basic", secret |-> secret,
                     key |-> FALSE, client |-> NoClient, roots |-> FALSE]]
WithIntrospection(r, secret) == IF r.endpoint THEN Attached(r, secret) ELSE Broken
WithIntrospectionUri(r, secret) == Attached(r, secret)

(* Without a configuration these leave the resolver as it is, and do so silently.           *)
WithAuthMethod(r, m) == IF Configured(r) THEN [r EXCEPT !.cfg.method = m] ELSE r
WithPrivateKey(r) == IF Configured(r) THEN [r EXCEPT !.cfg.key = TRUE] ELSE r
WithJwtPem(r, parses) ==
  IF ~parses THEN Broken
  ELSE IF Configured(r) THEN [r EXCEPT !.cfg.key = TRUE, !.cfg.method = "private_key_jwt"] ELSE r
WithHook(r) == [r EXCEPT !.hook = TRUE]

(* build_mtls_reqwest_client(): the PEMs of the identity, and of the roots if there are any. *)
ClientOf(id, roots) == [id |-> id, roots |-> roots]
WithMtls(r, m, id, roots, parses) ==
  IF ~Configured(r) THEN r
  ELSE IF ~parses THEN Broken
  ELSE [r EXCEPT !.cfg.method = m, !.cfg.client = ClientOf(id, roots), !.cfg.roots = roots]

(* The credential that a method needs; a secret may be missing from the plain ones.           *)
Has(cfg, m) ==
  CASE m \in Mtls -> cfg.client # NoClient
    [] m = "private_key_jwt" -> cfg.key
    [] m = "client_secret_jwt" -> cfg.secret
    [] OTHER -> TRUE

Preference == <<"tls_client_auth", "self_signed_tls_client_auth", "private_key_jwt",
                "client_secret_jwt", "client_secret_basic", "client_secret_post">>
WithMethodFromDiscovery(r) ==
  LET usable == {i \in DOMAIN Preference : Preference[i] \in r.methods /\ Has(r.cfg, Preference[i])}
  IN IF ~Configured(r) THEN r
     ELSE IF r.methods = Unlisted THEN [r EXCEPT !.cfg.method = "client_secret_basic"]
     ELSE IF usable = {} THEN Broken
     ELSE [r EXCEPT !.cfg.method = Preference[Min(usable)]]

Reload_PublicRoots(r, id, parses) ==  \* mutant: a rotation forgets the operator's roots
  IF MtlsConfigured(r) /\ parses THEN [r EXCEPT !.cfg.client = ClientOf(id, FALSE)] ELSE r
(* reload_mtls_identity(): the client is swapped for one with the same roots; PEMs that do    *)
(* not parse leave it.                                                                           *)
Reload(r, id, parses) ==
  IF MtlsConfigured(r) /\ parses THEN [r EXCEPT !.cfg.client = ClientOf(id, r.cfg.roots)] ELSE r

(* Every builder call but the one that negotiates.                                                *)
Calls(r) ==
  {WithHook(r), WithPrivateKey(r)} \union {WithJwtPem(r, p) : p \in BOOLEAN}
  \union {WithIntrospection(r, s) : s \in BOOLEAN} \union {WithIntrospectionUri(r, s) : s \in BOOLEAN}
  \union {WithAuthMethod(r, m) : m \in Method}
  \union {WithMtls(r, m, 1, roots, p) : m \in Mtls, roots \in BOOLEAN, p \in BOOLEAN}

(* principal_from_claims(): the roles may be missing.                                              *)
HasPrincipal(claims) == claims.tenant = "string" /\ claims.user = "string"

(* should_retry_with_refresh(), for a transport error: whatever the method.                          *)
ShouldRetry(r) == r.hook /\ MtlsConfigured(r)
=============================================================================
