---------------------------- MODULE MCAuthChain ----------------------------
(* Two calls over chains that put each resolver before and behind another, with    *)
(* the policies of the chain and of its children. Every OIDC resolver that the        *)
(* builder can make of four documents is built; three kinds of them serve.             *)
EXTENDS AuthChain

MCChains == {
  OnTransportError(ThenWithShortCircuit(Then(NewChain, "oidc"), "static", "always")),
  OnInfrastructureErrors(OnTransportError(
    ThenWithShortCircuit(ThenWithShortCircuit(NewChain, "vault", "always"), "static", "always"))),
  Then(Then(ThenWithShortCircuit(Then(NewChain, "fixed"), "other", "infrastructure"), "other"), "static"),
  NewChain}

Doc(endpoint, methods) == [answered |-> TRUE, sameIssuer |-> TRUE, endpoint |-> endpoint, methods |-> methods]
Listing == Doc(TRUE, {"tls_client_auth", "private_key_jwt", "client_secret_jwt"})
MCDocs == {Listing, Doc(TRUE, {"self_signed_tls_client_auth", "client_secret_post"}), Doc(FALSE, Unlisted),
           [Listing EXCEPT !.answered = FALSE], [Listing EXCEPT !.sameIssuer = FALSE]}

\* Without introspection; with it, by a method that the resolver has no credential for; with an
\* mTLS identity, private roots and a hook.
Found == Discover(Listing, TRUE)
MCServed == {
  Found,
  WithAuthMethod(WithIntrospection(Found, TRUE), "private_key_jwt"),
  WithHook(WithMtls(WithIntrospection(Found, FALSE), "tls_client_auth", 1, TRUE, TRUE)),
  WithIntrospectionUri(Discover(Doc(FALSE, Unlisted), TRUE), TRUE)}

MCClaims == {[tenant |-> "string", user |-> "string"], [tenant |-> "string", user |-> "other"]}
=============================================================================
