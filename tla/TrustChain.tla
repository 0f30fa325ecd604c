----------------------------- MODULE TrustChain -----------------------------
(* verify_chain() of tako-governance/src/sigstore.rs, which walks from the leaf    *)
(* to a pinned root, beside what it is to find: a path of certificates each of      *)
(* which may vouch for the one below. A certificate has its names, its key, the key  *)
(* that signed it, cA and pathLenConstraint, and whether it is within its dates       *)
(* and has no critical extension that is unknown.                                      *)
EXTENDS Integers, Sequences, SequencesExt

CONSTANT MaxHops \* 16

Signed(child, issuer) == child.signer = issuer.key
SelfIssued(cert) == cert.subject = cert.issuer

\* find() over the bundle's certificates, then the pinned ones, then the roots: the
\* first with the right subject is taken, and no other is tried.
Certificates(chain) == chain.bundle \o chain.pinned \o chain.roots
Named(chain, name) == {i \in DOMAIN Certificates(chain) : Certificates(chain)[i].subject = name}
Issuer(chain, cert) == Certificates(chain)[Min(Named(chain, cert.issuer))]

MayIssue(issuer, below) == issuer.ca /\ issuer.known /\ below <= issuer.pathLen

Hop(chain, at) ==
  LET cert == at.cert
      issuer == Issuer(chain, cert)
  IN IF at.verdict # "walking" THEN at
     ELSE CASE ~cert.live -> [at EXCEPT !.verdict = "untrusted"]
            [] cert.live /\ SelfIssued(cert) ->
                 [at EXCEPT !.verdict = IF cert \in ToSet(chain.roots) /\ Signed(cert, cert) /\ cert.ca /\ cert.known
                                        THEN "trusted" ELSE "untrusted"]
            [] OTHER ->
                 IF Named(chain, cert.issuer) = {} \/ ~Signed(cert, issuer) \/ ~MayIssue(issuer, at.below)
                 THEN [at EXCEPT !.verdict = "untrusted"]
                 ELSE IF issuer \in ToSet(chain.roots)
                 THEN [at EXCEPT !.verdict = IF issuer.live THEN "trusted" ELSE "untrusted"]
                 ELSE [at EXCEPT !.cert = issuer, !.below = @ + 1]

Trusted(chain) ==
  LET walk[n \in 0 .. MaxHops] ==
        IF n = 0 THEN [cert |-> chain.leaf, below |-> 0, verdict |-> "walking"]
        ELSE Hop(chain, walk[n - 1])
  IN walk[MaxHops].verdict = "trusted"

IsList(s) == Len(s) \in Nat /\ s = [i \in 1 .. Len(s) |-> s[i]]
IsChain(chain) == IsList(chain.bundle) /\ IsList(chain.pinned) /\ IsList(chain.roots)

-----------------------------------------------------------------------------
(* What it stands for. *)

Pool(chain) == ToSet(Certificates(chain))
IsPath(chain, p) ==
  /\ p[1] = chain.leaf /\ Last(p) \in ToSet(chain.roots)
  /\ \A i \in 1 .. Len(p) : p[i].live
  /\ \A i \in 1 .. Len(p) - 1 :
       /\ p[i].issuer = p[i + 1].subject /\ p[i].signer = p[i + 1].key
       /\ p[i + 1].ca /\ p[i + 1].known /\ i - 1 <= p[i + 1].pathLen
       /\ ~SelfIssued(p[i])
  /\ Len(p) = 1 => p[1].signer = p[1].key /\ p[1].ca /\ p[1].known /\ SelfIssued(p[1])
HasPath(chain) ==
  \E n \in 0 .. MaxHops : \E q \in [1 .. n -> Pool(chain)] : IsPath(chain, <<chain.leaf>> \o q)
NamesDiffer(chain) == \A a, b \in Pool(chain) : a.subject = b.subject => a = b
=============================================================================
