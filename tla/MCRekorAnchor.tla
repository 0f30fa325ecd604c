--------------------------- MODULE MCRekorAnchor ---------------------------
(* Two threads on one replica with a file that both may write, and on two          *)
(* replicas with Redis. The odd bundles: every proof of a log of up to five leaves, *)
(* whole and with one thing wrong, and chains of up to two of seven certificates.    *)
EXTENDS RekorAnchor

MCDeployments == {
  [backend |-> "json", host |-> [t \in Thread |-> "r1"]],
  [backend |-> "redis", host |-> [t \in Thread |-> IF t = "t1" THEN "r1" ELSE "r2"]]}

Log(n) == [i \in 1 .. n |-> i]
Checkpoint(n) == [size |-> n, root |-> RootHash(Log(n)), log |-> Log(n)]
Proof(n, m) == [index |-> m, size |-> n, path |-> AuditPath(Log(n), m), root |-> RootHash(Log(n))]
Wrong(n, p) ==
  {[p EXCEPT !.path = Append(@, LeafHash(1))], [p EXCEPT !.root = RootHash(Log(IF n = 1 THEN 2 ELSE n - 1))],
   [p EXCEPT !.size = @ + 1], [p EXCEPT !.size = @ - 1]}
  \union {[p EXCEPT !.path = SubSeq(@, 1, k)] : k \in 0 .. Len(p.path)}
  \union {[p EXCEPT !.path[k] = LeafHash(n + 1)] : k \in DOMAIN p.path}
  \union {[p EXCEPT !.index = i] : i \in 0 .. n}
ProofBundles ==
  {[faults |-> {}, chain |-> None, entry |-> [body |-> m + 1, index |-> i], proof |-> p,
    checkpoint |-> Checkpoint(n), parses |-> TRUE]
    : <<n, m, i, p>> \in UNION {{<<n, m, i, p>> : i \in {m, (m + 1) % n}, p \in Wrong(n, Proof(n, m))}
                                 : <<n, m>> \in {x \in (1 .. 5) \X (0 .. 4) : x[2] < x[1]}}}

\* An entry of another tree, with that tree's proof.
Fork == LET other == <<1, 2, 9>>
        IN [faults |-> {}, chain |-> None, entry |-> [body |-> 9, index |-> 2],
            proof |-> [index |-> 2, size |-> 3, path |-> AuditPath(other, 2), root |-> RootHash(other)],
            checkpoint |-> Checkpoint(3), parses |-> TRUE]

Cert(subject, issuer, key, signer) ==
  [subject |-> subject, issuer |-> issuer, key |-> key, signer |-> signer,
   ca |-> TRUE, pathLen |-> 9, known |-> TRUE, live |-> TRUE]
Root == Cert("R", "R", 0, 0)
Mid == Cert("A", "R", 1, 0)
Low == Cert("B", "A", 2, 1)
Certs == {Mid, Low, [Mid EXCEPT !.key = 3], [Mid EXCEPT !.ca = FALSE], [Mid EXCEPT !.pathLen = 0],
          [Low EXCEPT !.pathLen = 0], [Low EXCEPT !.live = FALSE], [Mid EXCEPT !.known = FALSE],
          Cert("R", "R", 7, 7)}
Leaves == {[Cert("L", "A", 5, 1) EXCEPT !.ca = FALSE], [Cert("L", "B", 5, 2) EXCEPT !.ca = FALSE],
           [Cert("L", "R", 5, 0) EXCEPT !.ca = FALSE], Root, Cert("L", "L", 5, 5)}
ChainBundles ==
  {[faults |-> {}, chain |-> [leaf |-> l, bundle |-> b, pinned |-> p, roots |-> <<Root>>],
    entry |-> None, proof |-> None, checkpoint |-> None, parses |-> TRUE]
    : l \in Leaves, b \in UNION {[1 .. n -> Certs] : n \in 0 .. 2}, p \in {<<>>, <<Low>>, <<Mid>>}}

Faulty == {[faults |-> {f}, chain |-> None, entry |-> [body |-> 1, index |-> 0], proof |-> None, checkpoint |-> Checkpoint(1), parses |-> TRUE]
             : f \in {"dates", "usage", "names", "issuer", "scheme", "signature", "set", "note"}}
MCOdd == ProofBundles \union ChainBundles \union Faulty \union {Fork}
MCThread == {"t1", "t2"}
MCReplica == {"r1", "r2"}
=============================================================================
