----------------------------- MODULE MerkleProof -----------------------------
(* Inclusion proofs of a Rekor log as verify_rekor_inclusion() of               *)
(* tako-governance/src/sigstore.rs checks them, beside the trees and audit paths  *)
(* of RFC 6962 2.1, which it names. A hash is the tuple of what was hashed, so     *)
(* that two are equal only if their inputs are.                                     *)
EXTENDS Integers, Sequences

LeafHash(body) == <<0, body>>
NodeHash(l, r) == <<1, l, r>>

(* RFC 6962 2.1: a tree of n leaves splits at the largest power of two below n.  *)
Powers(n) ==
  LET Two[i \in 0 .. n] == IF i = 0 THEN 1 ELSE 2 * Two[i - 1]
  IN  {Two[i] : i \in 0 .. n}
Split(n) == CHOOSE k \in Powers(n) : k < n /\ n <= 2 * k

(* The roots of the subtrees of n leaves from lo, and what is beside the way down to   *)
(* the leaf at the index.                                                                *)
Subtrees(log) ==
  LET H[n \in 1 .. Len(log)] == [lo \in Nat |->
        IF n = 1 THEN LeafHash(log[lo + 1])
        ELSE NodeHash(H[Split(n)][lo], H[n - Split(n)][lo + Split(n)])]
  IN  H
Paths(log, index) ==
  LET H == Subtrees(log)
      P[n \in 1 .. Len(log)] == [lo \in Nat |->
        IF n = 1 THEN <<>>
        ELSE IF index < lo + Split(n) THEN Append(P[Split(n)][lo], H[n - Split(n)][lo + Split(n)])
        ELSE Append(P[n - Split(n)][lo + Split(n)], H[Split(n)][lo])]
  IN  P
RootHash(log) == Subtrees(log)[Len(log)][0]
AuditPath(log, index) == Paths(log, index)[Len(log)][0]

(* The loop over a right edge, which has no siblings: up to the lowest bit that is set. *)
RightEdge(fnode, sn) ==
  LET Up[f \in 0 .. fnode] == [s \in Nat |-> IF f % 2 = 0 /\ f # 0 THEN Up[f \div 2][s \div 2] ELSE <<f, s>>]
  IN  Up[fnode][sn]

Above(at, edge, hash) == [at EXCEPT !.hash = hash, !.fnode = edge[1] \div 2, !.sn = edge[2] \div 2]
Climb_NoEdge(at, sibling) ==  \* mutant: the last node of a level is like any other
  IF at.sn = 0 THEN [at EXCEPT !.long = TRUE]
  ELSE Above(at, <<at.fnode, at.sn>>,
             IF at.fnode % 2 = 1 THEN NodeHash(sibling, at.hash) ELSE NodeHash(at.hash, sibling))
(* One sibling on the way up: left of a right child and of the last node of its level.  *)
Climb(at, sibling) ==
  IF at.sn = 0 THEN [at EXCEPT !.long = TRUE]
  ELSE IF at.fnode % 2 = 1 \/ at.fnode = at.sn
  THEN Above(at, RightEdge(at.fnode, at.sn), NodeHash(sibling, at.hash))
  ELSE Above(at, <<at.fnode, at.sn>>, NodeHash(at.hash, sibling))

VerifyInclusion(entry, proof) ==
  LET climb[k \in 0 .. Len(proof.path)] ==
        IF k = 0 THEN [fnode |-> entry.index, sn |-> proof.size - 1, hash |-> LeafHash(entry.body), long |-> FALSE]
        ELSE Climb(climb[k - 1], proof.path[k])
      top == climb[Len(proof.path)]
  IN  /\ proof.index = entry.index /\ entry.index < proof.size
      /\ ~top.long /\ top.sn = 0 /\ top.hash = proof.root
=============================================================================
