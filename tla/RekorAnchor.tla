---------------------------- MODULE RekorAnchor ----------------------------
(* KeylessVerifier of tako-governance/src/sigstore.rs: the checks of a bundle,   *)
(* and the largest tree size it has accepted, which threads advance together, a   *)
(* store keeps across crashes (sigstore_state.rs, sigstore_state_redis.rs), and     *)
(* no accepted checkpoint may fall below.                                             *)
(*                                                                                      *)
(* What needs nothing but the bundle and the clock is a set of faults of a bundle: the      *)
(* dates, usage, issuer and names of its leaf, its signatures. Its chain and its inclusion   *)
(* proof are walked as the code walks them. A root and a Rekor key are pinned.                *)
EXTENDS Integers, Sequences, FiniteSets, MerkleProof, TrustChain

CONSTANTS
  Thread, Replica,
  Deployments, \* [backend, host]: a store, and where each thread runs
  Sizes,       \* the tree sizes of plain checkpoints
  Odd,         \* bundles with a chain or an inclusion proof
  MaxCrashes,  \* a bound
  None

ASSUME AnchorAssumption ==
  /\ Sizes \subseteq Nat /\ MaxCrashes \in Nat /\ MaxHops \in Nat \ {0}
  /\ \A d \in Deployments :
       /\ d.backend \in {"json", "redis"} /\ d.host \in [Thread -> Replica]
       /\ d.backend = "json" => \A t, u \in Thread : d.host[t] = d.host[u]  \* "single-process"
  /\ \A b \in Odd :
       /\ DOMAIN b = {"faults", "chain", "entry", "proof", "checkpoint", "parses"}
       /\ b.checkpoint # None => b.checkpoint.size \in Nat
       /\ b.chain # None => IsChain(b.chain)
       /\ b.proof # None => b.entry.index \in Nat /\ b.proof.size \in Nat /\ IsList(b.proof.path)
       /\ b.proof # None /\ b.checkpoint # None =>  \* a root is that of a log
            Len(b.checkpoint.log) \in Nat \ {0} /\ b.checkpoint.root = RootHash(b.checkpoint.log)

Plain == [faults : {{}}, chain : {None}, entry : {None}, proof : {None},
          checkpoint : [size : Sizes, root : {None}], parses : BOOLEAN]

VARIABLES
  deployment,
  anchor,   \* rekor_min_tree_size of each replica's verifier
  boot,     \* per replica: down, loading, up
  stored,   \* what the store holds, 0 if nothing
  crashes,
  thread,   \* pc, bundle, the anchor read last, the number to persist
  \* history:
  highest,  \* per replica, the largest size accepted since it booted
  promised, \* the largest number of a save() that returned Ok
  raced,    \* a save() to a file began while another was under way
  owed      \* per replica, stored as of its boot

vars == <<deployment, anchor, boot, stored, crashes, thread, highest, promised, raced, owed>>

Host(t) == deployment.host[t]
Up(t) == boot[Host(t)] = "up"
Idle == [pc |-> "idle", bundle |-> None, prev |-> 0]
Larger(a, b) == IF a >= b THEN a ELSE b

Init ==
  /\ deployment \in Deployments
  /\ anchor = [r \in Replica |-> 0] /\ boot = [r \in Replica |-> "down"]
  /\ stored = 0 /\ crashes = 0 /\ thread = [t \in Thread |-> Idle]
  /\ highest = [r \in Replica |-> 0] /\ promised = 0 /\ raced = FALSE /\ owed = [r \in Replica |-> 0]

-----------------------------------------------------------------------------
(* seed(): load(), then the number is stored in a verifier nobody uses yet. A load that *)
(* fails is tried again.                                                                   *)
Load(r) ==
  /\ boot[r] = "down" /\ \E t \in Thread : Host(t) = r
  /\ boot' = [boot EXCEPT ![r] = "loading"]
  /\ owed' = [owed EXCEPT ![r] = stored]
  /\ anchor' = [anchor EXCEPT ![r] = stored]
  /\ UNCHANGED <<deployment, stored, crashes, thread, highest, promised, raced>>
Seed(r) ==
  /\ boot[r] = "loading" /\ boot' = [boot EXCEPT ![r] = "up"]
  /\ UNCHANGED <<deployment, anchor, stored, crashes, thread, highest, promised, raced, owed>>

Crash(r) ==
  /\ boot[r] # "down" /\ crashes < MaxCrashes /\ crashes' = crashes + 1
  /\ boot' = [boot EXCEPT ![r] = "down"] /\ anchor' = [anchor EXCEPT ![r] = 0]
  /\ highest' = [highest EXCEPT ![r] = 0] /\ owed' = [owed EXCEPT ![r] = 0]
  /\ thread' = [t \in Thread |-> IF Host(t) = r THEN Idle ELSE thread[t]]
  /\ UNCHANGED <<deployment, stored, promised, raced>>

-----------------------------------------------------------------------------
(* verify_bundle(): every check that comes before the anchor, in their order. One name of   *)
(* the leaf that the policy takes is enough.                                                   *)
LeafHolds(b) == b.faults \intersect {"dates", "usage", "names", "issuer"} = {}
SignatureHolds(b) == b.faults \intersect {"scheme", "signature"} = {}
SetHolds(b) == "set" \notin b.faults
CheckpointHolds(b) == "note" \notin b.faults /\ (b.proof # None => b.checkpoint.root = b.proof.root)
Passes(b) ==
  /\ LeafHolds(b) /\ SignatureHolds(b)
  /\ b.chain # None => Trusted(b.chain)
  /\ b.entry # None => SetHolds(b)
  /\ b.proof # None => VerifyInclusion(b.entry, b.proof)
  /\ b.checkpoint # None => CheckpointHolds(b)

(* A bundle in cosign's protobuf form has no checkpoint.                                         *)
FromProtobuf(b) == [b EXCEPT !.checkpoint = None]

\* Bound: bundles of Odd are looked at by one thread while nothing else goes on.
OddAlone == \A u \in Thread : thread[u].bundle \in Plain \union {None}
Quiet == crashes = 0 /\ stored = 0 /\ promised = 0 /\ ~raced
          /\ \A r \in Replica : anchor[r] = 0 /\ \A u \in Thread : thread[u] = Idle
Verify(t) ==
  /\ Up(t) /\ thread[t].pc = "idle" /\ OddAlone
  /\ \E b \in Plain \union (IF Quiet THEN Odd \union {FromProtobuf(o) : o \in Odd} ELSE {}) :
       thread' = [thread EXCEPT ![t] =
         [pc |-> IF ~Passes(b) THEN "rejected" ELSE IF b.checkpoint = None THEN "parse" ELSE "advance",
          bundle |-> b, prev |-> anchor[Host(t)]]]
  /\ UNCHANGED <<deployment, anchor, boot, stored, crashes, highest, promised, raced, owed>>

Advance_MaxOnly(t) ==  \* mutant: the check is against what was read, the anchor takes the larger
  LET r == Host(t)
      size == thread[t].bundle.checkpoint.size
  IN /\ thread[t].pc = "advance" /\ UNCHANGED <<deployment, boot, stored, crashes, promised, raced, owed>>
     /\ IF size < thread[t].prev
        THEN thread' = [thread EXCEPT ![t].pc = "rollback"] /\ UNCHANGED <<anchor, highest>>
        ELSE /\ anchor' = [anchor EXCEPT ![r] = Larger(size, @)]
             /\ highest' = [highest EXCEPT ![r] = Larger(size, @)]
             /\ thread' = [thread EXCEPT ![t].pc = "parse"]
Advance_SamePrev(t) ==  \* mutant: what the exchange observed is dropped
  LET r == Host(t)
      size == thread[t].bundle.checkpoint.size
  IN /\ thread[t].pc = "advance" /\ UNCHANGED <<deployment, boot, stored, crashes, promised, raced, owed>>
     /\ IF size < thread[t].prev
        THEN thread' = [thread EXCEPT ![t].pc = "rollback"] /\ UNCHANGED <<anchor, highest>>
        ELSE /\ anchor[r] = thread[t].prev
             /\ anchor' = [anchor EXCEPT ![r] = Larger(size, @)]
             /\ highest' = [highest EXCEPT ![r] = Larger(size, @)]
             /\ thread' = [thread EXCEPT ![t].pc = "parse"]
(* One turn of the compare-exchange loop; an exchange that fails without cause is a turn   *)
(* that changes nothing.                                                                      *)
Advance(t) ==
  LET r == Host(t)
      size == thread[t].bundle.checkpoint.size
  IN /\ thread[t].pc = "advance" /\ UNCHANGED <<deployment, boot, stored, crashes, promised, raced, owed>>
     /\ IF size < thread[t].prev
        THEN thread' = [thread EXCEPT ![t].pc = "rollback"] /\ UNCHANGED <<anchor, highest>>
        ELSE IF anchor[r] = thread[t].prev
        THEN /\ anchor' = [anchor EXCEPT ![r] = Larger(size, @)]
             /\ highest' = [highest EXCEPT ![r] = Larger(size, @)]
             /\ thread' = [thread EXCEPT ![t].pc = "parse"]
        ELSE thread' = [thread EXCEPT ![t].prev = anchor[r]] /\ UNCHANGED <<anchor, highest>>

\* The catalogue is parsed last: when that fails the anchor has moved all the same.
Parse(t) ==
  /\ thread[t].pc = "parse"
  /\ thread' = [thread EXCEPT ![t].pc = IF thread[t].bundle.parses THEN "accepted" ELSE "garbled"]
  /\ UNCHANGED <<deployment, anchor, boot, stored, crashes, highest, promised, raced, owed>>
Return(t) ==
  /\ thread[t].pc \in {"accepted", "garbled", "rejected", "rollback"} /\ thread' = [thread EXCEPT ![t] = Idle]
  /\ UNCHANGED <<deployment, anchor, boot, stored, crashes, highest, promised, raced, owed>>

-----------------------------------------------------------------------------
(* persist(): rekor_max_tree_size(), then save(). *)
Persist(t) ==
  /\ Up(t) /\ thread[t].pc = "idle"
  /\ thread' = [thread EXCEPT ![t] = [pc |-> "save", bundle |-> None, prev |-> anchor[Host(t)]]]
  /\ raced' = (raced \/ (deployment.backend = "json" /\ \E u \in Thread : thread[u].pc = "save"))
  /\ UNCHANGED <<deployment, anchor, boot, stored, crashes, highest, promised, owed>>

Written_Latest(n) == n  \* mutant: the script sets without comparing
(* A rename puts the new file in place of the old; the script keeps the larger number.        *)
Written(n) == IF deployment.backend = "redis" THEN Larger(n, stored) ELSE n
Save(t) ==
  /\ thread[t].pc = "save" /\ thread' = [thread EXCEPT ![t] = Idle]
  /\ \/ stored' = Written(thread[t].prev) /\ promised' = Larger(promised, thread[t].prev)
     \/ stored' \in {stored, Written(thread[t].prev)} /\ UNCHANGED promised
  /\ UNCHANGED <<deployment, anchor, boot, crashes, highest, raced, owed>>

-----------------------------------------------------------------------------
Verifies(t) == Advance(t) \/ Parse(t) \/ Return(t)
Next ==
  \/ \E r \in Replica : Load(r) \/ Seed(r) \/ Crash(r)
  \/ \E t \in Thread : Verify(t) \/ Verifies(t) \/ Persist(t) \/ Save(t)
Spec == Init /\ [][Next]_vars /\ \A t \in Thread : WF_vars(Verifies(t))

-----------------------------------------------------------------------------
(* Properties *)

TypeOK ==
  /\ \A r \in Replica : anchor[r] \in Nat /\ boot[r] \in {"down", "loading", "up"}
  /\ stored \in Nat /\ promised \in Nat
  /\ \A t \in Thread :
       /\ thread[t].pc \in {"idle", "advance", "parse", "accepted", "garbled", "rejected", "rollback", "save"}
       /\ thread[t].pc # "idle" => Up(t)
       /\ thread[t].pc \in {"advance", "save"} => thread[t].prev <= anchor[Host(t)]

(* No thread accepts a checkpoint smaller than one that any thread of the replica accepted   *)
(* before, nor than what was stored when the replica booted (sigstore.rs:634-660).            *)
NoRollback == [][\A t \in Thread :
  thread[t].pc = "advance" /\ thread'[t].pc = "parse" =>
    /\ thread[t].bundle.checkpoint.size >= highest[Host(t)]
    /\ thread[t].bundle.checkpoint.size >= owed[Host(t)]]_vars

(* What save() reported as written is not lost, over crashes, restarts and saves of which nobody *)
(* knows whether they were written: not in Redis, where slower replicas save as well, and not in    *)
(* a file until two saves of its process are under way at once (sigstore_state.rs:97-101, 208-256,  *)
(* sigstore_state_redis.rs:47-60).                                                                   *)
SavedIsKept == raced \/ stored >= promised

(* Of two such saves the slower one may put the file back, but no save begins that could: the anchor  *)
(* it reads is at least what the file holds, whoever wrote that, before or after a restart              *)
(* (sigstore_state.rs:257-274).                                                                          *)
FileFollows == deployment.backend = "json" => \A t \in Thread : Up(t) => stored <= anchor[Host(t)]

(* A replica serves no verification before its anchor is at least what was stored when it came  *)
(* up (sigstore_state.rs:106-112).                                                                *)
SeededFirst == \A t \in Thread : thread[t].pc # "idle" => anchor[Host(t)] >= owed[Host(t)]

(* A store is trusted at boot and written under load: it loses nothing but a file's race, and          *)
(* nothing is verified against less than it says.                                                       *)
StoreTrusted == SavedIsKept /\ FileFollows /\ SeededFirst

(* An entry whose proof is accepted together with a checkpoint is one of the leaves of the        *)
(* checkpoint's tree, the one at its index if the proof states the tree's size; and the audit       *)
(* path of RFC 6962 is accepted (sigstore.rs:1414-1502, 1149-1154).                                   *)
InclusionRight == \A t \in Thread :
  LET b == thread[t].bundle
      log == b.checkpoint.log
      honest == /\ b.proof.size = Len(log) /\ b.proof.index = b.entry.index /\ b.entry.index < Len(log)
                /\ b.entry.body = log[b.entry.index + 1]
                /\ b.proof.path = AuditPath(log, b.entry.index) /\ b.proof.root = RootHash(log)
  IN b # None /\ b.proof # None /\ b.checkpoint # None =>
       /\ thread[t].pc \in {"advance", "parse", "accepted"} =>
            /\ \E i \in 1 .. Len(log) : b.entry.body = log[i]
            /\ b.proof.size = Len(log) => honest
       /\ thread[t].pc = "rejected" /\ honest => ~Passes([b EXCEPT !.proof = None])

(* A chain is accepted only if a path of certificates that may vouch for each other leads from    *)
(* the leaf to a pinned root (sigstore.rs:897-989).                                                 *)
ChainSound == \A t \in Thread :
  LET b == thread[t].bundle
  IN b # None /\ thread[t].pc \in {"advance", "parse", "accepted"} /\ b.chain # None => HasPath(b.chain)

(* Where no two certificates have the same subject every such path is found: a bundle that has one   *)
(* is rejected only for what it would be rejected for without its chain.                                *)
ChainFound == \A t \in Thread :
  LET b == thread[t].bundle
  IN b # None /\ thread[t].pc = "rejected" /\ b.chain # None /\ NamesDiffer(b.chain) /\ HasPath(b.chain) =>
       ~Passes([b EXCEPT !.chain = None])

(* The chain and the inclusion proof of a bundle are judged as their definitions say, but for the    *)
(* size of the tree: that of the proof "must match" the checkpoint's (sigstore.rs:279-280), and is     *)
(* never compared with it (sigstore.rs:630-634). Where it does not match, the entry is in the tree,      *)
(* but may not be at its index.                                                                           *)
BundlesJudged == TypeOK /\ InclusionRight /\ ChainSound /\ ChainFound

(* The loop ends for every thread, however often others advance the anchor (sigstore.rs:645-659). *)
VerifyEnds == \A t \in Thread : thread[t].pc = "advance" ~> thread[t].pc # "advance"
=============================================================================
