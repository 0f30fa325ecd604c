---------------------------- MODULE RekorProofs ----------------------------
(***************************************************************************)
(* For any threads, replicas, tree sizes, bundles and crashes, over a file *)
(* of one process or Redis: no accepted checkpoint is smaller than one     *)
(* accepted before, and what save() reported as written stays written,     *)
(* unless two saves to a file are under way at once. For                   *)
(* any chain of certificates and any log: a chain is trusted only if it    *)
(* leads to a root, and an inclusion proof shows that its entry is in the  *)
(* log. The trees, the audit paths and the walks are recursive functions;  *)
(* what holds of them is proved from a least counterexample.               *)
(***************************************************************************)
EXTENDS RekorAnchor, SequenceTheorems, WellFoundedInduction, TLAPS

Pcs == {"idle", "advance", "parse", "accepted", "garbled", "rejected", "rollback", "save"}
Bundles == Plain \cup Odd \cup {FromProtobuf(o) : o \in Odd} \cup {None}

Types ==
  /\ deployment \in Deployments
  /\ anchor \in [Replica -> Nat] /\ highest \in [Replica -> Nat] /\ owed \in [Replica -> Nat]
  /\ boot \in [Replica -> {"down", "loading", "up"}]
  /\ stored \in Nat /\ promised \in Nat /\ raced \in BOOLEAN
  /\ thread \in [Thread -> [pc : Pcs, bundle : Bundles, prev : Nat]]

(* Who is busy is on a replica that is up, and has read an anchor that was *)
(* no larger than it is now.                                               *)
Busy ==
  \A t \in Thread :
    /\ thread[t].pc # "idle" => Up(t)
    /\ thread[t].pc \in {"advance", "save"} => thread[t].prev <= anchor[Host(t)]
    /\ thread[t].pc = "advance" => thread[t].bundle.checkpoint.size \in Nat

(* A replica's anchor is at least what it accepted and what it owes; while *)
(* it is down it has accepted nothing.                                     *)
Anchored ==
  \A r \in Replica :
    /\ highest[r] <= anchor[r] /\ owed[r] <= anchor[r]
    /\ boot[r] = "down" => highest[r] = 0

(* The process of a file never holds less than the file, nor does its one  *)
(* save under way, while no two have been.                                 *)
Files ==
  deployment.backend = "json" =>
    \A t \in Thread : boot[Host(t)] # "down" => stored <= anchor[Host(t)]
Alone ==
  deployment.backend = "json" /\ ~raced =>
    \A t \in Thread : thread[t].pc = "save" =>
      /\ stored <= thread[t].prev
      /\ \A u \in Thread : thread[u].pc = "save" => u = t

Kept == raced \/ stored >= promised

Inv == Types /\ Busy /\ Anchored /\ Files /\ Alone /\ Kept

(* Which deployment it is never changes, and says where a thread runs.     *)
LEMMA HostIsReplica == ASSUME Types, NEW t \in Thread PROVE Host(t) \in Replica
  BY AnchorAssumption DEF Types, Host, AnchorAssumption

LEMMA InitInv == Init => Inv
  <1> SUFFICES ASSUME Init PROVE Inv
    OBVIOUS
  <1>1. raced \in BOOLEAN
    BY DEF Init
  <1>2. Types
    BY <1>1, AnchorAssumption DEF Init, Types, Idle, Pcs, Bundles
  <1>3. Busy /\ Anchored
    BY <1>2 DEF Init, Types, Busy, Anchored, Idle, Up, Host
  <1>4. Files /\ Alone /\ Kept
    <2>1. /\ stored = 0 /\ promised = 0 /\ \A r \in Replica : boot[r] = "down"
          /\ \A t \in Thread : thread[t].pc = "idle"
      BY DEF Init, Idle
    <2>2. Files
      BY <1>2, <2>1, HostIsReplica DEF Files
    <2>3. Alone
      BY <2>1 DEF Alone
    <2>4. Kept
      BY <2>1 DEF Kept
    <2> QED
      BY <2>2, <2>3, <2>4
  <1> QED
    BY <1>2, <1>3, <1>4 DEF Inv

-----------------------------------------------------------------------------
(* The bundles a verification may start with, and the size of those with a *)
(* checkpoint.                                                             *)
LEMMA SizeOfBundle ==
  ASSUME NEW b \in Plain \cup Odd \cup {FromProtobuf(o) : o \in Odd}, b.checkpoint # None
  PROVE  b.checkpoint.size \in Nat
  <1>1. CASE b \in Plain
    BY <1>1, AnchorAssumption DEF Plain, AnchorAssumption
  <1>2. CASE b \in Odd
    BY <1>2, AnchorAssumption DEF AnchorAssumption
  <1>3. ASSUME NEW o \in Odd, b = FromProtobuf(o) PROVE FALSE
    <2>1. "checkpoint" \in DOMAIN o
      BY AnchorAssumption DEF AnchorAssumption
    <2> QED
      BY <1>3, <2>1 DEF FromProtobuf
  <1> QED
    BY <1>1, <1>2, <1>3

LEMMA LargerIsMax ==
  ASSUME NEW a \in Nat, NEW b \in Nat
  PROVE  Larger(a, b) \in Nat /\ Larger(a, b) >= a /\ Larger(a, b) >= b /\ Larger(a, b) \in {a, b}
  BY DEF Larger

-----------------------------------------------------------------------------
(* The steps of a replica.                                                 *)
LEMMA LoadKeepsInv == ASSUME Inv, NEW r \in Replica, Load(r) PROVE Inv'
  <1> USE DEF Inv, Types, Busy, Anchored, Files, Alone, Kept, Host, Up, Load
  <1>1. Types' /\ Busy' /\ Kept'
    BY HostIsReplica
  <1>2. Anchored' /\ Files' /\ Alone'
    BY HostIsReplica
  <1> QED
    BY <1>1, <1>2

LEMMA SeedKeepsInv == ASSUME Inv, NEW r \in Replica, Seed(r) PROVE Inv'
  BY HostIsReplica DEF Inv, Types, Busy, Anchored, Files, Alone, Kept, Host, Up, Seed

LEMMA CrashKeepsInv == ASSUME Inv, NEW r \in Replica, Crash(r) PROVE Inv'
  <1> USE DEF Inv, Types, Busy, Anchored, Files, Alone, Kept, Host, Up, Crash
  <1>1. Types'
    BY DEF Idle, Pcs, Bundles
  <1>2. \A t \in Thread : \/ Host(t) = r /\ thread'[t].pc = "idle"
                          \/ /\ Host(t) # r /\ thread'[t] = thread[t]
                             /\ anchor'[Host(t)] = anchor[Host(t)] /\ boot'[Host(t)] = boot[Host(t)]
    BY HostIsReplica DEF Idle
  <1>3. Busy'
    BY <1>2
  <1>4. Files' /\ Alone'
    <2>1. \A t \in Thread : Host(t) = r => boot'[Host(t)] = "down"
      BY HostIsReplica
    <2> QED
      BY <1>2, <2>1
  <1>5. Anchored' /\ Kept'
    OBVIOUS
  <1> QED
    BY <1>1, <1>3, <1>4, <1>5

-----------------------------------------------------------------------------
(* The steps of a thread.                                                  *)
LEMMA VerifyKeepsInv == ASSUME Inv, NEW t \in Thread, Verify(t) PROVE Inv'
  <1> USE DEF Inv, Types, Busy, Anchored, Files, Alone, Kept, Host, Up
  <1>1. PICK b \in Plain \cup Odd \cup {FromProtobuf(o) : o \in Odd} :
          thread' = [thread EXCEPT ![t] =
            [pc |-> IF ~Passes(b) THEN "rejected" ELSE IF b.checkpoint = None THEN "parse" ELSE "advance",
             bundle |-> b, prev |-> anchor[Host(t)]]]
    BY DEF Verify
  <1>2. /\ Up(t) /\ thread[t].pc = "idle"
        /\ UNCHANGED <<deployment, anchor, boot, stored, crashes, highest, promised, raced, owed>>
    BY DEF Verify
  <1>3. Types'
    BY <1>1, <1>2, HostIsReplica DEF Pcs, Bundles
  <1>4. Busy' /\ Files' /\ Alone'
    BY <1>1, <1>2, <1>3, SizeOfBundle, HostIsReplica
  <1> QED
    BY <1>2, <1>3, <1>4

(* What a turn of the compare-exchange loop does, by its three outcomes.   *)
LEMMA AdvanceKeepsInv ==
  ASSUME Inv, NEW t \in Thread, Advance(t)
  PROVE  /\ Inv'
         /\ thread'[t].pc = "parse" =>
              /\ thread[t].bundle.checkpoint.size >= highest[Host(t)]
              /\ thread[t].bundle.checkpoint.size >= owed[Host(t)]
  <1> DEFINE r == Host(t)
             size == thread[t].bundle.checkpoint.size
  <1> USE DEF Inv, Types, Busy, Anchored, Files, Alone, Kept, Host, Up
  <1>1. /\ r \in Replica /\ size \in Nat /\ thread[t].pc = "advance" /\ thread[t].prev \in Nat
        /\ UNCHANGED <<deployment, boot, stored, crashes, promised, raced, owed>>
    BY HostIsReplica DEF Advance
  <1>2. CASE size < thread[t].prev
    <2>1. thread' = [thread EXCEPT ![t].pc = "rollback"] /\ UNCHANGED <<anchor, highest>>
      BY <1>2 DEF Advance
    <2> QED
      BY <1>1, <2>1 DEF Pcs
  <1>3. CASE size >= thread[t].prev /\ anchor[r] = thread[t].prev
    <2>1. /\ anchor' = [anchor EXCEPT ![r] = Larger(size, @)]
          /\ highest' = [highest EXCEPT ![r] = Larger(size, @)]
          /\ thread' = [thread EXCEPT ![t].pc = "parse"]
      BY <1>1, <1>3 DEF Advance
    <2>2. /\ anchor'[r] = size /\ highest'[r] = size
          /\ \A q \in Replica \ {r} : anchor'[q] = anchor[q] /\ highest'[q] = highest[q]
      BY <1>1, <1>3, <2>1 DEF Larger
    <2>3. Types'
      BY <1>1, <2>1, <2>2 DEF Pcs
    <2>4. \A q \in Replica : anchor'[q] >= anchor[q]
      BY <1>1, <1>3, <2>2
    <2>5. Busy' /\ Files' /\ Alone'
      BY <1>1, <2>1, <2>3, <2>4, HostIsReplica
    <2>6. Anchored' /\ Kept'
      BY <1>1, <1>3, <2>2, <2>3
    <2> QED
      BY <1>1, <1>3, <2>3, <2>5, <2>6
  <1>4. CASE size >= thread[t].prev /\ anchor[r] # thread[t].prev
    <2>1. thread' = [thread EXCEPT ![t].prev = anchor[r]] /\ UNCHANGED <<anchor, highest>>
      BY <1>1, <1>4 DEF Advance
    <2> QED
      BY <1>1, <2>1 DEF Pcs
  <1> QED
    BY <1>1, <1>2, <1>3, <1>4

LEMMA ParseKeepsInv == ASSUME Inv, NEW t \in Thread, Parse(t) PROVE Inv'
  BY DEF Inv, Types, Busy, Anchored, Files, Alone, Kept, Host, Up, Parse, Pcs

LEMMA ReturnKeepsInv == ASSUME Inv, NEW t \in Thread, Return(t) PROVE Inv'
  BY DEF Inv, Types, Busy, Anchored, Files, Alone, Kept, Host, Up, Return, Idle, Pcs, Bundles

(* A save that begins reads an anchor that the file does not exceed.       *)
LEMMA PersistKeepsInv == ASSUME Inv, NEW t \in Thread, Persist(t) PROVE Inv'
  <1>1. /\ thread' = [thread EXCEPT ![t] = [pc |-> "save", bundle |-> None, prev |-> anchor[Host(t)]]]
        /\ Up(t)
        /\ UNCHANGED <<deployment, anchor, boot, stored, crashes, highest, promised, owed>>
    BY DEF Persist
  <1>2. /\ raced' \in BOOLEAN /\ (raced => raced')
        /\ deployment.backend = "json" /\ ~raced' => \A u \in Thread : thread[u].pc # "save"
    BY DEF Persist
  <1> USE DEF Inv, Types, Busy, Anchored, Host, Up
  <1>3. Types'
    BY <1>1, <1>2, HostIsReplica DEF Pcs, Bundles
  <1>4. Busy' /\ Anchored'
    BY <1>1, <1>3, HostIsReplica
  <1>5. Files' /\ Alone' /\ Kept'
    <2>1. Files'
      BY <1>1 DEF Files
    <2>2. Alone'
      <3>1. \A u \in Thread \ {t} : thread'[u] = thread[u]
        BY <1>1
      <3>2. thread'[t].prev = anchor[Host(t)] /\ boot[Host(t)] = "up"
        BY <1>1
      <3> QED
        BY <1>1, <1>2, <3>1, <3>2 DEF Files, Alone
    <2>3. Kept'
      BY <1>1, <1>2 DEF Kept
    <2> QED
      BY <2>1, <2>2, <2>3
  <1> QED
    BY <1>3, <1>4, <1>5

(* Redis keeps the larger; what is written to a file alone is not less.    *)
LEMMA SaveKeepsInv == ASSUME Inv, NEW t \in Thread, Save(t) PROVE Inv'
  <1> USE DEF Inv, Types, Busy, Anchored, Host, Up
  <1> DEFINE n == thread[t].prev
  <1>1. /\ n \in Nat /\ thread[t].pc = "save"
        /\ thread' = [thread EXCEPT ![t] = Idle]
        /\ UNCHANGED <<deployment, anchor, boot, crashes, highest, raced, owed>>
        /\ n <= anchor[Host(t)] /\ Up(t)
    BY DEF Save
  <1>2. /\ Written(n) \in Nat /\ Written(n) >= n
        /\ deployment.backend = "json" => Written(n) = n
        /\ raced \/ Written(n) >= stored
    <2>1. CASE deployment.backend = "redis"
      BY <1>1, <2>1, LargerIsMax DEF Written
    <2>2. CASE deployment.backend = "json"
      BY <1>1, <2>2 DEF Written, Alone
    <2> QED
      BY <2>1, <2>2, AnchorAssumption DEF AnchorAssumption
  <1>3. /\ stored' \in {stored, Written(n)}
        /\ promised' \in {promised, Larger(promised, n)}
        /\ promised' # promised => stored' = Written(n)
    BY DEF Save
  <1>4. Types'
    BY <1>1, <1>2, <1>3, LargerIsMax DEF Idle, Pcs, Bundles
  <1>5. Kept'
    <2>1. CASE promised' = promised
      BY <1>1, <1>2, <1>3, <2>1 DEF Kept
    <2>2. CASE promised' # promised
      <3>1. stored' = Written(n) /\ promised' \in {promised, n}
        BY <1>1, <1>3, <2>2, LargerIsMax
      <3> QED
        BY <1>1, <1>2, <3>1 DEF Kept
    <2> QED
      BY <2>1, <2>2
  <1>6. Busy' /\ Anchored'
    BY <1>1, <1>4 DEF Idle
  <1>7. Files'
    <2> SUFFICES ASSUME deployment.backend = "json", NEW u \in Thread, boot[Host(u)] # "down"
                 PROVE  stored' <= anchor[Host(u)]
      BY <1>1 DEF Files
    <2>1. Host(u) = Host(t)
      BY AnchorAssumption DEF AnchorAssumption
    <2>2. stored <= anchor[Host(u)]
      BY DEF Files
    <2> QED
      BY <1>1, <1>2, <1>3, <2>1, <2>2
  <1>8. Alone'
    <2> SUFFICES ASSUME deployment.backend = "json", ~raced, NEW u \in Thread, thread'[u].pc = "save"
                 PROVE  FALSE
      BY <1>1 DEF Alone
    <2> QED
      BY <1>1 DEF Alone, Idle
  <1> QED
    BY <1>4, <1>5, <1>6, <1>7, <1>8

-----------------------------------------------------------------------------
LEMMA NextKeepsInv == Inv /\ [Next]_vars => Inv'
  <1> SUFFICES ASSUME Inv, [Next]_vars PROVE Inv'
    OBVIOUS
  <1>1. ASSUME NEW r \in Replica, Load(r) \/ Seed(r) \/ Crash(r) PROVE Inv'
    BY <1>1, LoadKeepsInv, SeedKeepsInv, CrashKeepsInv
  <1>2. ASSUME NEW t \in Thread, Verify(t) \/ Verifies(t) \/ Persist(t) \/ Save(t) PROVE Inv'
    BY <1>2, VerifyKeepsInv, AdvanceKeepsInv, ParseKeepsInv, ReturnKeepsInv, PersistKeepsInv, SaveKeepsInv DEF Verifies
  <1>3. CASE UNCHANGED vars
    BY <1>3 DEF vars, Inv, Types, Busy, Anchored, Files, Alone, Kept, Host, Up
  <1> QED
    BY <1>1, <1>2, <1>3 DEF Next

LEMMA InvHolds == Spec => []Inv
  BY InitInv, NextKeepsInv, PTL DEF Spec

-----------------------------------------------------------------------------
(* An anchor read is never above the anchor, and nobody verifies on a      *)
(* replica that is not up: the precondition of every compare-exchange.     *)
THEOREM TypeCorrect == Spec => []TypeOK
  <1>1. Inv => TypeOK
    <2> SUFFICES ASSUME Inv PROVE TypeOK
      OBVIOUS
    <2>1. \A t \in Thread : thread[t].pc \in Pcs
      BY DEF Inv, Types
    <2> QED
      BY <2>1 DEF Inv, Types, Busy, TypeOK, Pcs
  <1> QED
    BY <1>1, InvHolds, PTL

(* What save() reported as written is never lost to a slower save of       *)
(* another replica (sigstore_state_redis.rs, SAVE_LUA), nor in a file to    *)
(* a crash, a restart or a save of unknown end, until two saves of its      *)
(* process are under way at once (sigstore_state.rs, the rename); a save    *)
(* that begins never reads less than the file holds; and no verification    *)
(* starts before the anchor is at least what was stored when the replica    *)
(* came up (StateStore::seed).                                              *)
THEOREM StoreHolds == Spec => []StoreTrusted
  <1>1. Inv => SavedIsKept /\ FileFollows
    BY DEF Inv, Kept, SavedIsKept, Files, FileFollows, Up
  <1>2. Inv => SeededFirst
    BY HostIsReplica DEF Inv, Types, Anchored, SeededFirst
  <1>3. Inv => StoreTrusted
    BY <1>1, <1>2 DEF StoreTrusted
  <1> QED
    BY <1>3, InvHolds, PTL

(* The compare-exchange loop of verify_bundle() accepts no checkpoint that *)
(* is smaller than one accepted before on the replica, or than what was    *)
(* stored when it came up.                                                 *)
THEOREM NeverBack == Spec => NoRollback
  <1> DEFINE Accepts(t) == thread[t].pc = "advance" /\ thread'[t].pc = "parse" =>
               /\ thread[t].bundle.checkpoint.size >= highest[Host(t)]
               /\ thread[t].bundle.checkpoint.size >= owed[Host(t)]
  <1>1. Inv /\ [Next]_vars => [\A t \in Thread : Accepts(t)]_vars
    <2> SUFFICES ASSUME Inv, Next, NEW t \in Thread, thread[t].pc = "advance", thread'[t].pc = "parse"
                 PROVE  Accepts(t)
      BY DEF vars
    <2>1. CASE Advance(t)
      BY <2>1, AdvanceKeepsInv
    <2>2. ASSUME ~Advance(t) PROVE FALSE
      <3> USE DEF Inv, Types
      <3>1. ASSUME NEW r \in Replica, Load(r) \/ Seed(r) \/ Crash(r) PROVE FALSE
        BY <3>1 DEF Load, Seed, Crash, Idle
      <3>2. ASSUME NEW u \in Thread, Verify(u) \/ Verifies(u) \/ Persist(u) \/ Save(u) PROVE FALSE
        <4>1. thread[u].pc # "advance" \/ u # t
          BY <2>2, <3>2 DEF Verify, Verifies, Parse, Return, Persist, Save
        <4>2. u # t
          BY <2>2, <3>2, <4>1 DEF Verify, Verifies, Parse, Return, Persist, Save
        <4>3. thread'[t] = thread[t]
          BY <3>2, <4>2 DEF Verify, Verifies, Advance, Parse, Return, Persist, Save
        <4> QED
          BY <4>3
      <3> QED
        BY <3>1, <3>2 DEF Next
    <2> QED
      BY <2>1, <2>2
  <1> QED
    BY <1>1, InvHolds, PTL DEF Spec, NoRollback

-----------------------------------------------------------------------------
(* What is computed by a recursive function is shown for the least number it fails for. *)
LEMMA FirstOf ==
  ASSUME NEW S \in SUBSET Nat, S # {}
  PROVE  \E n \in S : \A m \in S : n <= m
  <1> DEFINE Less == OpToRel(<, Nat)
  <1>1. IsWellFoundedOn(Less, Nat)
    BY NatLessThanWellFounded
  <1>2. \A a, b \in Nat : a < b => <<a, b>> \in Less
    BY DEF OpToRel
  <1> HIDE DEF Less
  <1>3. PICK n \in S : \A m \in S : ~(<<m, n>> \in Less)
    BY <1>1, WFMin
  <1>4. \A m \in S : ~(m < n)
    BY <1>2, <1>3
  <1>5. \A a, b \in Nat : ~(a < b) => b <= a
    OBVIOUS
  <1> QED
    BY <1>3, <1>4, <1>5

LEMMA UpTo ==
  ASSUME NEW n \in Nat, NEW Good, 0 \in Good, \A k \in 1 .. n : k - 1 \in Good => k \in Good
  PROVE  \A k \in 0 .. n : k \in Good
  <1> DEFINE Bad == {k \in 0 .. n : k \notin Good}
  <1> SUFFICES ASSUME Bad # {} PROVE FALSE
    OBVIOUS
  <1>0. Bad \in SUBSET Nat
    OBVIOUS
  <1>1. PICK k \in Bad : \A m \in Bad : k <= m
    BY <1>0, FirstOf
  <1>2. k # 0 /\ k - 1 \in 0 .. n /\ ~(k <= k - 1) /\ k \in 1 .. n
    BY <1>1
  <1> QED
    BY <1>1, <1>2

-----------------------------------------------------------------------------
(* The certificates are there in their order, and the roots are among them.         *)
LEMMA ListIs ==
  ASSUME NEW s, IsList(s)
  PROVE  s \in Seq(ToSet(s)) /\ Len(s) \in Nat /\ DOMAIN s = 1 .. Len(s)
  BY DEF IsList, ToSet

LEMMA CertificatesAre ==
  ASSUME NEW chain, IsChain(chain)
  PROVE  /\ Certificates(chain) \in Seq(Pool(chain))
         /\ ToSet(chain.roots) \subseteq Pool(chain)
  <1> DEFINE b == chain.bundle
             p == chain.pinned
             r == chain.roots
             A == ToSet(b) \cup ToSet(p) \cup ToSet(r)
             s == Certificates(chain)
  <1>1. IsList(b) /\ IsList(p) /\ IsList(r)
    BY DEF IsChain
  <1>2. b \in Seq(A) /\ p \in Seq(A) /\ r \in Seq(A)
    <2>1. \A x \in {b, p, r} : x \in Seq(ToSet(x)) /\ ToSet(x) \subseteq A
      BY <1>1, ListIs
    <2> QED
      BY <2>1
  <1>3. b \o p \in Seq(A) /\ b \o p \o r \in Seq(A)
    BY <1>2, ConcatProperties
  <1>4. /\ s \in Seq(A) /\ Len(s) = Len(b \o p) + Len(r) /\ Len(s) \in Nat /\ Len(b \o p) \in Nat
        /\ \A i \in 1 .. Len(s) : s[i] = IF i <= Len(b \o p) THEN (b \o p)[i] ELSE r[i - Len(b \o p)]
    BY <1>2, <1>3, ConcatProperties, LenProperties DEF Certificates
  <1>5. DOMAIN s = 1 .. Len(s) /\ DOMAIN r = 1 .. Len(r) /\ Len(r) \in Nat
    BY <1>1, <1>4, ListIs, LenProperties
  <1> HIDE DEF s, A, b, p
  <1>6. s \in Seq(ToSet(s))
    <2>1. s = [i \in 1 .. Len(s) |-> s[i]]
      BY <1>4, <1>5
    <2> QED
      BY <1>4, <2>1, <1>5, ListIs DEF IsList
  <1>7. ASSUME NEW i \in 1 .. Len(r) PROVE r[i] \in ToSet(s)
    <2>1. PICK j \in Nat : j = i + Len(b \o p)
      BY <1>4
    <2>2. j \in 1 .. Len(s) /\ ~(j <= Len(b \o p)) /\ j - Len(b \o p) = i
      BY <1>4, <1>5, <2>1
    <2>3. s[j] = r[i]
      BY <1>4, <2>2
    <2> QED
      BY <1>5, <2>2, <2>3 DEF ToSet
  <1> QED
    BY <1>5, <1>6, <1>7 DEF Pool, ToSet, s

(* The issuer that find() takes.                                                       *)
LEMMA IssuerIs ==
  ASSUME NEW chain, IsChain(chain), NEW cert, Named(chain, cert.issuer) # {}
  PROVE  Issuer(chain, cert) \in Pool(chain) /\ Issuer(chain, cert).subject = cert.issuer
  <1> DEFINE S == Named(chain, cert.issuer)
             s == Certificates(chain)
  <1>1. Len(s) \in Nat /\ DOMAIN s = 1 .. Len(s)
    BY CertificatesAre, LenProperties
  <1>2. S \in SUBSET Nat
    BY <1>1 DEF Named
  <1>3. PICK n \in S : \A m \in S : n <= m
    BY <1>2, FirstOf
  <1>4. Min(S) \in S
    BY <1>3 DEF Min
  <1> QED
    BY <1>4 DEF Named, Issuer, Pool, ToSet

LEMMA NamedSome ==
  ASSUME NEW chain, NEW cert, NEW c \in Pool(chain), c.subject = cert.issuer
  PROVE  Named(chain, cert.issuer) # {}
  BY DEF Pool, ToSet, Named

-----------------------------------------------------------------------------
(* One hop, by its outcomes.                                                          *)
Stop(v, c, n) == [cert |-> c, below |-> n, verdict |-> v]

LEMMA HopIs ==
  ASSUME NEW chain, NEW c, NEW n \in Nat, NEW I, I = Issuer(chain, c)
  PROVE  /\ Hop(chain, Stop("trusted", c, n)) = Stop("trusted", c, n)
         /\ Hop(chain, Stop("untrusted", c, n)) = Stop("untrusted", c, n)
         /\ ~c.live => Hop(chain, Stop("walking", c, n)) = Stop("untrusted", c, n)
         /\ c.live /\ SelfIssued(c) =>
              Hop(chain, Stop("walking", c, n)) =
                Stop(IF c \in ToSet(chain.roots) /\ Signed(c, c) /\ c.ca /\ c.known THEN "trusted" ELSE "untrusted", c, n)
         /\ c.live /\ ~SelfIssued(c) =>
              IF Named(chain, c.issuer) = {} \/ ~Signed(c, I) \/ ~MayIssue(I, n)
              THEN Hop(chain, Stop("walking", c, n)) = Stop("untrusted", c, n)
              ELSE IF I \in ToSet(chain.roots)
              THEN Hop(chain, Stop("walking", c, n)) = Stop(IF I.live THEN "trusted" ELSE "untrusted", c, n)
              ELSE Hop(chain, Stop("walking", c, n)) = Stop("walking", I, n + 1)
  <1>1. Hop(chain, Stop("trusted", c, n)) = Stop("trusted", c, n) /\ Hop(chain, Stop("untrusted", c, n)) = Stop("untrusted", c, n)
    BY DEF Hop, Stop
  <1>2. ~c.live => Hop(chain, Stop("walking", c, n)) = Stop("untrusted", c, n)
    BY DEF Hop, Stop
  <1>3. c.live /\ SelfIssued(c) =>
          Hop(chain, Stop("walking", c, n)) =
            Stop(IF c \in ToSet(chain.roots) /\ Signed(c, c) /\ c.ca /\ c.known THEN "trusted" ELSE "untrusted", c, n)
    BY DEF Hop, Stop
  <1>4. ASSUME c.live, ~SelfIssued(c)
        PROVE  IF Named(chain, c.issuer) = {} \/ ~Signed(c, I) \/ ~MayIssue(I, n)
               THEN Hop(chain, Stop("walking", c, n)) = Stop("untrusted", c, n)
               ELSE IF I \in ToSet(chain.roots)
               THEN Hop(chain, Stop("walking", c, n)) = Stop(IF I.live THEN "trusted" ELSE "untrusted", c, n)
               ELSE Hop(chain, Stop("walking", c, n)) = Stop("walking", I, n + 1)
    BY <1>4 DEF Hop, Stop
  <1> QED
    BY <1>1, <1>2, <1>3, <1>4

LEMMA HopUp ==
  ASSUME NEW chain, NEW c, NEW n \in Nat, c.live, ~SelfIssued(c), Named(chain, c.issuer) # {},
         Signed(c, Issuer(chain, c)), MayIssue(Issuer(chain, c), n), Issuer(chain, c).live
  PROVE  IF Issuer(chain, c) \in ToSet(chain.roots)
         THEN Hop(chain, Stop("walking", c, n)) = Stop("trusted", c, n)
         ELSE Hop(chain, Stop("walking", c, n)) = Stop("walking", Issuer(chain, c), n + 1)
  BY DEF Hop, Stop

(* The walk, hop by hop.                                                              *)
Walks(w, chain, n) ==
  w = [k \in 0 .. n |-> IF k = 0 THEN Stop("walking", chain.leaf, 0) ELSE Hop(chain, w[k - 1])]

LEMMA WalksFurther ==
  ASSUME NEW chain, NEW n \in Nat, n # 0, NEW u, Walks(u, chain, n - 1)
  PROVE  \E w : Walks(w, chain, n)
  <1>1. n - 1 \in 0 .. n - 1 /\ n \in 0 .. n /\ n - 1 \in Nat
    OBVIOUS
  <1>2. PICK v : v = Hop(chain, u[n - 1])
    OBVIOUS
  <1>3. PICK w : w = [k \in 0 .. n |-> IF k = n THEN v ELSE u[k]]
    OBVIOUS
  <1>4. \A k \in 0 .. n : k # n => k \in 0 .. n - 1 /\ w[k] = u[k]
    BY <1>3
  <1>5. ASSUME NEW k \in 0 .. n
        PROVE  w[k] = IF k = 0 THEN Stop("walking", chain.leaf, 0) ELSE Hop(chain, w[k - 1])
    <2>1. k # 0 => k - 1 \in 0 .. n /\ k - 1 # n
      OBVIOUS
    <2>2. k # 0 => w[k - 1] = u[k - 1]
      BY <1>4, <2>1
    <2>3. CASE k = n
      BY <1>2, <1>3, <2>2, <2>3
    <2>4. CASE k # n
      BY <1>4, <2>2, <2>4 DEF Walks
    <2> QED
      BY <2>3, <2>4
  <1> QED
    BY <1>3, <1>5 DEF Walks

LEMMA WalkExists ==
  ASSUME NEW chain, NEW n \in Nat
  PROVE  \E w : Walks(w, chain, n)
  <1> DEFINE S == {k \in 0 .. n : ~\E w : Walks(w, chain, k)}
  <1> SUFFICES ASSUME S # {} PROVE FALSE
    OBVIOUS
  <1>1. S \in SUBSET Nat
    OBVIOUS
  <1>2. PICK k \in S : \A m \in S : k <= m
    BY <1>1, FirstOf
  <1>3. k \in Nat /\ k <= n /\ ~\E w : Walks(w, chain, k)
    BY <1>2
  <1>4. k # 0
    <2>1. PICK w : w = [i \in 0 .. 0 |-> Stop("walking", chain.leaf, 0)]
      OBVIOUS
    <2>2. \A i \in 0 .. 0 : i = 0
      OBVIOUS
    <2>3. Walks(w, chain, 0)
      BY <2>1, <2>2 DEF Walks
    <2> QED
      BY <1>3, <2>3
  <1>5. k - 1 \in 0 .. n /\ ~(k <= k - 1)
    BY <1>3, <1>4
  <1>6. PICK u : Walks(u, chain, k - 1)
    BY <1>2, <1>5
  <1> QED
    BY <1>3, <1>4, <1>6, WalksFurther

LEMMA TrustedIs ==
  ASSUME NEW chain
  PROVE  \E w : Walks(w, chain, MaxHops) /\ (Trusted(chain) <=> w[MaxHops].verdict = "trusted")
  <1> DEFINE Right(w) == w = [n \in 0 .. MaxHops |-> IF n = 0 THEN [cert |-> chain.leaf, below |-> 0, verdict |-> "walking"]
                                                      ELSE Hop(chain, w[n - 1])]
             v == CHOOSE w : Right(w)
  <1>1. \E w : Right(w)
    <2>1. PICK w : Walks(w, chain, MaxHops)
      BY AnchorAssumption, WalkExists DEF AnchorAssumption
    <2>2. Right(w)
      BY ONLY <2>1 DEF Walks, Stop
    <2> QED
      BY <2>2
  <1>2. Right(v)
    BY <1>1
  <1>3. Trusted(chain) <=> v[MaxHops].verdict = "trusted"
    BY DEF Trusted
  <1> HIDE DEF v
  <1> QED
    BY <1>2, <1>3 DEF Walks, Stop

-----------------------------------------------------------------------------
(* A path by the certificates above the leaf, and its links.                         *)
Vouches(issuer, cert, below) ==
  /\ cert.issuer = issuer.subject /\ cert.signer = issuer.key
  /\ issuer.ca /\ issuer.known /\ below <= issuer.pathLen
  /\ ~SelfIssued(cert)
Route(chain, r, n) ==
  /\ r[0] = chain.leaf /\ \A i \in 1 .. n : r[i] \in Pool(chain)
  /\ \A i \in 0 .. n - 1 : r[i].live /\ Vouches(r[i + 1], r[i], i)
Arrives(chain, r, n) ==
  /\ r[n].live /\ r[n] \in ToSet(chain.roots)
  /\ n = 0 => r[0].signer = r[0].key /\ r[0].ca /\ r[0].known /\ SelfIssued(r[0])
Above1(chain, q, n) == [i \in 0 .. n |-> IF i = 0 THEN chain.leaf ELSE q[i]]

LEMMA PathIs ==
  ASSUME NEW chain, NEW n \in Nat, NEW q \in [1 .. n -> Pool(chain)], NEW r, r = Above1(chain, q, n)
  PROVE  IsPath(chain, << chain.leaf >> \o q) <=> Route(chain, r, n) /\ Arrives(chain, r, n)
  <1> DEFINE A == Pool(chain) \cup {chain.leaf}
             s == << chain.leaf >> \o q
  <1>1. /\ << chain.leaf >> \in Seq(A) /\ q \in Seq(A) /\ Len(q) = n /\ Len(<< chain.leaf >>) = 1
        /\ << chain.leaf >>[1] = chain.leaf
    <2>1. q \in Seq(A)
      <3>1. q \in [1 .. n -> A]
        OBVIOUS
      <3> HIDE DEF A
      <3> QED
        BY <3>1
    <2> QED
      BY <2>1, LenProperties
  <1>2. /\ s \in Seq(A) /\ Len(s) = n + 1
        /\ \A i \in 1 .. n + 1 : s[i] = IF i <= 1 THEN << chain.leaf >>[i] ELSE q[i - 1]
    BY <1>1, ConcatProperties
  <1> HIDE DEF s, A
  <1>3. \A i \in 0 .. n : i + 1 \in 1 .. n + 1 /\ s[i + 1] = r[i]
    <2> SUFFICES ASSUME NEW i \in 0 .. n PROVE i + 1 \in 1 .. n + 1 /\ s[i + 1] = r[i]
      OBVIOUS
    <2>1. CASE i = 0
      BY <1>1, <1>2, <2>1 DEF Above1
    <2>2. CASE i # 0
      BY <1>2, <2>2 DEF Above1
    <2> QED
      BY <2>1, <2>2
  <1>4. \A i \in 1 .. n + 1 : i - 1 \in 0 .. n /\ s[i] = r[i - 1]
    <2> SUFFICES ASSUME NEW i \in 1 .. n + 1 PROVE i - 1 \in 0 .. n /\ s[i] = r[i - 1]
      OBVIOUS
    <2>1. i - 1 \in 0 .. n /\ (i - 1) + 1 = i
      OBVIOUS
    <2> QED
      BY <1>3, <2>1
  <1>5. Last(s) = s[n + 1]
    BY <1>2 DEF Last
  <1>6. /\ s[1] = r[0] /\ s[n + 1] = r[n] /\ r[0] = chain.leaf
        /\ \A i \in 1 .. n : r[i] \in Pool(chain)
    <2>1. r[0] = chain.leaf /\ \A i \in 1 .. n : i # 0 /\ i \in 0 .. n /\ r[i] = q[i]
      BY DEF Above1
    <2> QED
      BY <1>3, <2>1
  <1> DEFINE Link(i) == r[i - 1].live /\ Vouches(r[i], r[i - 1], i - 1)
             Linked(i) == /\ s[i].issuer = s[i + 1].subject /\ s[i].signer = s[i + 1].key
                          /\ s[i + 1].ca /\ s[i + 1].known /\ i - 1 <= s[i + 1].pathLen
                          /\ ~SelfIssued(s[i])
  <1>7. \A i \in 1 .. n : s[i] = r[i - 1] /\ s[i + 1] = r[i]
    BY <1>3, <1>4
  <1>8. (\A i \in 1 .. n + 1 : s[i].live) <=> r[n].live /\ \A i \in 1 .. n : r[i - 1].live
    <2>1. \A i \in 1 .. n + 1 : i \in 1 .. n \/ i = n + 1
      OBVIOUS
    <2>2. n + 1 \in 1 .. n + 1 /\ \A i \in 1 .. n : i \in 1 .. n + 1
      OBVIOUS
    <2> QED
      BY <1>6, <1>7, <2>1, <2>2
  <1>9. (\A i \in 1 .. n : Linked(i)) <=> \A i \in 1 .. n : Vouches(r[i], r[i - 1], i - 1)
    <2>1. ASSUME NEW i \in 1 .. n PROVE Linked(i) <=> Vouches(r[i], r[i - 1], i - 1)
      BY ONLY <1>7, <2>1 DEF Vouches
    <2> QED
      BY <2>1
  <1>10. Route(chain, r, n) <=> \A i \in 1 .. n : Link(i)
    <2>1. \A i \in 1 .. n : i - 1 \in 0 .. n - 1 /\ (i - 1) + 1 = i
      OBVIOUS
    <2>2. \A i \in 0 .. n - 1 : i + 1 \in 1 .. n /\ (i + 1) - 1 = i
      OBVIOUS
    <2>3. ASSUME Route(chain, r, n), NEW i \in 1 .. n PROVE Link(i)
      <3>1. PICK j \in 0 .. n - 1 : j = i - 1 /\ j + 1 = i
        BY <2>1
      <3>2. r[j].live /\ Vouches(r[j + 1], r[j], j)
        BY <2>3 DEF Route
      <3> QED
        BY <3>1, <3>2
    <2>4. ASSUME \A i \in 1 .. n : Link(i), NEW j \in 0 .. n - 1 PROVE r[j].live /\ Vouches(r[j + 1], r[j], j)
      <3>1. PICK i \in 1 .. n : i = j + 1 /\ i - 1 = j
        BY <2>2
      <3>2. Link(i)
        BY <2>4
      <3> QED
        BY <3>1, <3>2
    <2> QED
      BY <1>6, <2>3, <2>4 DEF Route
  <1>11. IsPath(chain, s) <=>
           /\ s[n + 1] \in ToSet(chain.roots)
           /\ \A i \in 1 .. n + 1 : s[i].live
           /\ \A i \in 1 .. n : Linked(i)
           /\ n = 0 => s[1].signer = s[1].key /\ s[1].ca /\ s[1].known /\ SelfIssued(s[1])
    <2>1. Len(s) - 1 = n /\ (Len(s) = 1 <=> n = 0)
      BY <1>2
    <2> QED
      BY <1>2, <1>5, <1>6, <2>1 DEF IsPath
  <1> QED
    BY <1>6, <1>8, <1>9, <1>10, <1>11 DEF Arrives, s

LEMMA HasPathIs ==
  ASSUME NEW chain
  PROVE  HasPath(chain) <=> \E n \in 0 .. MaxHops : \E r : Route(chain, r, n) /\ Arrives(chain, r, n)
  <1>0. MaxHops \in Nat
    BY AnchorAssumption DEF AnchorAssumption
  <1>1. ASSUME HasPath(chain) PROVE \E n \in 0 .. MaxHops : \E r : Route(chain, r, n) /\ Arrives(chain, r, n)
    <2>1. PICK n \in 0 .. MaxHops : \E q \in [1 .. n -> Pool(chain)] : IsPath(chain, << chain.leaf >> \o q)
      BY <1>1 DEF HasPath
    <2>2. PICK q \in [1 .. n -> Pool(chain)] : IsPath(chain, << chain.leaf >> \o q)
      BY <2>1
    <2>3. n \in Nat
      BY <1>0
    <2>4. PICK r : r = Above1(chain, q, n)
      OBVIOUS
    <2> QED
      BY <2>2, <2>3, <2>4, PathIs
  <1>2. ASSUME NEW n \in 0 .. MaxHops, NEW r, Route(chain, r, n), Arrives(chain, r, n) PROVE HasPath(chain)
    <2>1. PICK q \in [1 .. n -> Pool(chain)] : q = [i \in 1 .. n |-> r[i]]
      BY <1>2 DEF Route
    <2>2. PICK u : u = Above1(chain, q, n)
      OBVIOUS
    <2>3. n \in Nat
      BY <1>0
    <2>4. \A i \in 0 .. n : u[i] = r[i]
      BY <1>2, <2>1, <2>2 DEF Above1, Route
    <2>5. \A i \in 1 .. n : i \in 0 .. n
      OBVIOUS
    <2>6. \A i \in 0 .. n - 1 : i \in 0 .. n /\ i + 1 \in 0 .. n
      BY <2>3
    <2>7. 0 \in 0 .. n /\ n \in 0 .. n
      BY <2>3
    <2>8. Route(chain, u, n)
      BY <1>2, <2>4, <2>5, <2>6, <2>7 DEF Route
    <2>9. Arrives(chain, u, n)
      BY <1>2, <2>4, <2>7 DEF Arrives
    <2>10. IsPath(chain, << chain.leaf >> \o q)
      BY <2>2, <2>3, <2>8, <2>9, PathIs
    <2> QED
      BY <2>10 DEF HasPath
  <1> QED
    BY <1>1, <1>2

LEMMA Hops ==
  ASSUME NEW chain, NEW n \in Nat, NEW w, Walks(w, chain, n)
  PROVE  /\ w[0] = Stop("walking", chain.leaf, 0)
         /\ \A k \in 1 .. n : k \in 0 .. n /\ k - 1 \in 0 .. n /\ w[k] = Hop(chain, w[k - 1])
  <1>1. \A k \in 1 .. n : k \in 0 .. n /\ k # 0 /\ k - 1 \in 0 .. n
    OBVIOUS
  <1> QED
    BY <1>1 DEF Walks

(* As long as it walks there is a path to where it is, outside the roots.             *)
OnRoute(chain, at, k) ==
  \/ \E r : Route(chain, r, k) /\ at = Stop("walking", r[k], k) /\ (k # 0 => r[k] \notin ToSet(chain.roots))
  \/ \E c, m : m \in Nat /\ at = Stop("untrusted", c, m)
  \/ \E c, m : m \in Nat /\ at = Stop("trusted", c, m) /\ \E n \in 0 .. k : \E r : Route(chain, r, n) /\ Arrives(chain, r, n)

LEMMA RouteLonger ==
  ASSUME NEW chain, NEW k \in Nat, NEW r, Route(chain, r, k), r[k].live,
         NEW issuer \in Pool(chain), Vouches(issuer, r[k], k)
  PROVE  \E u : Route(chain, u, k + 1) /\ u[k + 1] = issuer
  <1>1. PICK u : u = [i \in 0 .. k + 1 |-> IF i = k + 1 THEN issuer ELSE r[i]]
    OBVIOUS
  <1>2. u[k + 1] = issuer /\ \A i \in 0 .. k : u[i] = r[i]
    BY <1>1
  <1>3. \A i \in 0 .. k : i # k => i \in 0 .. k - 1 /\ i + 1 \in 0 .. k
    OBVIOUS
  <1>4. ASSUME NEW i \in 0 .. k PROVE u[i].live /\ Vouches(u[i + 1], u[i], i)
    BY <1>2, <1>3 DEF Route
  <1>5. \A i \in 1 .. k + 1 : i = k + 1 \/ (i \in 0 .. k /\ i \in 1 .. k)
    OBVIOUS
  <1>6. \A i \in 1 .. k + 1 : u[i] \in Pool(chain)
    BY <1>2, <1>5 DEF Route
  <1>7. 0 \in 0 .. k /\ (k + 1) - 1 = k
    OBVIOUS
  <1> QED
    BY <1>2, <1>4, <1>6, <1>7 DEF Route

LEMMA StaysOnRoute ==
  ASSUME NEW chain, IsChain(chain), NEW k \in Nat, NEW at, OnRoute(chain, at, k)
  PROVE  OnRoute(chain, Hop(chain, at), k + 1)
  <1>1. ASSUME NEW c, NEW m \in Nat, at = Stop("untrusted", c, m) PROVE OnRoute(chain, Hop(chain, at), k + 1)
    BY <1>1, HopIs DEF OnRoute
  <1>2. ASSUME NEW c, NEW m \in Nat, at = Stop("trusted", c, m), NEW n \in 0 .. k,
               NEW r, Route(chain, r, n), Arrives(chain, r, n)
        PROVE  OnRoute(chain, Hop(chain, at), k + 1)
    <2>1. n \in 0 .. k + 1
      OBVIOUS
    <2>2. Hop(chain, at) = Stop("trusted", c, m)
      BY <1>2, HopIs
    <2> QED
      BY <1>2, <2>1, <2>2 DEF OnRoute
  <1>3. ASSUME NEW r, Route(chain, r, k), at = Stop("walking", r[k], k), k # 0 => r[k] \notin ToSet(chain.roots)
        PROVE  OnRoute(chain, Hop(chain, at), k + 1)
    <2>1. PICK c, issuer : c = r[k] /\ issuer = Issuer(chain, c)
      OBVIOUS
    <2>2. CASE Hop(chain, at) = Stop("untrusted", c, k)
      BY <2>2 DEF OnRoute
    <2>3. CASE Hop(chain, at) = Stop("trusted", c, k) /\ c.live /\ SelfIssued(c)
      <3>1. c \in ToSet(chain.roots) /\ Signed(c, c) /\ c.ca /\ c.known
        <4>1. Stop("trusted", c, k) # Stop("untrusted", c, k)
          BY DEF Stop
        <4> QED
          BY <1>3, <2>1, <2>3, <4>1, HopIs
      <3>2. k = 0
        BY <1>3, <2>1, <3>1
      <3>3. Arrives(chain, r, 0)
        BY <2>1, <2>3, <3>1, <3>2 DEF Arrives, Signed
      <3>4. 0 \in 0 .. k + 1
        OBVIOUS
      <3> QED
        BY <1>3, <2>3, <3>2, <3>3, <3>4 DEF OnRoute
    <2>4. ASSUME c.live, ~SelfIssued(c), Named(chain, c.issuer) # {}, Signed(c, issuer), MayIssue(issuer, k)
          PROVE  OnRoute(chain, Hop(chain, at), k + 1)
      <3>1. issuer \in Pool(chain) /\ issuer.subject = c.issuer
        BY <2>1, <2>4, IssuerIs
      <3>2. Vouches(issuer, c, k)
        BY <2>4, <3>1 DEF Vouches, Signed, MayIssue
      <3>3. PICK u : Route(chain, u, k + 1) /\ u[k + 1] = issuer
        BY <1>3, <2>1, <2>4, <3>1, <3>2, RouteLonger
      <3>4. IF issuer \in ToSet(chain.roots)
            THEN Hop(chain, at) = Stop(IF issuer.live THEN "trusted" ELSE "untrusted", c, k)
            ELSE Hop(chain, at) = Stop("walking", issuer, k + 1)
        BY <1>3, <2>1, <2>4, HopIs
      <3>5. k + 1 \in 0 .. k + 1 /\ k + 1 # 0
        OBVIOUS
      <3>6. CASE issuer \in ToSet(chain.roots) /\ issuer.live
        <4>1. Arrives(chain, u, k + 1)
          BY <3>3, <3>5, <3>6 DEF Arrives
        <4>2. Hop(chain, at) = Stop("trusted", c, k)
          BY <3>4, <3>6
        <4> QED
          BY <3>3, <3>5, <4>1, <4>2 DEF OnRoute
      <3>7. CASE issuer \in ToSet(chain.roots) /\ ~issuer.live
        BY <3>4, <3>7 DEF OnRoute
      <3>8. CASE issuer \notin ToSet(chain.roots)
        <4>1. Hop(chain, at) = Stop("walking", u[k + 1], k + 1) /\ u[k + 1] \notin ToSet(chain.roots)
          BY <3>3, <3>4, <3>8
        <4> QED
          BY <3>3, <4>1 DEF OnRoute
      <3> QED
        BY <3>6, <3>7, <3>8
    <2>5. \/ Hop(chain, at) = Stop("untrusted", c, k)
          \/ Hop(chain, at) = Stop("trusted", c, k) /\ c.live /\ SelfIssued(c)
          \/ c.live /\ ~SelfIssued(c) /\ Named(chain, c.issuer) # {} /\ Signed(c, issuer) /\ MayIssue(issuer, k)
      BY <1>3, <2>1, HopIs
    <2> QED
      BY <2>2, <2>3, <2>4, <2>5
  <1> QED
    BY <1>1, <1>2, <1>3 DEF OnRoute

LEMMA TrustIsSound == ASSUME NEW chain, IsChain(chain), Trusted(chain) PROVE HasPath(chain)
  <1>0. MaxHops \in Nat
    BY AnchorAssumption DEF AnchorAssumption
  <1>1. PICK w : Walks(w, chain, MaxHops) /\ w[MaxHops].verdict = "trusted"
    BY TrustedIs
  <1>2. /\ w[0] = Stop("walking", chain.leaf, 0)
        /\ \A k \in 1 .. MaxHops : w[k] = Hop(chain, w[k - 1])
    BY <1>0, <1>1, Hops
  <1> DEFINE Good == {k \in Nat : OnRoute(chain, w[k], k)}
  <1>3. 0 \in Good
    <2>1. PICK r : r = [i \in 0 .. 0 |-> chain.leaf]
      OBVIOUS
    <2>2. r[0] = chain.leaf /\ 1 .. 0 = {} /\ 0 .. 0 - 1 = {} /\ 0 \in Nat
      BY <2>1
    <2>3. Route(chain, r, 0)
      BY <2>2 DEF Route
    <2> QED
      BY <1>2, <2>2, <2>3 DEF OnRoute
  <1>4. ASSUME NEW k \in 1 .. MaxHops, k - 1 \in Good PROVE k \in Good
    <2>1. PICK l : l = k - 1
      OBVIOUS
    <2>2. l \in Nat /\ l + 1 = k /\ k \in Nat
      BY <2>1
    <2>3. OnRoute(chain, w[l], l)
      BY <1>4, <2>1
    <2>4. OnRoute(chain, Hop(chain, w[l]), l + 1)
      BY <2>2, <2>3, StaysOnRoute
    <2>5. w[k] = Hop(chain, w[l])
      BY <1>2, <2>1
    <2> QED
      BY <2>2, <2>4, <2>5
  <1>5. MaxHops \in Good
    <2> HIDE DEF Good
    <2>1. \A k \in 0 .. MaxHops : k \in Good
      BY <1>0, <1>3, <1>4, UpTo
    <2> QED
      BY <1>0, <2>1
  <1>6. \E n \in 0 .. MaxHops : \E r : Route(chain, r, n) /\ Arrives(chain, r, n)
    <2>1. \A v, c, m : Stop(v, c, m).verdict = v
      BY DEF Stop
    <2>2. OnRoute(chain, w[MaxHops], MaxHops)
      BY <1>5
    <2> QED
      BY <1>1, <2>1, <2>2 DEF OnRoute
  <1> QED
    BY <1>6, HasPathIs

(* Where names differ the walk follows the path.                                       *)
LEMMA TrustIsFound ==
  ASSUME NEW chain, IsChain(chain), NamesDiffer(chain), HasPath(chain)
  PROVE  Trusted(chain)
  <1>0. MaxHops \in Nat /\ MaxHops # 0
    BY AnchorAssumption DEF AnchorAssumption
  <1>1. PICK w : Walks(w, chain, MaxHops) /\ (Trusted(chain) <=> w[MaxHops].verdict = "trusted")
    BY TrustedIs
  <1>2. /\ w[0] = Stop("walking", chain.leaf, 0)
        /\ \A k \in 1 .. MaxHops : w[k] = Hop(chain, w[k - 1])
    BY <1>0, <1>1, Hops
  <1>3. PICK n \in 0 .. MaxHops : \E r : Route(chain, r, n) /\ Arrives(chain, r, n)
    BY HasPathIs
  <1>4. PICK r : Route(chain, r, n) /\ Arrives(chain, r, n)
    BY <1>3
  <1>5. n \in Nat
    BY <1>0
  <1> DEFINE On(k) == \/ \E c, m : m \in Nat /\ w[k] = Stop("trusted", c, m)
                      \/ k <= n /\ w[k] = Stop("walking", r[k], k) /\ (k # 0 => r[k] \notin ToSet(chain.roots))
             Good == {k \in Nat : On(k)}
  <1>6. 0 \in Good
    <2>1. r[0] = chain.leaf /\ 0 <= n
      BY <1>4, <1>5 DEF Route
    <2> QED
      BY <1>2, <2>1
  <1>7. ASSUME NEW l \in 0 .. MaxHops - 1, On(l) PROVE On(l + 1)
    <2>0. l \in Nat /\ l + 1 \in 1 .. MaxHops /\ (l + 1) - 1 = l
      BY <1>0
    <2>1. w[l + 1] = Hop(chain, w[l])
      BY <1>2, <2>0
    <2>2. CASE \E c, m : m \in Nat /\ w[l] = Stop("trusted", c, m)
      BY <2>1, <2>2, HopIs
    <2>3. ASSUME l <= n, w[l] = Stop("walking", r[l], l), l # 0 => r[l] \notin ToSet(chain.roots)
          PROVE  On(l + 1)
      <3>1. CASE l = n
        <4>1. l = 0
          BY <1>4, <2>3, <3>1 DEF Arrives
        <4>2. r[0].live /\ SelfIssued(r[0]) /\ r[0] \in ToSet(chain.roots) /\ Signed(r[0], r[0]) /\ r[0].ca /\ r[0].known
          BY <1>4, <3>1, <4>1 DEF Arrives, Signed
        <4>3. PICK issuer : issuer = Issuer(chain, r[0])
          OBVIOUS
        <4>4. Hop(chain, w[l]) = Stop("trusted", r[0], 0)
          BY <2>3, <4>1, <4>2, <4>3, HopIs
        <4> QED
          BY <2>1, <4>4
      <3>2. ASSUME l < n PROVE On(l + 1)
        <4>1. l \in 0 .. n - 1 /\ l + 1 \in 1 .. n
          BY <1>5, <2>0, <3>2
        <4>2. PICK c, i, issuer : c = r[l] /\ i = r[l + 1] /\ issuer = Issuer(chain, c)
          OBVIOUS
        <4>3. c.live /\ Vouches(i, c, l) /\ i \in Pool(chain)
          BY <1>4, <4>1, <4>2 DEF Route
        <4>4. Named(chain, c.issuer) # {}
          BY <4>3, NamedSome DEF Vouches
        <4>5. issuer \in Pool(chain) /\ issuer.subject = c.issuer
          BY <4>2, <4>4, IssuerIs
        <4>6. issuer = i
          BY <4>3, <4>5 DEF NamesDiffer, Vouches
        <4>7. ~SelfIssued(c) /\ Signed(c, i) /\ MayIssue(i, l)
          BY <4>3 DEF Vouches, Signed, MayIssue
        <4>8. i.live
          <5>1. CASE l + 1 = n
            BY <1>4, <4>2, <5>1 DEF Arrives
          <5>2. CASE l + 1 # n
            <6>1. l + 1 \in 0 .. n - 1
              BY <1>5, <2>0, <3>2, <5>2
            <6> QED
              BY <1>4, <4>2, <6>1 DEF Route
          <5> QED
            BY <5>1, <5>2
        <4>9. IF i \in ToSet(chain.roots)
              THEN Hop(chain, w[l]) = Stop("trusted", c, l)
              ELSE Hop(chain, w[l]) = Stop("walking", i, l + 1)
          <5>1. i = Issuer(chain, c)
            BY <4>2, <4>6
          <5>2. w[l] = Stop("walking", c, l)
            BY <2>3, <4>2
          <5>3. /\ l \in Nat /\ c.live /\ ~SelfIssued(c) /\ Named(chain, c.issuer) # {}
                /\ Signed(c, Issuer(chain, c)) /\ MayIssue(Issuer(chain, c), l) /\ Issuer(chain, c).live
            BY <2>0, <4>3, <4>4, <4>7, <4>8, <5>1
          <5>4. IF Issuer(chain, c) \in ToSet(chain.roots)
                THEN Hop(chain, Stop("walking", c, l)) = Stop("trusted", c, l)
                ELSE Hop(chain, Stop("walking", c, l)) = Stop("walking", Issuer(chain, c), l + 1)
            BY ONLY <5>3, HopUp
          <5> QED
            BY ONLY <5>1, <5>2, <5>4
        <4>10. CASE i \in ToSet(chain.roots)
          BY <2>0, <2>1, <4>9, <4>10
        <4>11. CASE i \notin ToSet(chain.roots)
          <5>1. l + 1 <= n
            BY <4>1, <1>5
          <5> QED
            BY <2>1, <4>2, <4>9, <4>11, <5>1
        <4> QED
          BY <4>10, <4>11
      <3> QED
        BY <1>5, <2>0, <2>3, <3>1, <3>2
    <2> QED
      BY <1>7, <2>2, <2>3
  <1>8. ASSUME NEW k \in 1 .. MaxHops, k - 1 \in Good PROVE k \in Good
    <2>1. PICK l \in 0 .. MaxHops - 1 : l = k - 1
      BY <1>0
    <2>2. l + 1 = k /\ k \in Nat
      BY <2>1
    <2>3. On(l)
      BY <1>8, <2>1
    <2>4. On(l + 1)
      BY <1>7, <2>3
    <2> QED
      BY <2>2, <2>4
  <1>9. On(MaxHops)
    <2> HIDE DEF On
    <2>1. Good = {k \in Nat : On(k)}
      OBVIOUS
    <2> HIDE DEF Good
    <2>2. \A k \in 0 .. MaxHops : k \in Good
      BY <1>0, <1>6, <1>8, UpTo
    <2> QED
      BY <1>0, <2>1, <2>2
  <1>10. \A v, c, m : Stop(v, c, m).verdict = v
    BY DEF Stop
  <1>11. ASSUME MaxHops <= n, r[MaxHops] \notin ToSet(chain.roots) PROVE FALSE
    <2>1. n = MaxHops
      BY <1>0, <1>5, <1>11
    <2> QED
      BY <1>4, <1>11, <2>1 DEF Arrives
  <1> QED
    BY <1>0, <1>1, <1>9, <1>10, <1>11

-----------------------------------------------------------------------------
(* The powers of two, and where a tree splits.                               *)
Doubles(T, n) == T = [i \in 0 .. n |-> IF i = 0 THEN 1 ELSE 2 * T[i - 1]]

LEMMA DoublesOn ==
  ASSUME NEW n \in Nat, NEW T, Doubles(T, n)
  PROVE  /\ T[0] = 1
         /\ \A i \in 1 .. n : T[i] = 2 * T[i - 1]
         /\ \A i \in 0 .. n : T[i] \in Nat /\ T[i] > i
  <1>1. T[0] = 1
    BY DEF Doubles
  <1>2. \A i \in 1 .. n : T[i] = 2 * T[i - 1]
    <2>1. \A i \in 1 .. n : i \in 0 .. n /\ i # 0
      OBVIOUS
    <2> QED
      BY <2>1 DEF Doubles
  <1> DEFINE Good == {i \in Nat : T[i] \in Nat /\ T[i] > i}
  <1>3. 0 \in Good
    BY <1>1
  <1>4. ASSUME NEW i \in 1 .. n, i - 1 \in Good PROVE i \in Good
    <2>1. PICK l \in Nat : l = i - 1
      BY <1>4
    <2>2. T[l] \in Nat /\ T[l] > l /\ T[i] = 2 * T[l] /\ i = l + 1
      BY <1>2, <1>4, <2>1
    <2> QED
      BY <2>2
  <1>5. \A i \in 0 .. n : i \in Good
    <2> HIDE DEF Good
    <2> QED
      BY <1>3, <1>4, UpTo
  <1> QED
    BY <1>1, <1>2, <1>5

LEMMA DoublesExist ==
  ASSUME NEW n \in Nat
  PROVE  \E T : Doubles(T, n)
  <1> DEFINE Good == {k \in Nat : \E T : Doubles(T, k)}
  <1>1. 0 \in Good
    <2>1. PICK T : T = [i \in 0 .. 0 |-> 1]
      OBVIOUS
    <2>2. \A i \in 0 .. 0 : i = 0
      OBVIOUS
    <2>3. Doubles(T, 0)
      BY <2>1, <2>2 DEF Doubles
    <2> QED
      BY <2>3
  <1>2. ASSUME NEW k \in 1 .. n, k - 1 \in Good PROVE k \in Good
    <2>1. PICK U : Doubles(U, k - 1)
      BY <1>2
    <2>2. PICK T : T = [i \in 0 .. k |-> IF i = k THEN 2 * U[k - 1] ELSE U[i]]
      OBVIOUS
    <2>3. k - 1 \in 0 .. k /\ k - 1 # k /\ k - 1 \in 0 .. k - 1 /\ k \in 0 .. k
      OBVIOUS
    <2>4. \A i \in 0 .. k : i # k => i \in 0 .. k - 1 /\ T[i] = U[i]
      BY <2>2
    <2>5. T[k] = 2 * T[k - 1]
      BY <2>2, <2>3
    <2>6. ASSUME NEW i \in 0 .. k, i # k PROVE T[i] = IF i = 0 THEN 1 ELSE 2 * T[i - 1]
      <3>1. i # 0 => i - 1 \in 0 .. k /\ i - 1 # k
        OBVIOUS
      <3>2. U[i] = IF i = 0 THEN 1 ELSE 2 * U[i - 1]
        BY <2>1, <2>4, <2>6 DEF Doubles
      <3> QED
        BY <2>4, <2>6, <3>1, <3>2
    <2>7. k # 0
      OBVIOUS
    <2>8. \A i \in 0 .. k : T[i] = IF i = 0 THEN 1 ELSE 2 * T[i - 1]
      BY <2>5, <2>6, <2>7
    <2>9. DOMAIN T = 0 .. k /\ T = [i \in 0 .. k |-> T[i]]
      BY <2>2
    <2>10. Doubles(T, k)
      BY <2>8, <2>9 DEF Doubles
    <2> QED
      BY <2>10
  <1>3. \A k \in 0 .. n : k \in Good
    <2> HIDE DEF Good
    <2> QED
      BY <1>1, <1>2, UpTo
  <1> QED
    BY <1>3

LEMMA PowersAre ==
  ASSUME NEW n \in Nat
  PROVE  \E T : Doubles(T, n) /\ Powers(n) = {T[i] : i \in 0 .. n}
  <1> DEFINE Right(T) == T = [i \in 0 .. n |-> IF i = 0 THEN 1 ELSE 2 * T[i - 1]]
             V == CHOOSE T : Right(T)
  <1>1. \E T : Right(T)
    BY DoublesExist DEF Doubles
  <1>2. Right(V)
    BY <1>1
  <1>3. Powers(n) = {V[i] : i \in 0 .. n}
    BY DEF Powers
  <1> HIDE DEF V
  <1> QED
    BY <1>2, <1>3 DEF Doubles

LEMMA DoublesAgree ==
  ASSUME NEW n \in Nat, NEW T, Doubles(T, n), NEW m \in Nat, NEW U, Doubles(U, m), m <= n
  PROVE  \A i \in 0 .. m : T[i] = U[i]
  <1> DEFINE Good == {i \in Nat : T[i] = U[i]}
  <1>1. 0 \in Good
    BY DoublesOn
  <1>2. ASSUME NEW i \in 1 .. m, i - 1 \in Good PROVE i \in Good
    <2>1. i \in 1 .. n
      OBVIOUS
    <2>2. T[i] = 2 * T[i - 1] /\ U[i] = 2 * U[i - 1]
      BY <2>1, DoublesOn
    <2> QED
      BY <1>2, <2>2
  <1>3. \A i \in 0 .. m : i \in Good
    <2> HIDE DEF Good
    <2> QED
      BY <1>1, <1>2, UpTo
  <1> QED
    BY <1>3

LEMMA DoublesGrow ==
  ASSUME NEW n \in Nat, NEW T, Doubles(T, n), NEW i \in 0 .. n, NEW j \in 0 .. n, i < j
  PROVE  2 * T[i] <= T[j]
  <1> DEFINE Good == {k \in Nat : i < k /\ k <= n => 2 * T[i] <= T[k]}
  <1>1. 0 \in Good
    OBVIOUS
  <1>2. ASSUME NEW k \in 1 .. n, k - 1 \in Good PROVE k \in Good
    <2>1. T[k] = 2 * T[k - 1] /\ k - 1 \in 0 .. n /\ T[k - 1] \in Nat /\ T[i] \in Nat
      BY DoublesOn
    <2>2. CASE i < k - 1
      BY <1>2, <2>1, <2>2
    <2>3. CASE i = k - 1
      BY <2>1, <2>3
    <2> QED
      BY <2>2, <2>3
  <1>3. \A k \in 0 .. n : k \in Good
    <2> HIDE DEF Good
    <2> QED
      BY <1>1, <1>2, UpTo
  <1> QED
    BY <1>3

SplitsAt(n, k) == k \in Powers(n) /\ k < n /\ n <= 2 * k

LEMMA SplitIs ==
  ASSUME NEW n \in Nat, n >= 2
  PROVE  /\ SplitsAt(n, Split(n))
         /\ Split(n) \in 1 .. n - 1 /\ n - Split(n) \in 1 .. n - 1
         /\ \A k : SplitsAt(n, k) => k = Split(n)
  <1>1. PICK T : Doubles(T, n) /\ Powers(n) = {T[i] : i \in 0 .. n}
    BY PowersAre
  <1>2. \A i \in 0 .. n : T[i] \in Nat /\ T[i] > i
    BY <1>1, DoublesOn
  <1>3. \E k : SplitsAt(n, k)
    <2> DEFINE S == {i \in 0 .. n : n <= 2 * T[i]}
    <2>1. n \in S /\ S \in SUBSET Nat
      BY <1>2
    <2>2. PICK i \in S : \A j \in S : i <= j
      BY <2>1, FirstOf
    <2>3. T[i] < n
      <3>1. CASE i = 0
        BY <1>1, <3>1, DoublesOn
      <3>2. CASE i # 0
        <4>1. i - 1 \in 0 .. n /\ i \in 1 .. n /\ ~(i <= i - 1)
          BY <3>2
        <4>2. T[i] = 2 * T[i - 1]
          BY <1>1, <4>1, DoublesOn
        <4>3. T[i - 1] \in Nat /\ ~(n <= 2 * T[i - 1])
          BY <1>2, <2>2, <4>1
        <4> QED
          BY <4>2, <4>3
      <3> QED
        BY <3>1, <3>2
    <2> QED
      BY <1>1, <2>2, <2>3 DEF SplitsAt
  <1>4. ASSUME NEW k, NEW l, SplitsAt(n, k), SplitsAt(n, l) PROVE k = l
    <2>1. PICK i \in 0 .. n : k = T[i]
      BY <1>1, <1>4 DEF SplitsAt
    <2>2. PICK j \in 0 .. n : l = T[j]
      BY <1>1, <1>4 DEF SplitsAt
    <2>3. k \in Nat /\ l \in Nat /\ k < n /\ n <= 2 * k /\ l < n /\ n <= 2 * l
      BY <1>2, <1>4, <2>1, <2>2 DEF SplitsAt
    <2>4. ASSUME i < j PROVE FALSE
      <3>1. 2 * k <= l
        BY <1>1, <2>1, <2>2, <2>4, DoublesGrow
      <3> QED
        BY <2>3, <3>1
    <2>5. ASSUME j < i PROVE FALSE
      <3>1. 2 * l <= k
        BY <1>1, <2>1, <2>2, <2>5, DoublesGrow
      <3> QED
        BY <2>3, <3>1
    <2>6. i = j
      BY <2>4, <2>5
    <2> QED
      BY <2>1, <2>2, <2>6
  <1>5. SplitsAt(n, Split(n))
    BY <1>3 DEF Split, SplitsAt
  <1>6. Split(n) \in Nat
    BY <1>1, <1>2, <1>5 DEF SplitsAt
  <1>7. Split(n) < n /\ n <= 2 * Split(n)
    BY <1>5 DEF SplitsAt
  <1> QED
    BY <1>4, <1>5, <1>6, <1>7

LEMMA SplitHalved ==
  ASSUME NEW n \in Nat, n > 2, NEW m \in Nat, n = 2 * m \/ n = 2 * m - 1
  PROVE  m >= 2 /\ Split(n) = 2 * Split(m)
  <1>1. m >= 2 /\ m < n
    OBVIOUS
  <1>2. PICK T : Doubles(T, n) /\ Powers(n) = {T[i] : i \in 0 .. n}
    BY PowersAre
  <1>3. PICK U : Doubles(U, m) /\ Powers(m) = {U[i] : i \in 0 .. m}
    BY PowersAre
  <1>4. PICK k \in Nat : k = Split(m) /\ k \in Powers(m) /\ k < m /\ m <= 2 * k
    BY <1>1, SplitIs DEF SplitsAt
  <1>5. PICK i \in 0 .. m : k = U[i]
    BY <1>3, <1>4
  <1>6. i + 1 \in 1 .. n /\ i + 1 \in 0 .. n /\ (i + 1) - 1 = i
    BY <1>1
  <1>7. T[i] = U[i]
    BY <1>1, <1>2, <1>3, DoublesAgree
  <1>8. T[i + 1] = 2 * k
    <2>1. \A j \in 1 .. n : T[j] = 2 * T[j - 1]
      BY <1>2, DoublesOn
    <2> QED
      BY <1>5, <1>6, <1>7, <2>1
  <1>9. 2 * k \in Powers(n)
    BY <1>2, <1>6, <1>8
  <1>10. 2 * k < n /\ n <= 2 * (2 * k)
    BY <1>4
  <1>11. SplitsAt(n, 2 * k)
    BY <1>9, <1>10 DEF SplitsAt
  <1> QED
    BY <1>1, <1>4, <1>11, SplitIs

-----------------------------------------------------------------------------
(* The hashes of a tree over any hashes of its leaves, and the path of one. *)
TreeRow(H, B, n, lo) ==
  IF n = 1 THEN B[lo] ELSE NodeHash(H[Split(n)][lo], H[n - Split(n)][lo + Split(n)])
IsTree(H, B, N) == H = [n \in 1 .. N |-> [lo \in Nat |-> TreeRow(H, B, n, lo)]]
PathRow(P, H, i, n, lo) ==
  IF n = 1 THEN <<>>
  ELSE IF i < lo + Split(n) THEN Append(P[Split(n)][lo], H[n - Split(n)][lo + Split(n)])
  ELSE Append(P[n - Split(n)][lo + Split(n)], H[Split(n)][lo])
IsPathOf(P, H, i, N) == P = [n \in 1 .. N |-> [lo \in Nat |-> PathRow(P, H, i, n, lo)]]

LEMMA TreeExists ==
  ASSUME NEW N \in Nat, NEW B
  PROVE  \E H : IsTree(H, B, N)
  <1> DEFINE Good == {k \in Nat : \E H : IsTree(H, B, k)}
  <1>1. 0 \in Good
    <2>1. PICK H : H = [n \in 1 .. 0 |-> 0]
      OBVIOUS
    <2>2. 1 .. 0 = {}
      OBVIOUS
    <2>3. IsTree(H, B, 0)
      BY <2>1, <2>2 DEF IsTree
    <2> QED
      BY <2>3
  <1>2. ASSUME NEW k \in 1 .. N, k - 1 \in Good PROVE k \in Good
    <2>1. PICK G : IsTree(G, B, k - 1)
      BY <1>2
    <2>2. PICK H : H = [n \in 1 .. k |-> IF n = k THEN [lo \in Nat |-> TreeRow(G, B, k, lo)] ELSE G[n]]
      OBVIOUS
    <2>3. \A n \in 1 .. k : n # k => n \in 1 .. k - 1 /\ H[n] = G[n]
      BY <2>2
    <2>4. ASSUME NEW n \in 1 .. k, NEW lo \in Nat PROVE TreeRow(G, B, n, lo) = TreeRow(H, B, n, lo)
      <3>1. CASE n = 1
        BY <3>1 DEF TreeRow
      <3>2. CASE n # 1
        <4>1. Split(n) \in 1 .. n - 1 /\ n - Split(n) \in 1 .. n - 1
          BY <3>2, SplitIs
        <4>2. Split(n) \in 1 .. k /\ Split(n) # k /\ n - Split(n) \in 1 .. k /\ n - Split(n) # k
          BY <4>1
        <4>3. G[Split(n)] = H[Split(n)] /\ G[n - Split(n)] = H[n - Split(n)]
          BY <2>3, <4>2
        <4> QED
          BY <3>2, <4>3 DEF TreeRow
      <3> QED
        BY <3>1, <3>2
    <2>5. ASSUME NEW n \in 1 .. k PROVE H[n] = [lo \in Nat |-> TreeRow(H, B, n, lo)]
      <3>1. CASE n = k
        <4>1. H[n] = [lo \in Nat |-> TreeRow(G, B, n, lo)]
          BY <2>2, <3>1
        <4> QED
          BY <2>4, <4>1
      <3>2. CASE n # k
        <4>1. H[n] = [lo \in Nat |-> TreeRow(G, B, n, lo)]
          BY <2>1, <2>3, <3>2 DEF IsTree
        <4> QED
          BY <2>4, <4>1
      <3> QED
        BY <3>1, <3>2
    <2>6. H = [n \in 1 .. k |-> H[n]]
      BY <2>2
    <2>7. IsTree(H, B, k)
      BY <2>5, <2>6 DEF IsTree
    <2> QED
      BY <2>7
  <1>3. \A k \in 0 .. N : k \in Good
    <2> HIDE DEF Good
    <2> QED
      BY <1>1, <1>2, UpTo
  <1> QED
    BY <1>3

LEMMA PathsExist ==
  ASSUME NEW N \in Nat, NEW H, NEW i
  PROVE  \E P : IsPathOf(P, H, i, N)
  <1> DEFINE Good == {k \in Nat : \E P : IsPathOf(P, H, i, k)}
  <1>1. 0 \in Good
    <2>1. PICK P : P = [n \in 1 .. 0 |-> 0]
      OBVIOUS
    <2>2. 1 .. 0 = {}
      OBVIOUS
    <2>3. IsPathOf(P, H, i, 0)
      BY <2>1, <2>2 DEF IsPathOf
    <2> QED
      BY <2>3
  <1>2. ASSUME NEW k \in 1 .. N, k - 1 \in Good PROVE k \in Good
    <2>1. PICK G : IsPathOf(G, H, i, k - 1)
      BY <1>2
    <2>2. PICK P : P = [n \in 1 .. k |-> IF n = k THEN [lo \in Nat |-> PathRow(G, H, i, k, lo)] ELSE G[n]]
      OBVIOUS
    <2>3. \A n \in 1 .. k : n # k => n \in 1 .. k - 1 /\ P[n] = G[n]
      BY <2>2
    <2>4. ASSUME NEW n \in 1 .. k, NEW lo \in Nat PROVE PathRow(G, H, i, n, lo) = PathRow(P, H, i, n, lo)
      <3>1. CASE n = 1
        BY <3>1 DEF PathRow
      <3>2. CASE n # 1
        <4>1. Split(n) \in 1 .. n - 1 /\ n - Split(n) \in 1 .. n - 1
          BY <3>2, SplitIs
        <4>2. Split(n) \in 1 .. k /\ Split(n) # k /\ n - Split(n) \in 1 .. k /\ n - Split(n) # k
          BY <4>1
        <4>3. G[Split(n)] = P[Split(n)] /\ G[n - Split(n)] = P[n - Split(n)]
          BY <2>3, <4>2
        <4> QED
          BY <3>2, <4>3 DEF PathRow
      <3> QED
        BY <3>1, <3>2
    <2>5. ASSUME NEW n \in 1 .. k PROVE P[n] = [lo \in Nat |-> PathRow(P, H, i, n, lo)]
      <3>1. CASE n = k
        <4>1. P[n] = [lo \in Nat |-> PathRow(G, H, i, n, lo)]
          BY <2>2, <3>1
        <4> QED
          BY <2>4, <4>1
      <3>2. CASE n # k
        <4>1. P[n] = [lo \in Nat |-> PathRow(G, H, i, n, lo)]
          BY <2>1, <2>3, <3>2 DEF IsPathOf
        <4> QED
          BY <2>4, <4>1
      <3> QED
        BY <3>1, <3>2
    <2>6. P = [n \in 1 .. k |-> P[n]]
      BY <2>2
    <2>7. IsPathOf(P, H, i, k)
      BY <2>5, <2>6 DEF IsPathOf
    <2> QED
      BY <2>7
  <1>3. \A k \in 0 .. N : k \in Good
    <2> HIDE DEF Good
    <2> QED
      BY <1>1, <1>2, UpTo
  <1> QED
    BY <1>3

Leaves(log) == [lo \in Nat |-> LeafHash(log[lo + 1])]

LEMMA SubtreesAre ==
  ASSUME NEW log, Len(log) \in Nat
  PROVE  IsTree(Subtrees(log), Leaves(log), Len(log))
  <1> DEFINE Row(H, n, lo) == IF n = 1 THEN LeafHash(log[lo + 1])
                              ELSE NodeHash(H[Split(n)][lo], H[n - Split(n)][lo + Split(n)])
             Right(H) == H = [n \in 1 .. Len(log) |-> [lo \in Nat |-> Row(H, n, lo)]]
             V == CHOOSE H : Right(H)
  <1>1. \A H, n : \A lo \in Nat : TreeRow(H, Leaves(log), n, lo) = Row(H, n, lo)
    <2>1. \A lo \in Nat : Leaves(log)[lo] = LeafHash(log[lo + 1])
      BY DEF Leaves
    <2> QED
      BY <2>1 DEF TreeRow
  <1> HIDE DEF Row
  <1>2. \A H : Right(H) <=> IsTree(H, Leaves(log), Len(log))
    <2> SUFFICES ASSUME NEW H PROVE Right(H) <=> IsTree(H, Leaves(log), Len(log))
      OBVIOUS
    <2>1. \A n : [lo \in Nat |-> TreeRow(H, Leaves(log), n, lo)] = [lo \in Nat |-> Row(H, n, lo)]
      BY <1>1
    <2> QED
      BY <2>1 DEF IsTree
  <1>3. \E H : Right(H)
    BY <1>2, TreeExists
  <1>4. Right(V)
    BY <1>3
  <1>5. Subtrees(log) = V
    BY DEF Subtrees, Row
  <1> HIDE DEF V
  <1> QED
    BY <1>2, <1>4, <1>5

LEMMA PathsAre ==
  ASSUME NEW log, Len(log) \in Nat, NEW index
  PROVE  IsPathOf(Paths(log, index), Subtrees(log), index, Len(log))
  <1> DEFINE H == Subtrees(log)
             Right(P) == P = [n \in 1 .. Len(log) |-> [lo \in Nat |->
                           IF n = 1 THEN <<>>
                           ELSE IF index < lo + Split(n) THEN Append(P[Split(n)][lo], H[n - Split(n)][lo + Split(n)])
                           ELSE Append(P[n - Split(n)][lo + Split(n)], H[Split(n)][lo])]]
             V == CHOOSE P : Right(P)
  <1>1. \A P : Right(P) <=> IsPathOf(P, H, index, Len(log))
    BY DEF IsPathOf, PathRow
  <1>2. \E P : Right(P)
    BY <1>1, PathsExist
  <1>3. Right(V)
    BY <1>2
  <1>4. Paths(log, index) = V
    BY DEF Paths
  <1> HIDE DEF V
  <1> QED
    BY <1>1, <1>3, <1>4

LEMMA TreeOn ==
  ASSUME NEW N \in Nat, NEW B, NEW H, IsTree(H, B, N)
  PROVE  /\ N # 0 => \A lo \in Nat : H[1][lo] = B[lo]
         /\ \A n \in 2 .. N, lo \in Nat :
              /\ H[n][lo] = NodeHash(H[Split(n)][lo], H[n - Split(n)][lo + Split(n)])
              /\ Split(n) \in 1 .. n - 1 /\ n - Split(n) \in 1 .. n - 1
  <1>1. \A n \in 1 .. N : \A lo \in Nat : H[n][lo] = TreeRow(H, B, n, lo)
    <2>1. PICK R : R = [n \in 1 .. N |-> [lo \in Nat |-> TreeRow(H, B, n, lo)]]
      OBVIOUS
    <2>2. H = R
      BY <2>1 DEF IsTree
    <2>3. \A n \in 1 .. N : \A lo \in Nat : R[n][lo] = TreeRow(H, B, n, lo)
      BY ONLY <2>1
    <2> QED
      BY ONLY <2>2, <2>3
  <1>2. ASSUME NEW n \in 2 .. N, NEW lo \in Nat
        PROVE  /\ H[n][lo] = NodeHash(H[Split(n)][lo], H[n - Split(n)][lo + Split(n)])
               /\ Split(n) \in 1 .. n - 1 /\ n - Split(n) \in 1 .. n - 1
    <2>1. n \in 1 .. N /\ n # 1 /\ n \in Nat /\ n >= 2
      OBVIOUS
    <2> QED
      BY <1>1, <2>1, SplitIs DEF TreeRow
  <1>3. ASSUME N # 0, NEW lo \in Nat PROVE H[1][lo] = B[lo]
    <2>1. 1 \in 1 .. N
      BY <1>3
    <2> QED
      BY <1>1, <2>1 DEF TreeRow
  <1> QED
    BY <1>2, <1>3

PathSteps(P, H, i, N) ==
  /\ N # 0 => \A lo \in Nat : P[1][lo] = <<>>
  /\ \A n \in 2 .. N : \A lo \in Nat :
       /\ i < lo + Split(n) => P[n][lo] = Append(P[Split(n)][lo], H[n - Split(n)][lo + Split(n)])
       /\ ~(i < lo + Split(n)) => P[n][lo] = Append(P[n - Split(n)][lo + Split(n)], H[Split(n)][lo])

LEMMA PathOn ==
  ASSUME NEW N \in Nat, NEW H, NEW i \in Nat, NEW P, IsPathOf(P, H, i, N)
  PROVE  PathSteps(P, H, i, N)
  <1>1. \A n \in 1 .. N : \A lo \in Nat : P[n][lo] = PathRow(P, H, i, n, lo)
    <2>1. PICK R : R = [n \in 1 .. N |-> [lo \in Nat |-> PathRow(P, H, i, n, lo)]]
      OBVIOUS
    <2>2. P = R
      BY <2>1 DEF IsPathOf
    <2>3. \A n \in 1 .. N : \A lo \in Nat : R[n][lo] = PathRow(P, H, i, n, lo)
      BY ONLY <2>1
    <2> QED
      BY ONLY <2>2, <2>3
  <1>2. ASSUME NEW n \in 2 .. N, NEW lo \in Nat
        PROVE  /\ i < lo + Split(n) => P[n][lo] = Append(P[Split(n)][lo], H[n - Split(n)][lo + Split(n)])
               /\ ~(i < lo + Split(n)) => P[n][lo] = Append(P[n - Split(n)][lo + Split(n)], H[Split(n)][lo])
    <2>1. n \in 1 .. N /\ n # 1
      OBVIOUS
    <2> QED
      BY <1>1, <2>1 DEF PathRow
  <1>3. ASSUME N # 0, NEW lo \in Nat PROVE P[1][lo] = <<>>
    <2>1. 1 \in 1 .. N
      BY <1>3
    <2> QED
      BY <1>1, <2>1 DEF PathRow
  <1> QED
    BY <1>2, <1>3 DEF PathSteps

TreeSteps(H, B, N) ==
  /\ N # 0 => \A lo \in Nat : H[1][lo] = B[lo]
  /\ \A n \in 2 .. N : \A lo \in Nat : H[n][lo] = NodeHash(H[Split(n)][lo], H[n - Split(n)][lo + Split(n)])

LEMMA TreeStepsHold ==
  ASSUME NEW N \in Nat, NEW B, NEW H, IsTree(H, B, N)
  PROVE  TreeSteps(H, B, N)
  BY TreeOn DEF TreeSteps

LEMMA PathTyped ==
  ASSUME NEW N \in Nat, NEW H, NEW i \in Nat, NEW P, IsPathOf(P, H, i, N),
         NEW A, \A n \in 1 .. N : \A lo \in Nat : H[n][lo] \in A
  PROVE  \A n \in 1 .. N : \A lo \in Nat : P[n][lo] \in Seq(A)
  <1> DEFINE Bad == {n \in 1 .. N : \E lo \in Nat : P[n][lo] \notin Seq(A)}
  <1> SUFFICES ASSUME Bad # {} PROVE FALSE
    OBVIOUS
  <1>1. Bad \in SUBSET Nat
    OBVIOUS
  <1>2. PICK n \in Bad : \A m \in Bad : n <= m
    BY <1>1, FirstOf
  <1>3. PICK lo \in Nat : P[n][lo] \notin Seq(A)
    BY <1>2
  <1>4. n \in 1 .. N /\ \A m \in 1 .. n - 1 : \A l \in Nat : P[m][l] \in Seq(A)
    BY <1>2
  <1> HIDE DEF Bad
  <1>0. PathSteps(P, H, i, N)
    BY PathOn
  <1>5. CASE n = 1
    <2>1. P[n][lo] = <<>>
      BY <1>0, <1>4, <1>5 DEF PathSteps
    <2>2. <<>> \in Seq(A)
      OBVIOUS
    <2> QED
      BY ONLY <1>3, <2>1, <2>2
  <1>6. CASE n # 1
    <2>0. n \in 2 .. N /\ n >= 2 /\ n \in Nat
      BY <1>4, <1>6
    <2>1. Split(n) \in 1 .. n - 1 /\ n - Split(n) \in 1 .. n - 1
      BY <2>0, SplitIs
    <2>2. lo + Split(n) \in Nat /\ Split(n) \in 1 .. N /\ n - Split(n) \in 1 .. N
      BY <1>4, <2>1
    <2>3. /\ P[Split(n)][lo] \in Seq(A) /\ P[n - Split(n)][lo + Split(n)] \in Seq(A)
          /\ H[n - Split(n)][lo + Split(n)] \in A /\ H[Split(n)][lo] \in A
      BY <1>4, <2>1, <2>2
    <2>4. \/ P[n][lo] = Append(P[Split(n)][lo], H[n - Split(n)][lo + Split(n)])
          \/ P[n][lo] = Append(P[n - Split(n)][lo + Split(n)], H[Split(n)][lo])
      BY <1>0, <2>0 DEF PathSteps
    <2>5. \A q \in Seq(A), e \in A : Append(q, e) \in Seq(A)
      BY AppendProperties
    <2> QED
      BY ONLY <1>3, <2>3, <2>4, <2>5
  <1> QED
    BY <1>5, <1>6

-----------------------------------------------------------------------------
(* The tree of the next level: its leaves are the pairs, and a last one that is alone. *)
Halves(N, M) == N = 2 * M \/ N = 2 * M - 1
PairHash(H, N) == [lo \in Nat |-> IF 2 * lo + 1 < N THEN H[2][2 * lo] ELSE H[1][2 * lo]]
Wide(N, n, lo) == IF 2 * (lo + n) <= N THEN 2 * n ELSE 2 * n - 1

LEMMA WideIs ==
  ASSUME NEW N \in Nat, N >= 2, NEW M \in Nat, Halves(N, M), NEW n \in 1 .. M, NEW lo \in Nat, lo + n <= M
  PROVE  /\ Wide(N, n, lo) \in 1 .. N
         /\ n # 1 => /\ Wide(N, n, lo) \in 2 .. N
                     /\ Split(n) \in 1 .. n - 1 /\ n - Split(n) \in 1 .. n - 1
                     /\ lo + Split(n) \in Nat /\ (lo + Split(n)) + (n - Split(n)) <= M
                     /\ Split(Wide(N, n, lo)) = 2 * Split(n)
                     /\ Wide(N, Split(n), lo) = 2 * Split(n)
                     /\ Wide(N, n - Split(n), lo + Split(n)) = Wide(N, n, lo) - 2 * Split(n)
  <1>1. PICK W : W = Wide(N, n, lo)
    OBVIOUS
  <1>2. (W = 2 * n \/ W = 2 * n - 1) /\ W \in 1 .. N
    BY <1>1 DEF Wide, Halves
  <1>3. ASSUME n # 1
        PROVE  /\ W \in 2 .. N
               /\ Split(n) \in 1 .. n - 1 /\ n - Split(n) \in 1 .. n - 1
               /\ lo + Split(n) \in Nat /\ (lo + Split(n)) + (n - Split(n)) <= M
               /\ Split(W) = 2 * Split(n)
               /\ Wide(N, Split(n), lo) = 2 * Split(n)
               /\ Wide(N, n - Split(n), lo + Split(n)) = W - 2 * Split(n)
    <2>1. n \in Nat /\ n >= 2 /\ W \in Nat /\ W > 2
      BY <1>2, <1>3
    <2>2. Split(W) = 2 * Split(n)
      BY <1>2, <2>1, SplitHalved
    <2>3. PICK k \in 1 .. n - 1 : k = Split(n)
      BY <2>1, SplitIs
    <2>4. n - k \in 1 .. n - 1 /\ lo + k \in Nat /\ (lo + k) + (n - k) = lo + n /\ lo + k <= M - 1
      BY <2>1, <2>3
    <2>5. 2 * (lo + k) <= N
      BY <2>4 DEF Halves
    <2>6. Wide(N, k, lo) = 2 * k
      BY <2>5 DEF Wide
    <2>7. Wide(N, n - k, lo + k) = W - 2 * k
      BY <1>1, <2>4 DEF Wide
    <2> QED
      BY <1>2, <2>1, <2>2, <2>3, <2>4, <2>6, <2>7
  <1> QED
    BY <1>1, <1>2, <1>3

LEMMA HalvedTree ==
  ASSUME NEW N \in Nat, N >= 2, NEW M \in Nat, Halves(N, M), NEW B, NEW H, IsTree(H, B, N),
         NEW G, IsTree(G, PairHash(H, N), M), NEW nn \in 1 .. M, NEW ll \in Nat, ll + nn <= M
  PROVE  G[nn][ll] = H[Wide(N, nn, ll)][2 * ll]
  <1> DEFINE Bad == {n \in 1 .. M : \E lo \in Nat : lo + n <= M /\ G[n][lo] # H[Wide(N, n, lo)][2 * lo]}
  <1> SUFFICES ASSUME Bad # {} PROVE FALSE
    OBVIOUS
  <1>1. Bad \in SUBSET Nat
    OBVIOUS
  <1>2. PICK n \in Bad : \A m \in Bad : n <= m
    BY <1>1, FirstOf
  <1>3. PICK lo \in Nat : lo + n <= M /\ G[n][lo] # H[Wide(N, n, lo)][2 * lo]
    BY <1>2
  <1>4. n \in 1 .. M /\ \A m \in 1 .. n - 1 : \A l \in Nat : l + m <= M => G[m][l] = H[Wide(N, m, l)][2 * l]
    BY <1>2
  <1> HIDE DEF Bad
  <1>5. CASE n = 1
    <2>1. G[1][lo] = PairHash(H, N)[lo]
      BY <1>4, TreeOn
    <2>2. PairHash(H, N)[lo] = IF 2 * lo + 1 < N THEN H[2][2 * lo] ELSE H[1][2 * lo]
      BY DEF PairHash
    <2>3. Wide(N, 1, lo) = IF 2 * lo + 1 < N THEN 2 ELSE 1
      BY DEF Wide
    <2> QED
      BY <1>3, <1>5, <2>1, <2>2, <2>3
  <1>6. CASE n # 1
    <2>1. PICK W, k : W = Wide(N, n, lo) /\ k = Split(n)
      OBVIOUS
    <2>2. /\ W \in 2 .. N /\ k \in 1 .. n - 1 /\ n - k \in 1 .. n - 1
          /\ lo + k \in Nat /\ (lo + k) + (n - k) <= M /\ lo + k <= M
          /\ Split(W) = 2 * k /\ Wide(N, k, lo) = 2 * k /\ Wide(N, n - k, lo + k) = W - 2 * k
      BY <1>3, <1>4, <1>6, <2>1, WideIs
    <2>3. n \in 2 .. M /\ 2 * lo \in Nat /\ 2 * (lo + k) = 2 * lo + 2 * k
      BY <1>4, <1>6, <2>2
    <2>4. G[n][lo] = NodeHash(G[k][lo], G[n - k][lo + k])
      BY <2>1, <2>3, TreeOn
    <2>5. H[W][2 * lo] = NodeHash(H[2 * k][2 * lo], H[W - 2 * k][2 * lo + 2 * k])
      BY <2>2, <2>3, TreeOn
    <2>6. G[k][lo] = H[2 * k][2 * lo] /\ G[n - k][lo + k] = H[W - 2 * k][2 * (lo + k)]
      BY <1>4, <2>2
    <2> QED
      BY <1>3, <2>1, <2>3, <2>4, <2>5, <2>6
  <1> QED
    BY <1>5, <1>6

-----------------------------------------------------------------------------
(* The path of a leaf is its sibling, if it has one, and the path of their pair.       *)
Grown(q, first, rest) ==
  /\ Len(q) = Len(rest) + 1 /\ q[1] = first
  /\ \A x \in 1 .. Len(rest) : q[x + 1] = rest[x]
Lifted(q, rest, H, N, i, j) ==
  IF i = 2 * j + 1 THEN Grown(q, H[1][i - 1], rest)
  ELSE IF i < N - 1 THEN Grown(q, H[1][i + 1], rest)
  ELSE q = rest

LEMMA GrownAppend ==
  ASSUME NEW A, NEW q \in Seq(A), NEW first, NEW rest \in Seq(A), NEW e \in A, Grown(q, first, rest)
  PROVE  Grown(Append(q, e), first, Append(rest, e))
  <1>1. /\ Len(q) \in Nat /\ Len(rest) \in Nat /\ Len(q) = Len(rest) + 1
        /\ Len(Append(q, e)) = Len(q) + 1 /\ Len(Append(rest, e)) = Len(rest) + 1
    BY AppendProperties, LenProperties DEF Grown
  <1>2. /\ \A x \in 1 .. Len(q) : Append(q, e)[x] = q[x]
        /\ \A x \in 1 .. Len(rest) : Append(rest, e)[x] = rest[x]
        /\ Append(q, e)[Len(q) + 1] = e /\ Append(rest, e)[Len(rest) + 1] = e
    BY AppendProperties
  <1>3. Append(q, e)[1] = first
    <2>1. 1 \in 1 .. Len(q)
      BY <1>1
    <2> QED
      BY <1>2, <2>1 DEF Grown
  <1>4. ASSUME NEW x \in 1 .. Len(rest) + 1 PROVE Append(q, e)[x + 1] = Append(rest, e)[x]
    <2>1. CASE x = Len(rest) + 1
      BY <1>1, <1>2, <2>1
    <2>2. CASE x # Len(rest) + 1
      <3>1. x \in 1 .. Len(rest) /\ x + 1 \in 1 .. Len(q)
        BY <1>1, <2>2
      <3> QED
        BY <1>2, <3>1 DEF Grown
    <2> QED
      BY <2>1, <2>2
  <1> QED
    BY <1>1, <1>3, <1>4 DEF Grown

LEMMA LiftedAppend ==
  ASSUME NEW A, NEW q \in Seq(A), NEW rest \in Seq(A), NEW e \in A, NEW H, NEW N, NEW i, NEW j, Lifted(q, rest, H, N, i, j)
  PROVE  Lifted(Append(q, e), Append(rest, e), H, N, i, j)
  BY GrownAppend DEF Lifted

LEMMA GrownOne ==
  ASSUME NEW e
  PROVE  Grown(Append(<<>>, e), e, <<>>)
  <1>1. Append(<<>>, e) = << e >> /\ Len(<< e >>) = 1 /\ Len(<<>>) = 0 /\ << e >>[1] = e
    OBVIOUS
  <1>2. 1 .. 0 = {}
    OBVIOUS
  <1> QED
    BY <1>1, <1>2 DEF Grown

Hashes(H, N) == UNION {{H[m][l] : l \in Nat} : m \in 1 .. N}

LEMMA HashesAre ==
  ASSUME NEW H, NEW N, NEW m \in 1 .. N, NEW l \in Nat
  PROVE  H[m][l] \in Hashes(H, N)
  <1>1. H[m][l] \in {H[m][k] : k \in Nat}
    OBVIOUS
  <1>2. {H[m][k] : k \in Nat} \in {{H[x][k] : k \in Nat} : x \in 1 .. N}
    OBVIOUS
  <1> QED
    BY <1>1, <1>2 DEF Hashes

LEMMA HalvedPath ==
  ASSUME NEW N \in Nat, N >= 2, NEW M \in Nat, Halves(N, M), NEW B, NEW H, IsTree(H, B, N),
         NEW G, IsTree(G, PairHash(H, N), M),
         NEW i \in 0 .. N - 1, NEW j \in Nat, i = 2 * j \/ i = 2 * j + 1,
         NEW P, IsPathOf(P, H, i, N), NEW Q, IsPathOf(Q, G, j, M)
  PROVE  Lifted(P[N][0], Q[M][0], H, N, i, j)
  <1>0. /\ \A lo \in Nat : P[1][lo] = <<>>
        /\ \A n \in 2 .. N : \A lo \in Nat :
             /\ i < lo + Split(n) => P[n][lo] = Append(P[Split(n)][lo], H[n - Split(n)][lo + Split(n)])
             /\ ~(i < lo + Split(n)) => P[n][lo] = Append(P[n - Split(n)][lo + Split(n)], H[Split(n)][lo])
    <2>1. N # 0 /\ i \in Nat
      OBVIOUS
    <2>2. PathSteps(P, H, i, N)
      BY <2>1, PathOn
    <2> QED
      BY ONLY <2>1, <2>2 DEF PathSteps
  <1>5. /\ \A lo \in Nat : Q[1][lo] = <<>>
        /\ \A n \in 2 .. M : \A lo \in Nat :
             /\ j < lo + Split(n) => Q[n][lo] = Append(Q[Split(n)][lo], G[n - Split(n)][lo + Split(n)])
             /\ ~(j < lo + Split(n)) => Q[n][lo] = Append(Q[n - Split(n)][lo + Split(n)], G[Split(n)][lo])
    <2>1. M # 0
      BY DEF Halves
    <2>2. PathSteps(Q, G, j, M)
      BY PathOn
    <2> QED
      BY ONLY <2>1, <2>2 DEF PathSteps
  <1> DEFINE Inside(n, lo) == lo + n <= M /\ lo <= j /\ j < lo + n
             Bad == {n \in 1 .. M : \E lo \in Nat : Inside(n, lo) /\ ~Lifted(P[Wide(N, n, lo)][2 * lo], Q[n][lo], H, N, i, j)}
  <1>1. Bad = {}
    <2> SUFFICES ASSUME Bad # {} PROVE FALSE
      OBVIOUS
    <2>1. Bad \in SUBSET Nat
      OBVIOUS
    <2>2. PICK n \in Bad : \A m \in Bad : n <= m
      BY <2>1, FirstOf
    <2>3. PICK lo \in Nat : Inside(n, lo) /\ ~Lifted(P[Wide(N, n, lo)][2 * lo], Q[n][lo], H, N, i, j)
      BY <2>2
    <2>4. n \in 1 .. M /\ \A m \in 1 .. n - 1 : \A l \in Nat :
            Inside(m, l) => Lifted(P[Wide(N, m, l)][2 * l], Q[m][l], H, N, i, j)
      BY <2>2
    <2>5. lo + n <= M /\ lo <= j /\ j < lo + n /\ 2 * lo \in Nat
      BY <2>3
    <2>6. PICK W : W = Wide(N, n, lo)
      OBVIOUS
    <2>7. ~Lifted(P[W][2 * lo], Q[n][lo], H, N, i, j)
      BY <2>3, <2>6
    <2>8. W \in 1 .. N
      BY <2>4, <2>5, <2>6, WideIs
    <2> HIDE DEF Bad
    <2>9. CASE n = 1
      <3>1. lo = j /\ Q[n][lo] = <<>> /\ n \in 1 .. M
        BY <1>5, <2>4, <2>5, <2>9
      <3>2. CASE 2 * (j + 1) <= N
        <4>1. W = 2 /\ 2 \in 1 .. N /\ 2 * j \in Nat
          BY <2>6, <2>9, <3>1, <3>2 DEF Wide
        <4>2. Split(2) = 1 /\ 2 - 1 = 1
          <5>1. Split(2) \in 1 .. 2 - 1
            BY SplitIs
          <5> QED
            BY <5>1
        <4>3. P[1][2 * j] = <<>> /\ P[1][2 * j + 1] = <<>>
          <5>1. 2 * j + 1 \in Nat
            OBVIOUS
          <5> QED
            BY <1>0, <4>1, <5>1
        <4>6. /\ i < 2 * j + 1 => P[2][2 * j] = Append(P[1][2 * j], H[2 - 1][2 * j + 1])
              /\ ~(i < 2 * j + 1) => P[2][2 * j] = Append(P[2 - 1][2 * j + 1], H[1][2 * j])
          <5>1. 2 \in 2 .. N
            BY <4>1
          <5>2. \A l \in Nat :
                  /\ i < l + Split(2) => P[2][l] = Append(P[Split(2)][l], H[2 - Split(2)][l + Split(2)])
                  /\ ~(i < l + Split(2)) => P[2][l] = Append(P[2 - Split(2)][l + Split(2)], H[Split(2)][l])
            BY ONLY <1>0, <5>1, Zenon
          <5>3. /\ i < 2 * j + Split(2) => P[2][2 * j] = Append(P[Split(2)][2 * j], H[2 - Split(2)][2 * j + Split(2)])
                /\ ~(i < 2 * j + Split(2)) => P[2][2 * j] = Append(P[2 - Split(2)][2 * j + Split(2)], H[Split(2)][2 * j])
            BY ONLY <4>1, <5>2, Zenon
          <5> QED
            BY ONLY <4>2, <5>3, Zenon
        <4>4. CASE i = 2 * j
          <5>1. i < 2 * j + 1 /\ i < N - 1 /\ i # 2 * j + 1 /\ 2 * j + 1 = i + 1
            BY <3>2, <4>4
          <5>2. P[2][2 * j] = Append(<<>>, H[1][i + 1])
            BY ONLY <4>2, <4>3, <4>6, <5>1
          <5> QED
            BY <2>7, <3>1, <4>1, <5>1, <5>2, GrownOne DEF Lifted
        <4>5. CASE i = 2 * j + 1
          <5>1. ~(i < 2 * j + 1) /\ 2 * j = i - 1
            BY <4>5
          <5>2. P[2][2 * j] = Append(<<>>, H[1][i - 1])
            BY ONLY <4>2, <4>3, <4>6, <5>1
          <5> QED
            BY <2>7, <3>1, <4>1, <4>5, <5>2, GrownOne DEF Lifted
        <4> QED
          BY <4>4, <4>5
      <3>3. CASE ~(2 * (j + 1) <= N)
        <4>1. W = 1 /\ i = 2 * j /\ ~(i < N - 1) /\ i # 2 * j + 1
          BY <2>6, <2>9, <3>1, <3>3 DEF Wide
        <4>2. P[W][2 * lo] = <<>>
          BY <1>0, <2>5, <4>1
        <4> QED
          BY <2>7, <3>1, <4>1, <4>2 DEF Lifted
      <3> QED
        BY <3>2, <3>3
    <2>10. CASE n # 1
      <3>1. PICK k : k = Split(n)
        OBVIOUS
      <3>2. /\ W \in 2 .. N /\ k \in 1 .. n - 1 /\ n - k \in 1 .. n - 1
            /\ lo + k \in Nat /\ (lo + k) + (n - k) <= M
            /\ Split(W) = 2 * k /\ Wide(N, k, lo) = 2 * k /\ Wide(N, n - k, lo + k) = W - 2 * k
        <4>1. n \in 1 .. M /\ lo + n <= M /\ lo \in Nat
          BY <2>4, <2>5
        <4> QED
          BY ONLY N \in Nat, N >= 2, M \in Nat, Halves(N, M), <2>6, <2>10, <3>1, <4>1, WideIs
      <3>3. 2 * (lo + k) = 2 * lo + 2 * k /\ k \in Nat /\ n \in 2 .. M
        BY <2>4, <2>10, <3>2
      <3>4. PICK A : A = Hashes(H, N) \cup Hashes(G, M)
        OBVIOUS
      <3>5. /\ \A m \in 1 .. N : \A l \in Nat : H[m][l] \in A
            /\ \A m \in 1 .. M : \A l \in Nat : G[m][l] \in A
        BY <3>4, HashesAre
      <3>6. /\ \A m \in 1 .. N : \A l \in Nat : P[m][l] \in Seq(A)
            /\ \A m \in 1 .. M : \A l \in Nat : Q[m][l] \in Seq(A)
        <4>1. i \in Nat
          OBVIOUS
        <4>2. \A m \in 1 .. N : \A l \in Nat : P[m][l] \in Seq(A)
          BY <3>5, <4>1, PathTyped
        <4>3. \A m \in 1 .. M : \A l \in Nat : Q[m][l] \in Seq(A)
          BY <3>5, PathTyped
        <4> QED
          BY ONLY <4>2, <4>3
      <3>7. k \in 1 .. M /\ n - k \in 1 .. M /\ 2 * k \in 1 .. N /\ W - 2 * k \in 1 .. N /\ lo + k <= M
        <4>1. Split(W) \in 1 .. W - 1 /\ W - Split(W) \in 1 .. W - 1
          BY <2>8, <3>2, SplitIs
        <4> QED
          BY <2>4, <2>5, <3>2, <3>3, <4>1
      <3>8. i < 2 * lo + 2 * k <=> j < lo + k
        BY <3>3
      <3>9. CASE j < lo + k
        <4>1. Inside(k, lo)
          BY <2>5, <3>3, <3>7, <3>9
        <4>2. Lifted(P[2 * k][2 * lo], Q[k][lo], H, N, i, j)
          BY <2>4, <3>2, <4>1
        <4>3. P[W][2 * lo] = Append(P[2 * k][2 * lo], H[W - 2 * k][2 * lo + 2 * k])
          BY <1>0, <2>5, <3>2, <3>3, <3>8, <3>9
        <4>4. Q[n][lo] = Append(Q[k][lo], G[n - k][lo + k])
          BY <1>5, <2>10, <3>1, <3>3, <3>9
        <4>5. G[n - k][lo + k] = H[W - 2 * k][2 * lo + 2 * k]
          BY <3>2, <3>3, <3>7, HalvedTree
        <4>6. G[n - k][lo + k] \in A /\ P[2 * k][2 * lo] \in Seq(A) /\ Q[k][lo] \in Seq(A)
          BY <2>5, <3>2, <3>5, <3>6, <3>7
        <4> QED
          BY <2>7, <4>2, <4>3, <4>4, <4>5, <4>6, LiftedAppend
      <3>10. CASE ~(j < lo + k)
        <4>1. Inside(n - k, lo + k)
          BY <2>5, <3>2, <3>3, <3>10
        <4>2. Lifted(P[W - 2 * k][2 * lo + 2 * k], Q[n - k][lo + k], H, N, i, j)
          BY <2>4, <3>2, <3>3, <4>1
        <4>3. P[W][2 * lo] = Append(P[W - 2 * k][2 * lo + 2 * k], H[2 * k][2 * lo])
          BY <1>0, <2>5, <3>2, <3>3, <3>8, <3>10
        <4>4. Q[n][lo] = Append(Q[n - k][lo + k], G[k][lo])
          BY <1>5, <2>10, <3>1, <3>3, <3>10
        <4>5. G[k][lo] = H[2 * k][2 * lo]
          BY <3>2, <3>3, <3>7, HalvedTree
        <4>6. G[k][lo] \in A /\ P[W - 2 * k][2 * lo + 2 * k] \in Seq(A) /\ Q[n - k][lo + k] \in Seq(A)
          <5>1. 2 * lo + 2 * k \in Nat
            BY <2>5, <3>3
          <5> QED
            BY <3>2, <3>5, <3>6, <3>7, <5>1
        <4> QED
          BY <2>7, <4>2, <4>3, <4>4, <4>5, <4>6, LiftedAppend
      <3> QED
        BY <3>9, <3>10
    <2> QED
      BY <2>9, <2>10
  <1>2. M \in 1 .. M /\ 0 \in Nat /\ 0 + M <= M /\ 0 <= j /\ j < 0 + M
    BY DEF Halves
  <1>3. Wide(N, M, 0) = N
    BY DEF Wide, Halves
  <1>4. Lifted(P[Wide(N, M, 0)][2 * 0], Q[M][0], H, N, i, j)
    BY <1>1, <1>2
  <1> QED
    BY <1>3, <1>4

-----------------------------------------------------------------------------
(* The run of right-edge nodes, and one turn of the loop over the siblings.            *)
LEMMA Parity ==
  ASSUME NEW j \in Nat
  PROVE  /\ (2 * j) % 2 = 0 /\ (2 * j) \div 2 = j
         /\ (2 * j + 1) % 2 = 1 /\ (2 * j + 1) \div 2 = j
  OBVIOUS

LEMMA HalfOf ==
  ASSUME NEW f \in Nat
  PROVE  \E j \in Nat : (f = 2 * j \/ f = 2 * j + 1) /\ f \div 2 = j
  OBVIOUS

EdgeRow(U, f, s) == IF f % 2 = 0 /\ f # 0 THEN U[f \div 2][s \div 2] ELSE <<f, s>>
IsEdge(U, n) == U = [f \in 0 .. n |-> [s \in Nat |-> EdgeRow(U, f, s)]]

LEMMA EdgeExists ==
  ASSUME NEW n \in Nat
  PROVE  \E U : IsEdge(U, n)
  <1> DEFINE Good == {k \in Nat : \E U : IsEdge(U, k)}
  <1>1. 0 \in Good
    <2>1. PICK U : U = [f \in 0 .. 0 |-> [s \in Nat |-> <<f, s>>]]
      OBVIOUS
    <2>2. \A f \in 0 .. 0 : \A s : EdgeRow(U, f, s) = <<f, s>>
      BY DEF EdgeRow
    <2>3. IsEdge(U, 0)
      BY <2>1, <2>2 DEF IsEdge
    <2> QED
      BY <2>3
  <1>2. ASSUME NEW k \in 1 .. n, k - 1 \in Good PROVE k \in Good
    <2>1. PICK V : IsEdge(V, k - 1)
      BY <1>2
    <2>2. PICK U : U = [f \in 0 .. k |-> IF f = k THEN [s \in Nat |-> EdgeRow(V, k, s)] ELSE V[f]]
      OBVIOUS
    <2>3. \A f \in 0 .. k : f # k => f \in 0 .. k - 1 /\ U[f] = V[f]
      BY <2>2
    <2>4. ASSUME NEW f \in 0 .. k, NEW s \in Nat PROVE EdgeRow(V, f, s) = EdgeRow(U, f, s)
      <3>1. CASE f % 2 = 0 /\ f # 0
        <4>1. f \in Nat
          OBVIOUS
        <4>2. PICK j \in Nat : (f = 2 * j \/ f = 2 * j + 1) /\ f \div 2 = j
          BY <4>1, HalfOf
        <4>3. f \div 2 \in 0 .. k /\ f \div 2 # k
          BY <3>1, <4>2
        <4>4. V[f \div 2] = U[f \div 2]
          BY <2>3, <4>3
        <4> QED
          BY <4>4 DEF EdgeRow
      <3>2. CASE ~(f % 2 = 0 /\ f # 0)
        BY <3>2 DEF EdgeRow
      <3> QED
        BY <3>1, <3>2
    <2>5. ASSUME NEW f \in 0 .. k PROVE U[f] = [s \in Nat |-> EdgeRow(U, f, s)]
      <3>1. CASE f = k
        <4>1. U[f] = [s \in Nat |-> EdgeRow(V, f, s)]
          BY <2>2, <3>1
        <4> QED
          BY <2>4, <4>1
      <3>2. CASE f # k
        <4>1. U[f] = [s \in Nat |-> EdgeRow(V, f, s)]
          BY <2>1, <2>3, <3>2 DEF IsEdge
        <4> QED
          BY <2>4, <4>1
      <3> QED
        BY <3>1, <3>2
    <2>6. U = [f \in 0 .. k |-> U[f]]
      BY <2>2
    <2>7. IsEdge(U, k)
      BY <2>5, <2>6 DEF IsEdge
    <2> QED
      BY <2>7
  <1>3. \A k \in 0 .. n : k \in Good
    <2> HIDE DEF Good
    <2> QED
      BY <1>1, <1>2, UpTo
  <1> QED
    BY <1>3

LEMMA EdgeOn ==
  ASSUME NEW n \in Nat, NEW U, IsEdge(U, n), NEW f \in 0 .. n, NEW s \in Nat
  PROVE  U[f][s] = EdgeRow(U, f, s)
  <1>1. PICK R : R = [g \in 0 .. n |-> [t \in Nat |-> EdgeRow(U, g, t)]]
    OBVIOUS
  <1>2. U = R
    BY <1>1 DEF IsEdge
  <1>3. R[f][s] = EdgeRow(U, f, s)
    BY ONLY <1>1, f \in 0 .. n, s \in Nat
  <1> QED
    BY ONLY <1>2, <1>3

LEMMA EdgesAgree ==
  ASSUME NEW n \in Nat, NEW U, IsEdge(U, n), NEW m \in Nat, NEW V, IsEdge(V, m), m <= n
  PROVE  \A f \in 0 .. m : \A s \in Nat : U[f][s] = V[f][s]
  <1> DEFINE Bad == {f \in 0 .. m : \E s \in Nat : U[f][s] # V[f][s]}
  <1> SUFFICES ASSUME Bad # {} PROVE FALSE
    OBVIOUS
  <1>1. Bad \in SUBSET Nat
    OBVIOUS
  <1>2. PICK f \in Bad : \A g \in Bad : f <= g
    BY <1>1, FirstOf
  <1>3. PICK s \in Nat : U[f][s] # V[f][s]
    BY <1>2
  <1>4. f \in 0 .. m /\ f \in 0 .. n /\ f \in Nat /\ \A g \in 0 .. f - 1 : \A t \in Nat : U[g][t] = V[g][t]
    BY <1>2
  <1> HIDE DEF Bad
  <1>5. U[f][s] = EdgeRow(U, f, s) /\ V[f][s] = EdgeRow(V, f, s)
    BY <1>4, EdgeOn
  <1>6. PICK j \in Nat : (f = 2 * j \/ f = 2 * j + 1) /\ f \div 2 = j
    BY <1>4, HalfOf
  <1>7. PICK t \in Nat : s \div 2 = t
    BY HalfOf
  <1>8. f # 0 => j \in 0 .. f - 1
    BY <1>4, <1>6
  <1> QED
    BY <1>3, <1>4, <1>5, <1>6, <1>7, <1>8 DEF EdgeRow

LEMMA RightEdgeIs ==
  ASSUME NEW f \in Nat, NEW s \in Nat
  PROVE  \E U : IsEdge(U, f) /\ RightEdge(f, s) = U[f][s]
  <1> DEFINE Right(U) == U = [g \in 0 .. f |-> [t \in Nat |-> IF g % 2 = 0 /\ g # 0 THEN U[g \div 2][t \div 2] ELSE <<g, t>>]]
             V == CHOOSE U : Right(U)
  <1>1. \A U : Right(U) <=> IsEdge(U, f)
    BY DEF IsEdge, EdgeRow
  <1>2. \E U : Right(U)
    BY <1>1, EdgeExists
  <1>3. Right(V)
    BY <1>2
  <1>4. RightEdge(f, s) = V[f][s]
    BY DEF RightEdge
  <1> HIDE DEF V
  <1> QED
    BY <1>1, <1>3, <1>4

LEMMA EdgeSteps ==
  ASSUME NEW j \in Nat, NEW s \in Nat, NEW t \in Nat, s \div 2 = t
  PROVE  /\ RightEdge(2 * j + 1, s) = <<2 * j + 1, s>>
         /\ j # 0 => RightEdge(2 * j, s) = RightEdge(j, t)
  <1>1. RightEdge(2 * j + 1, s) = <<2 * j + 1, s>>
    <2>1. PICK f \in Nat : f = 2 * j + 1 /\ f % 2 = 1
      BY Parity
    <2>2. PICK U : IsEdge(U, f) /\ RightEdge(f, s) = U[f][s]
      BY RightEdgeIs
    <2>3. f \in 0 .. f
      OBVIOUS
    <2>4. U[f][s] = EdgeRow(U, f, s)
      BY <2>2, <2>3, EdgeOn
    <2> QED
      BY <2>1, <2>2, <2>4 DEF EdgeRow
  <1>2. ASSUME j # 0 PROVE RightEdge(2 * j, s) = RightEdge(j, t)
    <2>1. PICK f \in Nat : f = 2 * j /\ f % 2 = 0 /\ f \div 2 = j
      BY Parity
    <2>2. PICK U : IsEdge(U, f) /\ RightEdge(f, s) = U[f][s]
      BY RightEdgeIs
    <2>3. PICK V : IsEdge(V, j) /\ RightEdge(j, t) = V[j][t]
      BY RightEdgeIs
    <2>4. f \in 0 .. f /\ j \in 0 .. j /\ j <= f /\ f # 0
      BY <1>2, <2>1
    <2>5. U[f][s] = EdgeRow(U, f, s)
      BY <2>2, <2>4, EdgeOn
    <2>6. EdgeRow(U, f, s) = U[j][t]
      BY <2>1, <2>4 DEF EdgeRow
    <2>7. U[j][t] = V[j][t]
      BY <2>2, <2>3, <2>4, EdgesAgree
    <2> QED
      BY <2>1, <2>2, <2>3, <2>5, <2>6, <2>7
  <1> QED
    BY <1>1, <1>2

At(f, s, h, long) == [fnode |-> f, sn |-> s, hash |-> h, long |-> long]

LEMMA ClimbTop ==
  ASSUME NEW f, NEW h, NEW l, NEW x
  PROVE  Climb(At(f, 0, h, l), x) = At(f, 0, h, TRUE)
  BY DEF Climb, At

LEMMA ClimbRight ==
  ASSUME NEW f \in Nat, NEW s \in Nat, NEW h, NEW l, NEW x, s # 0, f % 2 = 1 \/ f = s
  PROVE  Climb(At(f, s, h, l), x) = At(RightEdge(f, s)[1] \div 2, RightEdge(f, s)[2] \div 2, NodeHash(x, h), l)
  BY DEF Climb, At, Above

LEMMA ClimbLeft ==
  ASSUME NEW f \in Nat, NEW s \in Nat, NEW h, NEW l, NEW x, s # 0, ~(f % 2 = 1 \/ f = s)
  PROVE  Climb(At(f, s, h, l), x) = At(f \div 2, s \div 2, NodeHash(h, x), l)
  <1>1. <<f, s>>[1] = f /\ <<f, s>>[2] = s
    OBVIOUS
  <1> QED
    BY <1>1 DEF Climb, At, Above

LEMMA RightEdgeTyped ==
  ASSUME NEW f \in Nat, NEW s \in Nat
  PROVE  RightEdge(f, s) \in Nat \X Nat
  <1>1. PICK U : IsEdge(U, f) /\ RightEdge(f, s) = U[f][s]
    BY RightEdgeIs
  <1> DEFINE Bad == {g \in 0 .. f : \E t \in Nat : U[g][t] \notin Nat \X Nat}
  <1>2. Bad = {}
    <2> SUFFICES ASSUME Bad # {} PROVE FALSE
      OBVIOUS
    <2>1. Bad \in SUBSET Nat
      OBVIOUS
    <2>2. PICK g \in Bad : \A k \in Bad : g <= k
      BY <2>1, FirstOf
    <2>3. PICK t \in Nat : U[g][t] \notin Nat \X Nat
      BY <2>2
    <2>4. g \in 0 .. f /\ g \in Nat /\ \A k \in 0 .. g - 1 : \A u \in Nat : U[k][u] \in Nat \X Nat
      BY <2>2
    <2> HIDE DEF Bad
    <2>5. U[g][t] = EdgeRow(U, g, t)
      BY <1>1, <2>4, EdgeOn
    <2>6. PICK j \in Nat : (g = 2 * j \/ g = 2 * j + 1) /\ g \div 2 = j
      BY <2>4, HalfOf
    <2>7. PICK u \in Nat : t \div 2 = u
      BY HalfOf
    <2>8. g # 0 => j \in 0 .. g - 1
      BY <2>4, <2>6
    <2> QED
      BY <2>3, <2>4, <2>5, <2>6, <2>7, <2>8 DEF EdgeRow
  <1>3. f \in 0 .. f
    OBVIOUS
  <1> QED
    BY <1>1, <1>2, <1>3

Climbed(f, s, h, l, x) ==
  \/ s = 0 /\ Climb(At(f, s, h, l), x) = At(f, s, h, TRUE)
  \/ \E g \in Nat, t \in Nat :
       \/ Climb(At(f, s, h, l), x) = At(g, t, NodeHash(x, h), l)
       \/ Climb(At(f, s, h, l), x) = At(g, t, NodeHash(h, x), l)

LEMMA ClimbAny ==
  ASSUME NEW f \in Nat, NEW s \in Nat, NEW h, NEW l, NEW x
  PROVE  Climbed(f, s, h, l, x)
  <1>1. CASE s = 0
    <2>1. Climb(At(f, 0, h, l), x) = At(f, 0, h, TRUE)
      BY ClimbTop
    <2> QED
      BY <1>1, <2>1 DEF Climbed
  <1>2. CASE s # 0 /\ (f % 2 = 1 \/ f = s)
    <2>0. RightEdge(f, s) \in Nat \X Nat
      BY RightEdgeTyped
    <2>1. RightEdge(f, s)[1] \in Nat /\ RightEdge(f, s)[2] \in Nat
      BY <2>0
    <2>2. PICK g \in Nat : RightEdge(f, s)[1] \div 2 = g
      BY <2>1, HalfOf
    <2>3. PICK t \in Nat : RightEdge(f, s)[2] \div 2 = t
      BY <2>1, HalfOf
    <2>4. Climb(At(f, s, h, l), x) = At(RightEdge(f, s)[1] \div 2, RightEdge(f, s)[2] \div 2, NodeHash(x, h), l)
      BY <1>2, ClimbRight
    <2>5. Climb(At(f, s, h, l), x) = At(g, t, NodeHash(x, h), l)
      BY ONLY <2>2, <2>3, <2>4
    <2> QED
      BY ONLY g \in Nat, t \in Nat, <2>5 DEF Climbed
  <1>3. CASE s # 0 /\ ~(f % 2 = 1 \/ f = s)
    <2>1. PICK g \in Nat : f \div 2 = g
      BY HalfOf
    <2>2. PICK t \in Nat : s \div 2 = t
      BY HalfOf
    <2>3. Climb(At(f, s, h, l), x) = At(f \div 2, s \div 2, NodeHash(h, x), l)
      BY <1>3, ClimbLeft
    <2>4. Climb(At(f, s, h, l), x) = At(g, t, NodeHash(h, x), l)
      BY ONLY <2>1, <2>2, <2>3
    <2> QED
      BY ONLY g \in Nat, t \in Nat, <2>4 DEF Climbed
  <1> QED
    BY <1>1, <1>2, <1>3

(* One turn at a leaf with a pair above it.                                           *)
LEMMA ClimbLevel ==
  ASSUME NEW s \in Nat, s # 0, NEW t \in Nat, s = 2 * t \/ s = 2 * t + 1,
         NEW j \in Nat, NEW h, NEW l, NEW x
  PROVE  /\ Climb(At(2 * j + 1, s, h, l), x) = At(j, t, NodeHash(x, h), l)
         /\ 2 * j < s => Climb(At(2 * j, s, h, l), x) = At(j, t, NodeHash(h, x), l)
         /\ 2 * j = s => Climb(At(2 * j, s, h, l), x) = Climb(At(j, t, h, l), x)
  <1>0. s \div 2 = t
    BY Parity
  <1>1. Climb(At(2 * j + 1, s, h, l), x) = At(j, t, NodeHash(x, h), l)
    <2>1. PICK f \in Nat : f = 2 * j + 1 /\ f % 2 = 1 /\ f \div 2 = j
      BY Parity
    <2>2. PICK e : e = RightEdge(f, s)
      OBVIOUS
    <2>3. e = <<f, s>>
      BY <1>0, <2>1, <2>2, EdgeSteps
    <2>4. e[1] = f /\ e[2] = s
      BY <2>3
    <2>5. Climb(At(f, s, h, l), x) = At(e[1] \div 2, e[2] \div 2, NodeHash(x, h), l)
      BY <2>1, <2>2, ClimbRight
    <2> QED
      BY <1>0, <2>1, <2>4, <2>5
  <1>2. ASSUME 2 * j < s PROVE Climb(At(2 * j, s, h, l), x) = At(j, t, NodeHash(h, x), l)
    <2>1. PICK f \in Nat : f = 2 * j /\ f % 2 = 0 /\ f \div 2 = j
      BY Parity
    <2>2. PICK e : e = RightEdge(f, s)
      OBVIOUS
    <2>3. ~(f % 2 = 1 \/ f = s)
      BY <1>2, <2>1
    <2>4. Climb(At(f, s, h, l), x) = At(f \div 2, s \div 2, NodeHash(h, x), l)
      BY <2>3, ClimbLeft
    <2> QED
      BY <1>0, <2>1, <2>4
  <1>3. ASSUME 2 * j = s PROVE Climb(At(2 * j, s, h, l), x) = Climb(At(j, t, h, l), x)
    <2>1. j = t /\ j # 0
      BY <1>3
    <2>2. PICK f \in Nat : f = 2 * j
      OBVIOUS
    <2>3. PICK e : e = RightEdge(f, s)
      OBVIOUS
    <2>4. e = RightEdge(j, t)
      BY <1>0, <2>1, <2>2, <2>3, EdgeSteps
    <2>5. f = s
      BY <1>3, <2>2
    <2>6. Climb(At(f, s, h, l), x) = At(e[1] \div 2, e[2] \div 2, NodeHash(x, h), l)
      BY <2>3, <2>5, ClimbRight
    <2>7. Climb(At(j, t, h, l), x) = At(e[1] \div 2, e[2] \div 2, NodeHash(x, h), l)
      BY <2>1, <2>4, ClimbRight
    <2> QED
      BY <2>2, <2>6, <2>7
  <1> QED
    BY <1>1, <1>2, <1>3

From(f, s, h) == At(f, s, h, FALSE)

LEMMA FromRight ==
  ASSUME NEW s \in Nat, s # 0, NEW t \in Nat, s = 2 * t \/ s = 2 * t + 1,
         NEW j \in Nat, NEW h, NEW x
  PROVE  Climb(From(2 * j + 1, s, h), x) = From(j, t, NodeHash(x, h))
  <1>1. PICK l : l = FALSE
    OBVIOUS
  <1>2. Climb(At(2 * j + 1, s, h, l), x) = At(j, t, NodeHash(x, h), l)
    BY ClimbLevel
  <1>3. \A f, g, k : From(f, g, k) = At(f, g, k, l)
    BY <1>1 DEF From
  <1> QED
    BY ONLY <1>2, <1>3

LEMMA FromLeft ==
  ASSUME NEW s \in Nat, s # 0, NEW t \in Nat, s = 2 * t \/ s = 2 * t + 1,
         NEW j \in Nat, NEW h, NEW x, 2 * j < s
  PROVE  Climb(From(2 * j, s, h), x) = From(j, t, NodeHash(h, x))
  <1>1. PICK l : l = FALSE
    OBVIOUS
  <1>2. Climb(At(2 * j, s, h, l), x) = At(j, t, NodeHash(h, x), l)
    BY ClimbLevel
  <1>3. \A f, g, k : From(f, g, k) = At(f, g, k, l)
    BY <1>1 DEF From
  <1> QED
    BY ONLY <1>2, <1>3

LEMMA FromEdge ==
  ASSUME NEW s \in Nat, s # 0, NEW t \in Nat, s = 2 * t \/ s = 2 * t + 1,
         NEW j \in Nat, NEW h, NEW x, 2 * j = s
  PROVE  Climb(From(2 * j, s, h), x) = Climb(From(j, t, h), x)
  <1>1. PICK l : l = FALSE
    OBVIOUS
  <1>2. Climb(At(2 * j, s, h, l), x) = Climb(At(j, t, h, l), x)
    BY ClimbLevel
  <1>3. \A f, g, k : From(f, g, k) = At(f, g, k, l)
    BY <1>1 DEF From
  <1> QED
    BY ONLY <1>2, <1>3

-----------------------------------------------------------------------------
(* The loop from one of the siblings on.                                              *)
LEMMA FromTo ==
  ASSUME NEW i \in Nat, NEW n \in Nat, NEW Good, i \in Good, \A k \in i + 1 .. n : k - 1 \in Good => k \in Good
  PROVE  \A k \in i .. n : k \in Good
  <1> DEFINE Bad == {k \in i .. n : k \notin Good}
  <1> SUFFICES ASSUME Bad # {} PROVE FALSE
    OBVIOUS
  <1>0. Bad \in SUBSET Nat
    OBVIOUS
  <1>1. PICK k \in Bad : \A m \in Bad : k <= m
    BY <1>0, FirstOf
  <1>2. k # i /\ k - 1 \in i .. n /\ ~(k <= k - 1) /\ k \in i + 1 .. n
    BY <1>1
  <1> QED
    BY <1>1, <1>2

Climbs(c, p, z, at) == c = [k \in z .. Len(p) |-> IF k = z THEN at ELSE Climb(c[k - 1], p[k])]
Ends(at, root) == ~at.long /\ at.sn = 0 /\ at.hash = root
Runs(p, z, at, root) == \E c : Climbs(c, p, z, at) /\ Ends(c[Len(p)], root)

LEMMA ClimbsOn ==
  ASSUME NEW p, Len(p) \in Nat, NEW z \in 0 .. Len(p), NEW at, NEW c, Climbs(c, p, z, at)
  PROVE  /\ c[z] = at
         /\ \A k \in z + 1 .. Len(p) : c[k] = Climb(c[k - 1], p[k])
         /\ c = [k \in z .. Len(p) |-> c[k]]
  <1>1. PICK R : R = [k \in z .. Len(p) |-> IF k = z THEN at ELSE Climb(c[k - 1], p[k])]
    OBVIOUS
  <1>2. c = R
    BY <1>1 DEF Climbs
  <1>3. /\ R[z] = at
        /\ \A k \in z + 1 .. Len(p) : R[k] = Climb(c[k - 1], p[k])
        /\ R = [k \in z .. Len(p) |-> R[k]]
    <2>1. z \in z .. Len(p) /\ \A k \in z + 1 .. Len(p) : k \in z .. Len(p) /\ k # z
      OBVIOUS
    <2> QED
      BY ONLY <1>1, <2>1
  <1> QED
    BY ONLY <1>2, <1>3

LEMMA ClimbsIf ==
  ASSUME NEW p, Len(p) \in Nat, NEW z \in 0 .. Len(p), NEW at, NEW c,
         c[z] = at, \A k \in z + 1 .. Len(p) : c[k] = Climb(c[k - 1], p[k]),
         c = [k \in z .. Len(p) |-> c[k]]
  PROVE  Climbs(c, p, z, at)
  <1>1. ASSUME NEW k \in z .. Len(p) PROVE c[k] = IF k = z THEN at ELSE Climb(c[k - 1], p[k])
    <2>1. k # z => k \in z + 1 .. Len(p)
      OBVIOUS
    <2> QED
      BY <2>1
  <1> QED
    BY <1>1 DEF Climbs

LEMMA ClimbsExist ==
  ASSUME NEW p, Len(p) \in Nat, NEW at
  PROVE  \E c : Climbs(c, p, 0, at)
  <1> DEFINE Upto(c, n) == c = [k \in 0 .. n |-> IF k = 0 THEN at ELSE Climb(c[k - 1], p[k])]
             Good == {n \in Nat : \E c : Upto(c, n)}
  <1>1. 0 \in Good
    <2>1. PICK c : c = [k \in 0 .. 0 |-> at]
      OBVIOUS
    <2>2. \A k \in 0 .. 0 : k = 0
      OBVIOUS
    <2>3. Upto(c, 0)
      BY <2>1, <2>2
    <2> QED
      BY <2>3
  <1>2. ASSUME NEW n \in 1 .. Len(p), n - 1 \in Good PROVE n \in Good
    <2>1. PICK u : Upto(u, n - 1)
      BY <1>2
    <2>2. PICK c : c = [k \in 0 .. n |-> IF k = n THEN Climb(u[n - 1], p[n]) ELSE u[k]]
      OBVIOUS
    <2>3. \A k \in 0 .. n : k # n => k \in 0 .. n - 1 /\ c[k] = u[k]
      BY <2>2
    <2>4. n # 0 /\ n - 1 \in 0 .. n /\ n - 1 # n /\ n \in 0 .. n
      OBVIOUS
    <2>5. ASSUME NEW k \in 0 .. n PROVE c[k] = IF k = 0 THEN at ELSE Climb(c[k - 1], p[k])
      <3>1. CASE k = n
        <4>1. c[n] = Climb(u[n - 1], p[n]) /\ c[n - 1] = u[n - 1]
          BY <2>2, <2>3, <2>4
        <4> QED
          BY <2>4, <3>1, <4>1
      <3>2. CASE k # n
        <4>1. c[k] = u[k] /\ u[k] = IF k = 0 THEN at ELSE Climb(u[k - 1], p[k])
          BY <2>1, <2>3, <3>2
        <4>2. k # 0 => k - 1 \in 0 .. n /\ k - 1 # n
          OBVIOUS
        <4> QED
          BY <2>3, <4>1, <4>2
      <3> QED
        BY <3>1, <3>2
    <2>6. c = [k \in 0 .. n |-> c[k]]
      BY <2>2
    <2>7. Upto(c, n)
      BY <2>5, <2>6
    <2> QED
      BY <2>7
  <1>3. \A n \in 0 .. Len(p) : n \in Good
    <2> HIDE DEF Good
    <2> QED
      BY <1>1, <1>2, UpTo
  <1> QED
    BY <1>3 DEF Climbs

LEMMA ClimbsOnce ==
  ASSUME NEW p, Len(p) \in Nat, NEW at, NEW c, Climbs(c, p, 0, at), NEW d, Climbs(d, p, 0, at)
  PROVE  c = d
  <1> DEFINE Good == {k \in Nat : c[k] = d[k]}
  <1>1. /\ c[0] = at /\ d[0] = at
        /\ \A k \in 0 + 1 .. Len(p) : c[k] = Climb(c[k - 1], p[k]) /\ d[k] = Climb(d[k - 1], p[k])
        /\ c = [k \in 0 .. Len(p) |-> c[k]] /\ d = [k \in 0 .. Len(p) |-> d[k]]
    BY ClimbsOn
  <1>2. 0 \in Good
    BY <1>1
  <1>3. ASSUME NEW k \in 1 .. Len(p), k - 1 \in Good PROVE k \in Good
    <2>1. k \in 0 + 1 .. Len(p) /\ k \in Nat
      OBVIOUS
    <2> QED
      BY <1>1, <1>3, <2>1
  <1>4. \A k \in 0 .. Len(p) : k \in Good
    <2> HIDE DEF Good
    <2> QED
      BY <1>2, <1>3, UpTo
  <1>5. \A k \in 0 .. Len(p) : c[k] = d[k]
    BY <1>4
  <1> QED
    BY ONLY <1>1, <1>5

LEMMA RunsOn ==
  ASSUME NEW p, Len(p) \in Nat, NEW z \in 0 .. Len(p) - 1, NEW at, NEW root
  PROVE  Runs(p, z, at, root) <=> Runs(p, z + 1, Climb(at, p[z + 1]), root)
  <1>0. z \in 0 .. Len(p) /\ z + 1 \in 0 .. Len(p) /\ z + 1 \in z + 1 .. Len(p) /\ (z + 1) - 1 = z /\ z + 1 <= Len(p)
    OBVIOUS
  <1>1. ASSUME NEW c, Climbs(c, p, z, at), Ends(c[Len(p)], root)
        PROVE  Runs(p, z + 1, Climb(at, p[z + 1]), root)
    <2>1. c[z] = at /\ \A k \in z + 1 .. Len(p) : c[k] = Climb(c[k - 1], p[k])
      BY <1>0, <1>1, ClimbsOn
    <2>2. PICK d : d = [k \in z + 1 .. Len(p) |-> c[k]]
      OBVIOUS
    <2>3. d[z + 1] = Climb(at, p[z + 1])
      BY <1>0, <2>1, <2>2
    <2>4. \A k \in (z + 1) + 1 .. Len(p) : k \in z + 1 .. Len(p) /\ k - 1 \in z + 1 .. Len(p)
      OBVIOUS
    <2>5. \A k \in (z + 1) + 1 .. Len(p) : d[k] = Climb(d[k - 1], p[k])
      BY <2>1, <2>2, <2>4
    <2>6. d = [k \in z + 1 .. Len(p) |-> d[k]]
      BY <2>2
    <2>7. Climbs(d, p, z + 1, Climb(at, p[z + 1]))
      BY <1>0, <2>3, <2>5, <2>6, ClimbsIf
    <2>8. d[Len(p)] = c[Len(p)]
      <3>1. Len(p) \in z + 1 .. Len(p)
        OBVIOUS
      <3> QED
        BY <2>2, <3>1
    <2> QED
      BY <1>1, <2>7, <2>8 DEF Runs
  <1>2. ASSUME NEW d, Climbs(d, p, z + 1, Climb(at, p[z + 1])), Ends(d[Len(p)], root)
        PROVE  Runs(p, z, at, root)
    <2>1. d[z + 1] = Climb(at, p[z + 1]) /\ \A k \in (z + 1) + 1 .. Len(p) : d[k] = Climb(d[k - 1], p[k])
      BY <1>0, <1>2, ClimbsOn
    <2>2. PICK c : c = [k \in z .. Len(p) |-> IF k = z THEN at ELSE d[k]]
      OBVIOUS
    <2>3. c[z] = at
      BY <1>0, <2>2
    <2>4. \A k \in z + 1 .. Len(p) : k \in z .. Len(p) /\ k # z /\ c[k] = d[k]
      BY <2>2
    <2>5. ASSUME NEW k \in z + 1 .. Len(p) PROVE c[k] = Climb(c[k - 1], p[k])
      <3>1. CASE k = z + 1
        BY <1>0, <2>1, <2>3, <2>4, <3>1
      <3>2. CASE k # z + 1
        <4>1. k \in (z + 1) + 1 .. Len(p) /\ k - 1 \in z + 1 .. Len(p)
          BY <3>2
        <4> QED
          BY <2>1, <2>4, <4>1
      <3> QED
        BY <3>1, <3>2
    <2>6. c = [k \in z .. Len(p) |-> c[k]]
      BY <2>2
    <2>7. Climbs(c, p, z, at)
      BY <1>0, <2>3, <2>5, <2>6, ClimbsIf
    <2>8. d[Len(p)] = c[Len(p)]
      <3>1. Len(p) \in z + 1 .. Len(p)
        OBVIOUS
      <3> QED
        BY <2>4, <3>1
    <2> QED
      BY <1>2, <2>7, <2>8 DEF Runs
  <1> QED
    BY <1>1, <1>2 DEF Runs

(* At the end of the siblings.                                                        *)
LEMMA RunsOut ==
  ASSUME NEW p, Len(p) \in Nat, NEW at, NEW root
  PROVE  Runs(p, Len(p), at, root) <=> Ends(at, root)
  <1>1. ASSUME Ends(at, root) PROVE Runs(p, Len(p), at, root)
    <2>1. PICK c : c = [k \in Len(p) .. Len(p) |-> at]
      OBVIOUS
    <2>2. c[Len(p)] = at /\ Len(p) + 1 .. Len(p) = {} /\ c = [k \in Len(p) .. Len(p) |-> c[k]]
      BY <2>1
    <2>3. Len(p) \in 0 .. Len(p) /\ \A k \in Len(p) + 1 .. Len(p) : c[k] = Climb(c[k - 1], p[k])
      BY <2>2
    <2>4. Climbs(c, p, Len(p), at)
      BY <2>2, <2>3, ClimbsIf
    <2> QED
      BY <1>1, <2>2, <2>4 DEF Runs
  <1>2. ASSUME Runs(p, Len(p), at, root) PROVE Ends(at, root)
    <2>1. PICK c : Climbs(c, p, Len(p), at) /\ Ends(c[Len(p)], root)
      BY <1>2 DEF Runs
    <2>2. c[Len(p)] = at
      <3>1. Len(p) \in 0 .. Len(p)
        OBVIOUS
      <3> QED
        BY <2>1, <3>1, ClimbsOn
    <2> QED
      BY <2>1, <2>2
  <1> QED
    BY <1>1, <1>2

StaysLong(f, s, h, l, x) == \E g \in Nat, t \in Nat : \E k : Climb(At(f, s, h, l), x) = At(g, t, k, l)

LEMMA LongStays ==
  ASSUME NEW f \in Nat, NEW s \in Nat, NEW h, NEW x, NEW l, l = TRUE
  PROVE  StaysLong(f, s, h, l, x)
  <1>1. CASE s = 0 /\ Climb(At(f, s, h, l), x) = At(f, s, h, TRUE)
    BY <1>1 DEF StaysLong
  <1>2. CASE \E g \in Nat, t \in Nat :
               \/ Climb(At(f, s, h, l), x) = At(g, t, NodeHash(x, h), l)
               \/ Climb(At(f, s, h, l), x) = At(g, t, NodeHash(h, x), l)
    BY <1>2 DEF StaysLong
  <1>3. Climbed(f, s, h, l, x)
    BY ONLY f \in Nat, s \in Nat, ClimbAny
  <1> QED
    BY <1>1, <1>2, <1>3 DEF Climbed

(* At the top nothing may follow.                                                     *)
LEMMA RunsAtTop ==
  ASSUME NEW p, Len(p) \in Nat, NEW z \in 0 .. Len(p), NEW f \in Nat, NEW h, NEW root
  PROVE  Runs(p, z, From(f, 0, h), root) <=> z = Len(p) /\ h = root
  <1>1. Ends(From(f, 0, h), root) <=> h = root
    BY DEF Ends, From, At
  <1>2. CASE z = Len(p)
    BY <1>1, <1>2, RunsOut
  <1>3. ASSUME z # Len(p), Runs(p, z, From(f, 0, h), root) PROVE FALSE
    <2>0. PICK at, l : at = From(f, 0, h) /\ l = TRUE
      OBVIOUS
    <2>8. l = TRUE
      BY <2>0
    <2>1. PICK c : Climbs(c, p, z, at) /\ Ends(c[Len(p)], root)
      BY <1>3, <2>0 DEF Runs
    <2>2. c[z] = at /\ \A k \in z + 1 .. Len(p) : c[k] = Climb(c[k - 1], p[k])
      BY <2>1, ClimbsOn
    <2> DEFINE Good == {k \in Nat : \E g \in Nat, t \in Nat : \E i : c[k] = At(g, t, i, l)}
    <2>3. z + 1 \in Nat /\ z + 1 \in z + 1 .. Len(p) /\ (z + 1) - 1 = z
      BY <1>3
    <2>4. z + 1 \in Good
      <3>1. c[z + 1] = Climb(at, p[z + 1])
        BY <2>2, <2>3
      <3>2. Climb(at, p[z + 1]) = At(f, 0, h, l)
        BY <2>0, ClimbTop DEF From
      <3> QED
        BY <2>3, <3>1, <3>2
    <2>5. ASSUME NEW k \in (z + 1) + 1 .. Len(p), k - 1 \in Good PROVE k \in Good
      <3>1. k \in Nat /\ k \in z + 1 .. Len(p)
        OBVIOUS
      <3>2. PICK g \in Nat, t \in Nat : \E i : c[k - 1] = At(g, t, i, l)
        BY <2>5
      <3>5. PICK i : c[k - 1] = At(g, t, i, l)
        BY <3>2
      <3>3. c[k] = Climb(At(g, t, i, l), p[k])
        BY <2>2, <3>1, <3>5
      <3>4. StaysLong(g, t, i, l, p[k])
        BY ONLY g \in Nat, t \in Nat, <2>8, LongStays
      <3> QED
        BY <3>1, <3>3, <3>4 DEF StaysLong
    <2>6. Len(p) \in Good
      <3> HIDE DEF Good
      <3>1. \A k \in z + 1 .. Len(p) : k \in Good
        BY <2>3, <2>4, <2>5, FromTo
      <3>2. Len(p) \in z + 1 .. Len(p)
        BY <1>3
      <3> QED
        BY <3>1, <3>2
    <2>7. \A g, t, i : At(g, t, i, l).long = l
      BY DEF At
    <2> QED
      BY <2>0, <2>1, <2>6, <2>7 DEF Ends
  <1> QED
    BY <1>2, <1>3

-----------------------------------------------------------------------------
(* Hashes are equal only if what was hashed is.                                        *)
LEMMA NodeHashes ==
  ASSUME NEW a, NEW b, NEW c, NEW d, NodeHash(a, b) = NodeHash(c, d)
  PROVE  a = c /\ b = d
  <1>1. NodeHash(a, b)[2] = a /\ NodeHash(a, b)[3] = b /\ NodeHash(c, d)[2] = c /\ NodeHash(c, d)[3] = d
    BY DEF NodeHash
  <1> QED
    BY <1>1

LEMMA LeafIsNoNode ==
  ASSUME NEW x, NEW a, NEW b
  PROVE  LeafHash(x) # NodeHash(a, b)
  <1>1. LeafHash(x)[1] = 0 /\ NodeHash(a, b)[1] = 1
    BY DEF LeafHash, NodeHash
  <1> QED
    BY <1>1

LEMMA LeafHashes ==
  ASSUME NEW x, NEW y, LeafHash(x) = LeafHash(y)
  PROVE  x = y
  <1>1. LeafHash(x)[2] = x /\ LeafHash(y)[2] = y
    BY DEF LeafHash
  <1> QED
    BY <1>1

(* From the z-th sibling on, p is q.                                                   *)
Rest(p, z, q) == Len(p) = z + Len(q) /\ \A x \in 1 .. Len(q) : p[z + x] = q[x]

LEMMA RestGrown ==
  ASSUME NEW p, Len(p) \in Nat, NEW z \in 0 .. Len(p), NEW q, NEW first, NEW rest, Len(rest) \in Nat, Grown(q, first, rest)
  PROVE  Rest(p, z, q) <=> z + 1 \in 1 .. Len(p) /\ p[z + 1] = first /\ Rest(p, z + 1, rest)
  <1>1. Len(q) = Len(rest) + 1 /\ q[1] = first /\ \A x \in 1 .. Len(rest) : q[x + 1] = rest[x]
    BY DEF Grown
  <1>2. ASSUME Rest(p, z, q) PROVE z + 1 \in 1 .. Len(p) /\ p[z + 1] = first /\ Rest(p, z + 1, rest)
    <2>1. Len(p) = z + Len(q) /\ \A x \in 1 .. Len(q) : p[z + x] = q[x]
      BY <1>2 DEF Rest
    <2>2. 1 \in 1 .. Len(q) /\ z + 1 \in 1 .. Len(p)
      BY <1>1, <2>1
    <2>3. ASSUME NEW x \in 1 .. Len(rest) PROVE p[(z + 1) + x] = rest[x]
      <3>1. x + 1 \in 1 .. Len(q) /\ z + (x + 1) = (z + 1) + x
        BY <1>1
      <3>2. p[z + (x + 1)] = q[x + 1]
        BY <2>1, <3>1
      <3> QED
        BY <1>1, <3>1, <3>2
    <2>4. Len(p) = (z + 1) + Len(rest)
      BY <1>1, <2>1
    <2> QED
      BY <1>1, <2>1, <2>2, <2>3, <2>4 DEF Rest
  <1>3. ASSUME z + 1 \in 1 .. Len(p), p[z + 1] = first, Rest(p, z + 1, rest) PROVE Rest(p, z, q)
    <2>1. Len(p) = (z + 1) + Len(rest) /\ \A x \in 1 .. Len(rest) : p[(z + 1) + x] = rest[x]
      BY <1>3 DEF Rest
    <2>2. ASSUME NEW x \in 1 .. Len(q) PROVE p[z + x] = q[x]
      <3>1. CASE x = 1
        BY <1>1, <1>3, <3>1
      <3>2. CASE x # 1
        <4>1. PICK y \in 1 .. Len(rest) : x = y + 1
          <5>1. x - 1 \in 1 .. Len(rest) /\ x = (x - 1) + 1
            BY <1>1, <3>2
          <5> QED
            BY <5>1
        <4>2. z + x = (z + 1) + y
          BY <4>1
        <4> QED
          BY <1>1, <2>1, <4>1, <4>2
      <3> QED
        BY <3>1, <3>2
    <2>3. Len(p) = z + Len(q)
      BY <1>1, <2>1
    <2> QED
      BY <2>2, <2>3 DEF Rest
  <1> QED
    BY <1>2, <1>3

(* The climb from a leaf ends at the root exactly with the leaf's hash and its path.   *)
Judges(N, B, H, P, p, h, root, i, z) ==
  /\ IsTree(H, B, N) /\ IsPathOf(P, H, i, N) /\ root = H[N][0]
  /\ Len(p) \in Nat /\ z \in 0 .. Len(p)
  => (Runs(p, z, From(i, N - 1, h), root) <=> h = B[i] /\ Rest(p, z, P[N][0]))
Exact(N) == \A B, H, P, p, h, root : \A i \in 0 .. N - 1 : \A z \in Nat : Judges(N, B, H, P, p, h, root, i, z)

LEMMA ExactOne == Exact(1)
  <1> SUFFICES ASSUME NEW B, NEW H, NEW P, NEW p, NEW h, NEW root, NEW i \in 0 .. 1 - 1, NEW z \in Nat
               PROVE  Judges(1, B, H, P, p, h, root, i, z)
    BY DEF Exact
  <1> SUFFICES ASSUME IsTree(H, B, 1), IsPathOf(P, H, i, 1), root = H[1][0], Len(p) \in Nat, z \in 0 .. Len(p)
               PROVE  Runs(p, z, From(i, 1 - 1, h), root) <=> h = B[i] /\ Rest(p, z, P[1][0])
    BY DEF Judges
  <1>1. i = 0 /\ 1 - 1 = 0 /\ 0 \in Nat /\ 1 \in Nat /\ 1 # 0
    OBVIOUS
  <1>2. root = B[0]
    BY <1>1, TreeOn
  <1>3. P[1][0] = <<>>
    <2>1. PathSteps(P, H, i, 1)
      BY <1>1, PathOn
    <2> QED
      BY <1>1, <2>1 DEF PathSteps
  <1>4. Rest(p, z, <<>>) <=> z = Len(p)
    <2>1. Len(<<>>) = 0 /\ 1 .. 0 = {} /\ z + 0 = z
      OBVIOUS
    <2> QED
      BY <2>1 DEF Rest
  <1>5. Runs(p, z, From(0, 0, h), root) <=> z = Len(p) /\ h = root
    BY <1>1, RunsAtTop
  <1> QED
    BY <1>1, <1>2, <1>3, <1>4, <1>5

LEMMA ExactHalved ==
  ASSUME NEW N \in Nat, N >= 2, NEW M \in Nat, Halves(N, M), Exact(M)
  PROVE  Exact(N)
  <1> SUFFICES ASSUME NEW B, NEW H, NEW P, NEW p, NEW h, NEW root, NEW i \in 0 .. N - 1, NEW z \in Nat
               PROVE  Judges(N, B, H, P, p, h, root, i, z)
    BY DEF Exact
  <1> SUFFICES ASSUME IsTree(H, B, N), IsPathOf(P, H, i, N), root = H[N][0], Len(p) \in Nat, z \in 0 .. Len(p)
               PROVE  Runs(p, z, From(i, N - 1, h), root) <=> h = B[i] /\ Rest(p, z, P[N][0])
    BY DEF Judges
  <1>1. PICK j \in Nat : i = 2 * j \/ i = 2 * j + 1
    <2>1. i \in Nat
      OBVIOUS
    <2> QED
      BY <2>1, HalfOf
  <1>2. PICK s \in Nat : s = N - 1
    OBVIOUS
  <1>3. PICK t \in Nat : t = M - 1
    <2>1. M - 1 \in Nat
      BY DEF Halves
    <2> QED
      BY <2>1
  <1>4. s # 0 /\ (s = 2 * t \/ s = 2 * t + 1)
    BY <1>2, <1>3 DEF Halves
  <1>5. j \in 0 .. M - 1 /\ i <= s /\ M # 0
    BY <1>1, <1>2 DEF Halves
  <1>6. PICK G : IsTree(G, PairHash(H, N), M)
    BY TreeExists
  <1>7. PICK Q : IsPathOf(Q, G, j, M)
    BY PathsExist
  <1>8. Lifted(P[N][0], Q[M][0], H, N, i, j)
    BY <1>1, <1>6, <1>7, HalvedPath
  <1>9. root = G[M][0]
    <2>1. M \in 1 .. M /\ 0 + M <= M /\ Wide(N, M, 0) = N
      BY <1>5 DEF Wide, Halves
    <2>2. G[M][0] = H[Wide(N, M, 0)][2 * 0]
      BY <1>6, <2>1, HalvedTree
    <2> QED
      BY <2>1, <2>2
  <1>10. ASSUME NEW y \in 0 .. Len(p), NEW k
         PROVE  Runs(p, y, From(j, t, k), root) <=> k = PairHash(H, N)[j] /\ Rest(p, y, Q[M][0])
    <2>1. y \in Nat
      OBVIOUS
    <2> QED
      <3>1. Judges(M, PairHash(H, N), G, Q, p, k, root, j, y)
        BY <1>5, <2>1 DEF Exact
      <3> QED
        BY <1>3, <1>6, <1>7, <1>9, <3>1 DEF Judges
  <1>11. Len(Q[M][0]) \in Nat
    <2>1. \A m \in 1 .. M : \A l \in Nat : G[m][l] \in Hashes(G, M)
      BY HashesAre
    <2>2. M \in 1 .. M
      BY <1>5
    <2>3. Q[M][0] \in Seq(Hashes(G, M))
      BY <1>7, <2>1, <2>2, PathTyped
    <2> QED
      BY <2>3, LenProperties
  <1>12. PairHash(H, N)[j] = IF 2 * j + 1 < N THEN NodeHash(B[2 * j], B[2 * j + 1]) ELSE B[2 * j]
    <2>1. PairHash(H, N)[j] = IF 2 * j + 1 < N THEN H[2][2 * j] ELSE H[1][2 * j]
      BY DEF PairHash
    <2>2. 2 * j \in Nat /\ 2 * j + 1 \in Nat /\ N # 0 /\ 2 \in 2 .. N
      OBVIOUS
    <2>3. Split(2) \in 1 .. 2 - 1
      BY SplitIs
    <2>4. Split(2) = 1 /\ 2 - 1 = 1
      BY <2>3
    <2>7. TreeSteps(H, B, N)
      BY TreeStepsHold
    <2>5. H[2][2 * j] = NodeHash(H[Split(2)][2 * j], H[2 - Split(2)][2 * j + Split(2)])
      BY ONLY <2>2, <2>7 DEF TreeSteps
    <2>6. \A lo \in Nat : H[1][lo] = B[lo]
      BY ONLY <2>2, <2>7 DEF TreeSteps
    <2> QED
      BY ONLY <2>1, <2>2, <2>4, <2>5, <2>6
  <1>13. \A lo \in Nat : H[1][lo] = B[lo]
    BY TreeOn
  <1>14. PICK at : at = From(i, s, h)
    OBVIOUS
  <1>15. ~Ends(at, root)
    BY <1>4, <1>14 DEF Ends, From, At
  <1>19. i = 2 * j + 1 \/ (i = 2 * j /\ i < N - 1) \/ (i = 2 * j /\ i = N - 1)
    BY <1>1, <1>2, <1>5
  <1>16. z # Len(p) => z \in 0 .. Len(p) - 1 /\ z + 1 \in 0 .. Len(p) /\ z + 1 \in 1 .. Len(p)
    OBVIOUS
  <1>17. CASE z = Len(p)
    <2>1. ~Runs(p, z, at, root)
      BY <1>15, <1>17, RunsOut
    <2>2. CASE i = 2 * j + 1 \/ i < N - 1
      <3>1. ~(z + 1 \in 1 .. Len(p))
        BY <1>17
      <3>2. \E e : Grown(P[N][0], e, Q[M][0])
        BY <1>8, <2>2 DEF Lifted
      <3>3. ~Rest(p, z, P[N][0])
        BY <1>11, <3>1, <3>2, RestGrown
      <3> QED
        BY <1>2, <1>14, <2>1, <3>3
    <2>3. CASE i = 2 * j /\ i = N - 1
      <3>1. j = t /\ t # 0 /\ P[N][0] = Q[M][0]
        BY <1>2, <1>4, <1>8, <2>3 DEF Lifted
      <3>2. ~Ends(From(j, t, h), root)
        BY <3>1 DEF Ends, From, At
      <3>3. ~Runs(p, z, From(j, t, h), root)
        BY <1>17, <3>2, RunsOut
      <3>4. PairHash(H, N)[j] = B[i]
        BY <1>12, <2>3
      <3>5. ~(h = B[i] /\ Rest(p, z, Q[M][0]))
        BY <1>10, <3>3, <3>4
      <3> QED
        BY <1>2, <1>14, <2>1, <3>1, <3>5
    <2> QED
      BY ONLY <1>19, <2>2, <2>3
  <1>18. CASE z # Len(p)
    <2>1. PICK x, next : x = p[z + 1] /\ next = Climb(at, x)
      OBVIOUS
    <2>2. Runs(p, z, at, root) <=> Runs(p, z + 1, next, root)
      BY <1>16, <1>18, <2>1, RunsOn
    <2>3. CASE i = 2 * j + 1
      <3>1. next = From(j, t, NodeHash(x, h))
        <4>1. Climb(From(2 * j + 1, s, h), x) = From(j, t, NodeHash(x, h))
          BY ONLY <1>4, s \in Nat, t \in Nat, j \in Nat, FromRight
        <4> QED
          BY ONLY <1>14, <2>1, <2>3, <4>1
      <3>2. Runs(p, z + 1, next, root) <=> NodeHash(x, h) = PairHash(H, N)[j] /\ Rest(p, z + 1, Q[M][0])
        BY <1>10, <1>16, <1>18, <3>1
      <3>3. PairHash(H, N)[j] = NodeHash(B[i - 1], B[i])
        <4>1. 2 * j + 1 < N /\ i - 1 = 2 * j
          BY <1>2, <1>5, <2>3
        <4> QED
          BY <1>12, <2>3, <4>1
      <3>4. NodeHash(x, h) = PairHash(H, N)[j] <=> x = B[i - 1] /\ h = B[i]
        BY <3>3, NodeHashes
      <3>5. Grown(P[N][0], B[i - 1], Q[M][0])
        <4>1. i - 1 \in Nat
          BY <2>3
        <4> QED
          BY <1>8, <1>13, <2>3, <4>1 DEF Lifted
      <3>6. Rest(p, z, P[N][0]) <=> x = B[i - 1] /\ Rest(p, z + 1, Q[M][0])
        BY <1>11, <1>16, <1>18, <2>1, <3>5, RestGrown
      <3> QED
        BY <1>2, <1>14, <2>2, <3>2, <3>4, <3>6
    <2>4. CASE i = 2 * j /\ i < N - 1
      <3>1. next = From(j, t, NodeHash(h, x))
        <4>1. 2 * j < s
          BY <1>2, <2>4
        <4>2. Climb(From(2 * j, s, h), x) = From(j, t, NodeHash(h, x))
          BY ONLY <1>4, <4>1, s \in Nat, t \in Nat, j \in Nat, FromLeft
        <4> QED
          BY ONLY <1>14, <2>1, <2>4, <4>2
      <3>2. Runs(p, z + 1, next, root) <=> NodeHash(h, x) = PairHash(H, N)[j] /\ Rest(p, z + 1, Q[M][0])
        BY <1>10, <1>16, <1>18, <3>1
      <3>3. PairHash(H, N)[j] = NodeHash(B[i], B[i + 1])
        <4>1. 2 * j + 1 < N /\ i + 1 = 2 * j + 1
          BY <2>4
        <4> QED
          BY <1>12, <2>4, <4>1
      <3>4. NodeHash(h, x) = PairHash(H, N)[j] <=> h = B[i] /\ x = B[i + 1]
        BY <3>3, NodeHashes
      <3>5. Grown(P[N][0], B[i + 1], Q[M][0])
        <4>1. i + 1 \in Nat /\ i # 2 * j + 1
          BY <2>4
        <4> QED
          BY <1>8, <1>13, <2>4, <4>1 DEF Lifted
      <3>6. Rest(p, z, P[N][0]) <=> x = B[i + 1] /\ Rest(p, z + 1, Q[M][0])
        BY <1>11, <1>16, <1>18, <2>1, <3>5, RestGrown
      <3> QED
        BY <1>2, <1>14, <2>2, <3>2, <3>4, <3>6
    <2>5. CASE i = 2 * j /\ i = N - 1
      <3>1. j = t /\ P[N][0] = Q[M][0]
        BY <1>2, <1>4, <1>8, <2>5 DEF Lifted
      <3>2. next = Climb(From(j, t, h), x)
        BY <1>2, <1>4, <1>14, <2>1, <2>5, FromEdge
      <3>3. Runs(p, z, From(j, t, h), root) <=> Runs(p, z + 1, next, root)
        BY <1>16, <1>18, <2>1, <3>2, RunsOn
      <3>4. PairHash(H, N)[j] = B[i]
        BY <1>12, <2>5
      <3>5. Runs(p, z, From(j, t, h), root) <=> h = B[i] /\ Rest(p, z, Q[M][0])
        <4>1. Runs(p, z, From(j, t, h), root) <=> h = PairHash(H, N)[j] /\ Rest(p, z, Q[M][0])
          BY <1>10
        <4> QED
          BY ONLY <3>4, <4>1
      <3> QED
        BY <1>2, <1>14, <2>2, <3>1, <3>3, <3>5
    <2> QED
      BY ONLY <1>19, <2>3, <2>4, <2>5
  <1> QED
    BY <1>17, <1>18

LEMMA ClimbIsExact == ASSUME NEW N \in Nat, N # 0 PROVE Exact(N)
  <1> DEFINE Bad == {n \in 1 .. N : ~Exact(n)}
  <1>1. Bad = {}
    <2> SUFFICES ASSUME Bad # {} PROVE FALSE
      OBVIOUS
    <2>1. Bad \in SUBSET Nat
      OBVIOUS
    <2>2. PICK n \in Bad : \A m \in Bad : n <= m
      BY <2>1, FirstOf
    <2>3. n \in 1 .. N /\ ~Exact(n) /\ \A m \in 1 .. n - 1 : Exact(m)
      BY <2>2
    <2> HIDE DEF Bad
    <2>4. n # 1
      BY <2>3, ExactOne
    <2>5. PICK m \in Nat : Halves(n, m)
      <3>1. n \in Nat
        BY <2>3
      <3>2. PICK j \in Nat : n = 2 * j \/ n = 2 * j + 1
        BY <3>1, HalfOf
      <3>3. Halves(n, j) \/ Halves(n, j + 1)
        BY <3>2 DEF Halves
      <3> QED
        BY <3>3
    <2>6. m \in 1 .. n - 1 /\ n >= 2 /\ n \in Nat
      BY <2>3, <2>4, <2>5 DEF Halves
    <2> QED
      BY <2>3, <2>5, <2>6, ExactHalved
  <1>2. N \in 1 .. N
    OBVIOUS
  <1> QED
    BY <1>1, <1>2

-----------------------------------------------------------------------------
(* What is hashed into a root, whatever the siblings are.                              *)
LEMMA EndsOnce ==
  ASSUME NEW p, Len(p) \in Nat, NEW at, NEW c, Climbs(c, p, 0, at), NEW root
  PROVE  Runs(p, 0, at, root) <=> Ends(c[Len(p)], root)
  BY ClimbsOnce DEF Runs

InTree(k, H, N) == \E n \in 1 .. N : \E lo \in Nat : lo + n <= N /\ k = H[n][lo]

LEMMA BothInTree ==
  ASSUME NEW N \in Nat, NEW B, NEW H, IsTree(H, B, N), \A lo \in Nat : \E y : B[lo] = LeafHash(y),
         NEW a, NEW b, InTree(NodeHash(a, b), H, N)
  PROVE  InTree(a, H, N) /\ InTree(b, H, N)
  <1>1. PICK n \in 1 .. N : \E lo \in Nat : lo + n <= N /\ NodeHash(a, b) = H[n][lo]
    BY DEF InTree
  <1>2. PICK lo \in Nat : lo + n <= N /\ NodeHash(a, b) = H[n][lo]
    BY <1>1
  <1>3. n # 1
    <2>1. N # 0 => \A l \in Nat : H[1][l] = B[l]
      BY TreeOn
    <2>2. N # 0
      OBVIOUS
    <2>3. H[1][lo] = B[lo]
      BY <2>1, <2>2
    <2> QED
      BY <1>2, <2>3, LeafIsNoNode
  <1>4. n \in 2 .. N /\ n \in Nat /\ n >= 2
    BY <1>3
  <1>5. PICK k \in Nat : k = Split(n) /\ k \in 1 .. n - 1
    BY <1>4, SplitIs
  <1>6. H[n][lo] = NodeHash(H[k][lo], H[n - k][lo + k])
    BY <1>4, <1>5, TreeOn
  <1>7. a = H[k][lo] /\ b = H[n - k][lo + k]
    BY <1>2, <1>6, NodeHashes
  <1>8. k \in 1 .. N /\ lo + k <= N /\ n - k \in 1 .. N /\ lo + k \in Nat /\ (lo + k) + (n - k) <= N
    BY <1>2, <1>5
  <1> QED
    BY <1>7, <1>8 DEF InTree

(* Backwards from a root each hash on the way is one of the tree's, down to the body's. *)
LEMMA ClimbStartsInTree ==
  ASSUME NEW N \in Nat, N # 0, NEW B, NEW H, IsTree(H, B, N), \A lo \in Nat : \E y : B[lo] = LeafHash(y),
         NEW p, Len(p) \in Nat, NEW f \in Nat, NEW s \in Nat, NEW h, Runs(p, 0, From(f, s, h), H[N][0])
  PROVE  InTree(h, H, N)
  <1>1. PICK c : Climbs(c, p, 0, From(f, s, h)) /\ Ends(c[Len(p)], H[N][0])
    BY DEF Runs
  <1>2. /\ c[0] = From(f, s, h)
        /\ \A k \in 0 + 1 .. Len(p) : c[k] = Climb(c[k - 1], p[k])
    BY <1>1, ClimbsOn
  <1> DEFINE IsAt(k) == \E g \in Nat : \E t \in Nat : \E i, l : c[k] = At(g, t, i, l)
             Typed == {k \in Nat : IsAt(k)}
             Good == {d \in Nat : ~c[Len(p) - d].long /\ InTree(c[Len(p) - d].hash, H, N)}
  <1>3. \A k \in 0 .. Len(p) : IsAt(k)
    <2>1. 0 \in Typed
      BY <1>2 DEF From
    <2>2. ASSUME NEW k \in 1 .. Len(p), k - 1 \in Typed PROVE k \in Typed
      <3>1. PICK g \in Nat : \E t \in Nat : \E i, l : c[k - 1] = At(g, t, i, l)
        BY <2>2
      <3>2. PICK t \in Nat : \E i, l : c[k - 1] = At(g, t, i, l)
        BY <3>1
      <3>3. PICK i, l : c[k - 1] = At(g, t, i, l)
        BY <3>2
      <3>4. k \in 0 + 1 .. Len(p) /\ k \in Nat
        OBVIOUS
      <3>5. c[k] = Climb(At(g, t, i, l), p[k])
        BY <1>2, <3>3, <3>4
      <3>6. Climbed(g, t, i, l, p[k])
        BY ClimbAny
      <3> HIDE DEF Typed
      <3>7. \E u \in Nat : \E v \in Nat : \E x, y : Climb(At(g, t, i, l), p[k]) = At(u, v, x, y)
        BY ONLY <3>6, g \in Nat, t \in Nat DEF Climbed
      <3>8. IsAt(k)
        BY <3>5, <3>7
      <3> QED
        BY <3>4, <3>8 DEF Typed
    <2>3. \A k \in 0 .. Len(p) : k \in Typed
      <3> HIDE DEF Typed
      <3> QED
        BY <2>1, <2>2, UpTo
    <2> QED
      BY <2>3
  <1>4. 0 \in Good
    <2>1. Len(p) - 0 = Len(p) /\ N \in 1 .. N /\ 0 + N <= N
      OBVIOUS
    <2> QED
      BY <1>1, <2>1 DEF Ends, InTree
  <1>5. ASSUME NEW d \in 1 .. Len(p), d - 1 \in Good PROVE d \in Good
    <2>1. PICK k \in Nat : k = Len(p) - (d - 1)
      OBVIOUS
    <2>2. k \in 0 + 1 .. Len(p) /\ k - 1 = Len(p) - d /\ k - 1 \in 0 .. Len(p) /\ d \in Nat
      BY <2>1
    <2>3. ~c[k].long /\ InTree(c[k].hash, H, N)
      BY <1>5, <2>1
    <2>4. IsAt(k - 1)
      BY <1>3, <2>2
    <2>5. PICK g \in Nat : \E t \in Nat : \E i, l : c[k - 1] = At(g, t, i, l)
      BY <2>4
    <2>6. PICK t \in Nat : \E i, l : c[k - 1] = At(g, t, i, l)
      BY <2>5
    <2>7. PICK i, l : c[k - 1] = At(g, t, i, l)
      BY <2>6
    <2>8. c[k] = Climb(At(g, t, i, l), p[k])
      BY <1>2, <2>2, <2>7
    <2>9. Climbed(g, t, i, l, p[k])
      BY ClimbAny
    <2>10. c[k - 1].long = l /\ c[k - 1].hash = i
      BY <2>7 DEF At
    <2>11. ~l /\ InTree(i, H, N)
      <3>1. CASE c[k] = At(g, t, i, TRUE)
        BY <2>3, <3>1 DEF At
      <3>2. ASSUME NEW u \in Nat, NEW v \in Nat, c[k] = At(u, v, NodeHash(p[k], i), l) PROVE ~l /\ InTree(i, H, N)
        <4>1. c[k].long = l /\ c[k].hash = NodeHash(p[k], i)
          BY <3>2 DEF At
        <4> QED
          BY <2>3, <4>1, BothInTree
      <3>3. ASSUME NEW u \in Nat, NEW v \in Nat, c[k] = At(u, v, NodeHash(i, p[k]), l) PROVE ~l /\ InTree(i, H, N)
        <4>1. c[k].long = l /\ c[k].hash = NodeHash(i, p[k])
          BY <3>3 DEF At
        <4> QED
          BY <2>3, <4>1, BothInTree
      <3> QED
        BY ONLY <2>8, <2>9, <3>1, <3>2, <3>3 DEF Climbed
    <2> QED
      BY <2>2, <2>10, <2>11
  <1>6. Len(p) \in Good
    <2> HIDE DEF Good
    <2>1. \A d \in 0 .. Len(p) : d \in Good
      BY <1>4, <1>5, UpTo
    <2> QED
      BY <2>1
  <1>7. InTree(c[0].hash, H, N)
    <2>1. Len(p) - Len(p) = 0
      OBVIOUS
    <2> QED
      BY <1>6, <2>1
  <1>8. c[0].hash = h
    BY <1>2 DEF From, At
  <1> QED
    BY <1>7, <1>8

(* A leaf of a tree is a leaf of its log.                                              *)
LEMMA LeafInLog ==
  ASSUME NEW log, Len(log) \in Nat, NEW body, InTree(LeafHash(body), Subtrees(log), Len(log))
  PROVE  \E i \in 1 .. Len(log) : body = log[i]
  <1> DEFINE H == Subtrees(log)
             N == Len(log)
  <1>1. IsTree(H, Leaves(log), N)
    BY SubtreesAre
  <1>2. PICK n \in 1 .. N : \E lo \in Nat : lo + n <= N /\ LeafHash(body) = H[n][lo]
    BY DEF InTree
  <1>3. PICK lo \in Nat : lo + n <= N /\ LeafHash(body) = H[n][lo]
    BY <1>2
  <1> HIDE DEF H
  <1>4. ASSUME n \in 2 .. N PROVE FALSE
    <2>1. H[n][lo] = NodeHash(H[Split(n)][lo], H[n - Split(n)][lo + Split(n)])
      BY <1>1, <1>4, TreeOn
    <2> QED
      BY <1>3, <2>1, LeafIsNoNode
  <1>5. n = 1 /\ N # 0
    BY <1>4
  <1>6. H[1][lo] = Leaves(log)[lo]
    BY <1>1, <1>5, TreeOn
  <1>7. LeafHash(body) = LeafHash(log[lo + 1])
    BY <1>3, <1>5, <1>6 DEF Leaves
  <1>8. lo + 1 \in 1 .. N /\ body = log[lo + 1]
    BY <1>3, <1>5, <1>7, LeafHashes
  <1> QED
    BY <1>8

(* verify_rekor_inclusion(): its loop is a climb.                                       *)
LEMMA VerifyIs ==
  ASSUME NEW entry, NEW proof, Len(proof.path) \in Nat
  PROVE  VerifyInclusion(entry, proof) <=>
           /\ proof.index = entry.index /\ entry.index < proof.size
           /\ Runs(proof.path, 0, From(entry.index, proof.size - 1, LeafHash(entry.body)), proof.root)
  <1> DEFINE at == [fnode |-> entry.index, sn |-> proof.size - 1, hash |-> LeafHash(entry.body), long |-> FALSE]
             Right(c) == c = [k \in 0 .. Len(proof.path) |-> IF k = 0 THEN at ELSE Climb(c[k - 1], proof.path[k])]
             V == CHOOSE c : Right(c)
  <1>1. VerifyInclusion(entry, proof) <=>
          /\ proof.index = entry.index /\ entry.index < proof.size
          /\ ~V[Len(proof.path)].long /\ V[Len(proof.path)].sn = 0 /\ V[Len(proof.path)].hash = proof.root
    BY DEF VerifyInclusion
  <1>2. at = From(entry.index, proof.size - 1, LeafHash(entry.body))
    BY DEF From, At
  <1> HIDE DEF at
  <1>3. \A c : Right(c) <=> Climbs(c, proof.path, 0, at)
    BY DEF Climbs
  <1>4. \E c : Right(c)
    BY <1>3, ClimbsExist
  <1>5. Right(V)
    BY <1>4
  <1> HIDE DEF V
  <1>6. Runs(proof.path, 0, at, proof.root) <=> Ends(V[Len(proof.path)], proof.root)
    BY <1>3, <1>5, EndsOnce
  <1> QED
    BY <1>1, <1>2, <1>6 DEF Ends

LEMMA RestIsAll ==
  ASSUME NEW p, IsList(p), NEW A, NEW q \in Seq(A)
  PROVE  Rest(p, 0, q) <=> p = q
  <1>1. Len(q) \in Nat /\ q = [i \in 1 .. Len(q) |-> q[i]]
    BY LenProperties
  <1>2. Len(p) \in Nat /\ p = [i \in 1 .. Len(p) |-> p[i]]
    BY DEF IsList
  <1>3. ASSUME p = q PROVE Rest(p, 0, q)
    <2>1. Len(p) = 0 + Len(q) /\ \A x \in 1 .. Len(q) : 0 + x = x
      BY <1>1, <1>3
    <2> QED
      BY <1>3, <2>1 DEF Rest
  <1>4. ASSUME Rest(p, 0, q) PROVE p = q
    <2>1. Len(p) = 0 + Len(q) /\ \A x \in 1 .. Len(q) : p[0 + x] = q[x]
      BY <1>4 DEF Rest
    <2>2. Len(p) = Len(q) /\ \A x \in 1 .. Len(q) : p[x] = q[x]
      BY <1>1, <1>2, <2>1
    <2> QED
      BY ONLY <1>1, <1>2, <2>2
  <1> QED
    BY <1>3, <1>4

ProofTells(entry, proof, log) ==
  /\ VerifyInclusion(entry, proof) => \E i \in 1 .. Len(log) : entry.body = log[i]
  /\ proof.size = Len(log) =>
       (VerifyInclusion(entry, proof) <=>
          /\ proof.index = entry.index /\ entry.index < Len(log)
          /\ entry.body = log[entry.index + 1] /\ proof.path = AuditPath(log, entry.index))

(* An inclusion proof of a root that is the root of a log is accepted only for one of    *)
(* the log's entries; one that states the log's size, only with the audit path of the       *)
(* entry at its index, and always with that.                                                  *)
LEMMA InclusionIsExact ==
  ASSUME NEW entry, NEW proof, NEW log, entry.index \in Nat, proof.size \in Nat, IsList(proof.path),
         Len(log) \in Nat, Len(log) # 0, proof.root = RootHash(log)
  PROVE  ProofTells(entry, proof, log)
  <1>1. PICK N \in Nat : N = Len(log) /\ N # 0
    OBVIOUS
  <1>2. PICK i \in Nat : i = entry.index
    OBVIOUS
  <1>3. PICK p : p = proof.path /\ IsList(p) /\ Len(p) \in Nat
    BY DEF IsList
  <1>4. PICK H : H = Subtrees(log) /\ IsTree(H, Leaves(log), N)
    BY <1>1, SubtreesAre
  <1>5. PICK P : P = Paths(log, i) /\ IsPathOf(P, H, i, N)
    BY <1>1, <1>4, PathsAre
  <1>6. RootHash(log) = H[N][0] /\ AuditPath(log, i) = P[N][0]
    BY <1>1, <1>4, <1>5 DEF RootHash, AuditPath
  <1>7. VerifyInclusion(entry, proof) <=>
          /\ proof.index = i /\ i < proof.size
          /\ Runs(p, 0, From(i, proof.size - 1, LeafHash(entry.body)), H[N][0])
    BY <1>2, <1>3, <1>6, VerifyIs
  <1>8. \A lo \in Nat : Leaves(log)[lo] = LeafHash(log[lo + 1])
    BY DEF Leaves
  <1>9. ASSUME VerifyInclusion(entry, proof) PROVE \E x \in 1 .. Len(log) : entry.body = log[x]
    <2>1. PICK s \in Nat : s = proof.size - 1
      BY <1>7, <1>9
    <2>2. Runs(p, 0, From(i, s, LeafHash(entry.body)), H[N][0])
      BY <1>7, <1>9, <2>1
    <2>3. \A lo \in Nat : \E y : Leaves(log)[lo] = LeafHash(y)
      BY <1>8
    <2>4. InTree(LeafHash(entry.body), H, N)
      BY <1>1, <1>3, <1>4, <2>2, <2>3, ClimbStartsInTree
    <2> QED
      BY <1>1, <1>4, <2>4, LeafInLog
  <1>10. ASSUME proof.size = N, i < N
         PROVE  Runs(p, 0, From(i, proof.size - 1, LeafHash(entry.body)), H[N][0])
                  <=> entry.body = log[i + 1] /\ p = P[N][0]
    <2>1. i \in 0 .. N - 1 /\ 0 \in 0 .. Len(p) /\ 0 \in Nat /\ N \in 1 .. N
      BY <1>1, <1>3, <1>10
    <2>2. PICK h : h = LeafHash(entry.body)
      OBVIOUS
    <2>3. Judges(N, Leaves(log), H, P, p, h, H[N][0], i, 0)
      BY <1>1, <2>1, ClimbIsExact DEF Exact
    <2>4. Runs(p, 0, From(i, N - 1, h), H[N][0]) <=> h = Leaves(log)[i] /\ Rest(p, 0, P[N][0])
      BY <1>3, <1>4, <1>5, <2>1, <2>3 DEF Judges
    <2>5. h = Leaves(log)[i] <=> entry.body = log[i + 1]
      BY <1>8, <2>2, LeafHashes
    <2>6. P[N][0] \in Seq(Hashes(H, N))
      BY <1>5, <2>1, HashesAre, PathTyped
    <2>7. Rest(p, 0, P[N][0]) <=> p = P[N][0]
      BY <1>3, <2>6, RestIsAll
    <2> QED
      BY <1>10, <2>2, <2>4, <2>5, <2>7
  <1>11. ASSUME proof.size = N
         PROVE  VerifyInclusion(entry, proof) <=>
                  /\ proof.index = i /\ i < N
                  /\ entry.body = log[i + 1] /\ p = P[N][0]
    BY <1>7, <1>10, <1>11
  <1> QED
    BY <1>1, <1>2, <1>3, <1>6, <1>9, <1>11 DEF ProofTells

-----------------------------------------------------------------------------
(* What a thread has decided about its bundle is what the checks say.       *)
Judged ==
  \A t \in Thread : thread[t].bundle # None =>
    /\ thread[t].pc \in {"advance", "parse", "accepted"} => Passes(thread[t].bundle)
    /\ thread[t].pc = "rejected" => ~Passes(thread[t].bundle)

LEMMA InitJudged == Init => Judged
  BY DEF Init, Judged, Idle

LEMMA NextKeepsJudged == Inv /\ Judged /\ [Next]_vars => Judged'
  <1> SUFFICES ASSUME Inv, Judged, [Next]_vars PROVE Judged'
    OBVIOUS
  <1>1. thread \in [Thread -> [pc : Pcs, bundle : Bundles, prev : Nat]]
    BY DEF Inv, Types
  <1>2. ASSUME NEW r \in Replica, Load(r) \/ Seed(r) \/ Crash(r) PROVE Judged'
    <2>1. CASE Load(r) \/ Seed(r)
      BY <2>1 DEF Load, Seed, Judged
    <2>2. CASE Crash(r)
      <3>1. \A t \in Thread : thread'[t] = Idle \/ thread'[t] = thread[t]
        BY <2>2 DEF Crash
      <3> QED
        BY <3>1 DEF Judged, Idle
    <2> QED
      BY <1>2, <2>1, <2>2
  <1>3. ASSUME NEW t \in Thread, Verify(t) \/ Verifies(t) \/ Persist(t) \/ Save(t) PROVE Judged'
    <2>1. CASE Verify(t)
      <3>1. PICK b \in Plain \cup Odd \cup {FromProtobuf(o) : o \in Odd} :
              thread' = [thread EXCEPT ![t] =
                [pc |-> IF ~Passes(b) THEN "rejected" ELSE IF b.checkpoint = None THEN "parse" ELSE "advance",
                 bundle |-> b, prev |-> anchor[Host(t)]]]
        BY <2>1 DEF Verify
      <3>2. PICK held \in BOOLEAN : held = Passes(b)
        BY DEF Passes
      <3> QED
        BY <1>1, <3>1 DEF Judged
    <2>2. CASE Advance(t)
      <3>1. \A u \in Thread : thread'[u].bundle = thread[u].bundle
        BY <1>1, <2>2 DEF Advance
      <3>2. \A u \in Thread : (thread'[u].pc = thread[u].pc)
              \/ (thread[u].pc = "advance" /\ thread'[u].pc \in {"parse", "rollback"})
        BY <1>1, <2>2 DEF Advance
      <3> QED
        BY <3>1, <3>2 DEF Judged
    <2>3. CASE Parse(t)
      BY <1>1, <2>3 DEF Parse, Judged
    <2>4. CASE Return(t)
      BY <1>1, <2>4 DEF Return, Judged, Idle
    <2>5. CASE Persist(t)
      BY <1>1, <2>5 DEF Persist, Judged
    <2>6. CASE Save(t)
      BY <1>1, <2>6 DEF Save, Judged, Idle
    <2> QED
      BY <1>3, <2>1, <2>2, <2>3, <2>4, <2>5, <2>6 DEF Verifies
  <1>4. CASE UNCHANGED vars
    BY <1>4 DEF vars, Judged
  <1> QED
    BY <1>2, <1>3, <1>4 DEF Next

LEMMA JudgedHolds == Spec => []Judged
  BY InitJudged, NextKeepsJudged, InvHolds, PTL DEF Spec

-----------------------------------------------------------------------------
(* A chain and an inclusion proof are only in the odd bundles.              *)
Fields == {"faults", "chain", "entry", "proof", "checkpoint", "parses"}

LEMMA OddFields ==
  ASSUME NEW b \in Bundles, b # None, b.chain # None \/ b.proof # None
  PROVE  /\ DOMAIN b = Fields
         /\ b.chain # None => IsChain(b.chain)
         /\ b.proof # None /\ b.checkpoint # None => b \in Odd
  <1>1. CASE b \in Plain
    BY <1>1 DEF Plain
  <1>2. CASE b \in Odd
    BY <1>2, AnchorAssumption DEF AnchorAssumption, Fields
  <1>3. ASSUME NEW o \in Odd, b = FromProtobuf(o)
        PROVE  DOMAIN b = Fields /\ (b.chain # None => IsChain(b.chain)) /\ b.checkpoint = None
    <2>1. DOMAIN o = Fields /\ (o.chain # None => IsChain(o.chain))
      BY AnchorAssumption DEF AnchorAssumption, Fields
    <2>2. DOMAIN b = Fields /\ b.chain = o.chain /\ b.checkpoint = None
      BY <1>3, <2>1 DEF FromProtobuf, Fields
    <2> QED
      BY <2>1, <2>2
  <1> QED
    BY <1>1, <1>2, <1>3 DEF Bundles

(* The checks of a bundle look at its chain and its proof separately.       *)
LEMMA PassesParts ==
  ASSUME NEW b, DOMAIN b = Fields
  PROVE  /\ Passes([b EXCEPT !.chain = None]) /\ (b.chain # None => Trusted(b.chain)) => Passes(b)
         /\ /\ Passes([b EXCEPT !.proof = None]) /\ b.proof # None
            /\ VerifyInclusion(b.entry, b.proof) /\ b.checkpoint # None /\ b.checkpoint.root = b.proof.root
            => Passes(b)
  <1>1. ASSUME NEW c, c = [b EXCEPT !.chain = None]
        PROVE  /\ c.faults = b.faults /\ c.entry = b.entry /\ c.proof = b.proof /\ c.checkpoint = b.checkpoint
               /\ c.chain = None
    BY <1>1 DEF Fields
  <1>2. ASSUME NEW c, c = [b EXCEPT !.proof = None]
        PROVE  /\ c.faults = b.faults /\ c.entry = b.entry /\ c.chain = b.chain /\ c.checkpoint = b.checkpoint
               /\ c.proof = None
    BY <1>2 DEF Fields
  <1>3. PICK c : c = [b EXCEPT !.chain = None]
    OBVIOUS
  <1>4. PICK d : d = [b EXCEPT !.proof = None]
    OBVIOUS
  <1>5. Passes(c) /\ (b.chain # None => Trusted(b.chain)) => Passes(b)
    BY <1>1, <1>3 DEF Passes, LeafHolds, SignatureHolds, SetHolds, CheckpointHolds
  <1>6. /\ Passes(d) /\ b.proof # None
        /\ VerifyInclusion(b.entry, b.proof) /\ b.checkpoint # None /\ b.checkpoint.root = b.proof.root
        => Passes(b)
    BY <1>2, <1>4 DEF Passes, LeafHolds, SignatureHolds, SetHolds, CheckpointHolds
  <1> QED
    BY <1>3, <1>4, <1>5, <1>6

LEMMA ChainsJudged == Inv /\ Judged => ChainSound /\ ChainFound
  <1> SUFFICES ASSUME Inv, Judged, NEW t \in Thread, NEW b, b = thread[t].bundle, b # None, b.chain # None
               PROVE  /\ thread[t].pc \in {"advance", "parse", "accepted"} => HasPath(b.chain)
                      /\ thread[t].pc = "rejected" /\ NamesDiffer(b.chain) /\ HasPath(b.chain) =>
                           ~Passes([b EXCEPT !.chain = None])
    BY DEF ChainSound, ChainFound
  <1>1. b \in Bundles
    BY DEF Inv, Types
  <1>2. DOMAIN b = Fields /\ IsChain(b.chain)
    BY <1>1, OddFields
  <1>3. ASSUME thread[t].pc \in {"advance", "parse", "accepted"} PROVE HasPath(b.chain)
    <2>1. Trusted(b.chain)
      BY <1>3 DEF Judged, Passes
    <2> QED
      BY <1>2, <2>1, TrustIsSound
  <1>4. ASSUME thread[t].pc = "rejected", NamesDiffer(b.chain), HasPath(b.chain), Passes([b EXCEPT !.chain = None])
        PROVE  FALSE
    <2>1. Trusted(b.chain)
      BY <1>2, <1>4, TrustIsFound
    <2>2. Passes(b)
      BY <1>2, <1>4, <2>1, PassesParts
    <2>3. ~Passes(b)
      BY <1>4 DEF Judged
    <2> QED
      BY <2>2, <2>3
  <1> QED
    BY <1>3, <1>4

LEMMA ProofsJudged == Inv /\ Judged => InclusionRight
  <1> DEFINE Honest(b) ==
        /\ b.proof.size = Len(b.checkpoint.log) /\ b.proof.index = b.entry.index /\ b.entry.index < Len(b.checkpoint.log)
        /\ b.entry.body = b.checkpoint.log[b.entry.index + 1]
        /\ b.proof.path = AuditPath(b.checkpoint.log, b.entry.index) /\ b.proof.root = RootHash(b.checkpoint.log)
  <1> SUFFICES ASSUME Inv, Judged, NEW t \in Thread, NEW b, b = thread[t].bundle,
                      b # None, b.proof # None, b.checkpoint # None
               PROVE  /\ thread[t].pc \in {"advance", "parse", "accepted"} =>
                           /\ \E i \in 1 .. Len(b.checkpoint.log) : b.entry.body = b.checkpoint.log[i]
                           /\ b.proof.size = Len(b.checkpoint.log) => Honest(b)
                      /\ thread[t].pc = "rejected" /\ Honest(b) => ~Passes([b EXCEPT !.proof = None])
    BY DEF InclusionRight
  <1>1. b \in Bundles
    BY DEF Inv, Types
  <1>2. DOMAIN b = Fields /\ b \in Odd
    BY <1>1, OddFields
  <1>3. PICK log : log = b.checkpoint.log
    OBVIOUS
  <1>4. /\ b.entry.index \in Nat /\ b.proof.size \in Nat /\ IsList(b.proof.path)
        /\ Len(log) \in Nat /\ Len(log) # 0 /\ b.checkpoint.root = RootHash(log)
    BY <1>2, <1>3, AnchorAssumption DEF AnchorAssumption
  <1>5. ASSUME b.proof.root = RootHash(log)
        PROVE  /\ VerifyInclusion(b.entry, b.proof) => \E i \in 1 .. Len(log) : b.entry.body = log[i]
               /\ b.proof.size = Len(log) =>
                    (VerifyInclusion(b.entry, b.proof) <=>
                       /\ b.proof.index = b.entry.index /\ b.entry.index < Len(log)
                       /\ b.entry.body = log[b.entry.index + 1] /\ b.proof.path = AuditPath(log, b.entry.index))
    <2>1. ProofTells(b.entry, b.proof, log)
      BY ONLY <1>4, <1>5, InclusionIsExact
    <2> QED
      BY ONLY <2>1 DEF ProofTells
  <1>6. ASSUME thread[t].pc \in {"advance", "parse", "accepted"}
        PROVE  /\ \E i \in 1 .. Len(log) : b.entry.body = log[i]
               /\ b.proof.size = Len(log) => Honest(b)
    <2>1. VerifyInclusion(b.entry, b.proof) /\ b.checkpoint.root = b.proof.root
      BY <1>6 DEF Judged, Passes, CheckpointHolds
    <2> QED
      BY <1>3, <1>4, <1>5, <2>1
  <1>7. ASSUME thread[t].pc = "rejected", Honest(b), Passes([b EXCEPT !.proof = None])
        PROVE  FALSE
    <2>1. VerifyInclusion(b.entry, b.proof)
      BY <1>3, <1>5, <1>7
    <2>2. b.checkpoint.root = b.proof.root
      BY <1>3, <1>4, <1>7
    <2>3. Passes(b)
      BY <1>2, <1>7, <2>1, <2>2, PassesParts
    <2>4. ~Passes(b)
      BY <1>7 DEF Judged
    <2> QED
      BY <2>3, <2>4
  <1> QED
    BY <1>3, <1>6, <1>7

(* A chain is accepted only if certificates that may vouch for each other   *)
(* lead from the leaf to a pinned root, and one whose names differ is not    *)
(* rejected for itself if they do (verify_chain_offline); an inclusion proof *)
(* that a checkpoint's root takes is of one of the log's entries, and the     *)
(* audit path of RFC 6962 is accepted (verify_rekor_inclusion).                *)
THEOREM BundlesAreJudged == Spec => []BundlesJudged
  <1>1. Inv /\ Judged /\ TypeOK => BundlesJudged
    BY ChainsJudged, ProofsJudged DEF BundlesJudged
  <1> QED
    BY <1>1, InvHolds, JudgedHolds, TypeCorrect, PTL
=============================================================================
