----------------------------- MODULE MtlsProofs -----------------------------
(***************************************************************************)
(* For any callers, versions and buffers, with the watcher and with the    *)
(* provider loop: the installed identity never goes back, a refresh        *)
(* reported as successful is one the second POST gains from, and a caller  *)
(* that waits for a reply is one the task knows of.                        *)
(***************************************************************************)
EXTENDS MtlsRotation, SequenceTheorems, TLAPS

Disk == file["cert"]
Reloading == loop \in {"tick", "serve"}

(* The parts of TypeOK the proof needs. *)
Types ==
  /\ source \in {"watcher", "provider"}
  /\ want \in Nat /\ file \in [Files -> Nat]
  /\ reading \in Nat /\ installed \in Nat
  /\ trigger = <<>> \/ \E x \in Callers \cup {Nobody} : trigger = <<x>>
  /\ at \in [Callers -> {"idle", "posting", "sending", "waiting", "replied", "retrying"}]
  /\ since \in [Callers -> Nat] /\ snap \in [Callers -> Nat]

(* Versions are in order: the installed one, the one being read, the one   *)
(* on disk, the wanted one; a file or a reading of 0 stands outside.       *)
Ordered ==
  /\ installed <= want /\ reading <= want /\ \A f \in Files : file[f] <= want
  /\ Disk # 0 => installed <= Disk /\ reading <= Disk
  /\ reading # 0 => installed <= reading
  /\ source = "provider" => Disk # 0 /\ (Reloading => reading # 0)

(* Where the version a refresh was asked for at is known to be reached.    *)
Refreshed ==
  \A c \in Callers :
    /\ since[c] <= want /\ (Disk # 0 => since[c] <= Disk)
    /\ trigger = <<c>> => at[c] = "waiting" /\ serving # c
    /\ serving = c => at[c] = "waiting" /\ (reading # 0 => since[c] <= reading)
    /\ at[c] = "replied" => since[c] <= installed
    /\ at[c] = "retrying" => since[c] <= snap[c]

Inv == Types /\ Ordered /\ Refreshed

LEMMA InitInv == Init => Inv
  BY RotationAssumption
  DEF Init, Inv, Types, Ordered, Refreshed, Disk, Reloading, Files, RotationAssumption

-----------------------------------------------------------------------------
(* The steps, by what they do to what the invariant speaks of.             *)

(* The writer. *)
LEMMA WriterKeepsInv == ASSUME Inv, Writer PROVE Inv' /\ installed' = installed
  <1> USE DEF Inv, Types, Ordered, Refreshed, Disk, Reloading, Files, loopVars, hookVars, callVars
  <1>1. CASE Rotate
    BY <1>1 DEF Rotate
  <1>2. CASE Noise
    BY <1>2 DEF Noise
  <1>3. ASSUME NEW f \in Files, NEW v \in Version, Write(f, v) PROVE Inv' /\ installed' = installed
    <2>1. /\ file[f] # want /\ v \in {0, want} /\ (v = 0 => source = "watcher")
          /\ file' = [file EXCEPT ![f] = v]
          /\ UNCHANGED <<source, want, loopVars, hookVars, callVars>>
      BY <1>3 DEF Write
    <2>2. Types'
      BY <2>1
    <2>3. Ordered'
      BY <2>1
    <2>4. Refreshed'
      BY <2>1
    <2> QED
      BY <2>1, <2>2, <2>3, <2>4
  <1> QED
    BY <1>1, <1>2, <1>3 DEF Writer

(* The task begins a reload or takes an event. *)
LEMMA LoopKeepsInv == ASSUME Inv, Loop PROVE Inv' /\ installed' = installed
  <1> USE DEF Inv, Types, Ordered, Refreshed, Disk, Reloading, Files, BeginReload, writerVars,
              hookVars, callVars, loopVars
  <1>1. CASE ServeTrigger
    <2>1. PICK x \in Callers \cup {Nobody} : trigger = <<x>>
      BY <1>1 DEF ServeTrigger
    <2>2. /\ serving' = x /\ trigger' = <<>> /\ reading' = Disk /\ loop' = "serve"
          /\ UNCHANGED <<writerVars, installed, callVars>>
      BY <1>1, <2>1 DEF ServeTrigger
    <2> QED
      BY <2>1, <2>2
  <1>2. CASE RecvEvent
    BY <1>2 DEF RecvEvent
  <1>3. CASE DebounceExpired
    BY <1>3, RotationAssumption DEF DebounceExpired, RotationAssumption
  <1>4. CASE SleepEnds
    BY <1>4, RotationAssumption DEF SleepEnds, RotationAssumption
  <1> QED
    BY <1>1, <1>2, <1>3, <1>4 DEF Loop

(* The task ends a reload that has installed version v. *)
LEMMA EndKeepsInv ==
  ASSUME Inv, NEW ok \in BOOLEAN, EndReload(ok), installed' \in Nat,
         ok => /\ reading # 0 /\ reading <= installed' /\ installed' <= want
               /\ (Disk # 0 => installed' <= Disk),
         ~ok => installed' = installed
  PROVE  Inv' /\ installed' >= installed
  <1> USE DEF Inv, Types, Ordered, Refreshed, Disk, Reloading, Files, writerVars, hookVars
  <1>1. installed' >= installed
    BY DEF EndReload
  <1>2. /\ reading' \in {0, Disk} /\ serving' = Nobody
        /\ source = "provider" /\ loop' # "select" => reading' = Disk
        /\ loop' \in {"tick", "select"}
        /\ UNCHANGED <<source, want, file, trigger, snap>>
        /\ at' = [c \in Callers |-> IF c = serving THEN "replied" ELSE at[c]]
        /\ since' = [c \in Callers |-> IF c = serving /\ ~ok THEN 0 ELSE since[c]]
    BY DEF EndReload, Resume
  <1>3. Types'
    BY <1>2
  <1>4. Ordered'
    BY <1>1, <1>2
  <1>5. ASSUME NEW c \in Callers
        PROVE  /\ since'[c] <= want' /\ (Disk' # 0 => since'[c] <= Disk')
               /\ trigger' = <<c>> => at'[c] = "waiting" /\ serving' # c
               /\ serving' = c => at'[c] = "waiting" /\ (reading' # 0 => since'[c] <= reading')
               /\ at'[c] = "replied" => since'[c] <= installed'
               /\ at'[c] = "retrying" => since'[c] <= snap'[c]
    <2>1. CASE c = serving
      BY <1>1, <1>2, <2>1, RotationAssumption DEF RotationAssumption
    <2>2. CASE c # serving
      BY <1>1, <1>2, <2>2, RotationAssumption DEF RotationAssumption
    <2> QED
      BY <2>1, <2>2
  <1> QED
    BY <1>1, <1>3, <1>4, <1>5

LEMMA ReloadKeepsInv == ASSUME Inv, Reloaded \/ ReloadFails PROVE Inv' /\ installed' >= installed
  <1>1. CASE Reloaded
    <2>1. PICK v \in Version \ {0} :
            /\ IF source = "watcher" THEN v = reading /\ v = file["key"]
               ELSE v \in reading .. file["cert"]
            /\ installed' = v
      BY <1>1 DEF Reloaded
    <2>2. EndReload(TRUE)
      BY <1>1 DEF Reloaded
    <2>3. /\ installed' \in Nat /\ reading # 0 /\ reading <= installed' /\ installed' <= want
          /\ (Disk # 0 => installed' <= Disk)
      BY <2>1, <2>2, RotationAssumption
      DEF Inv, Types, Ordered, Disk, Reloading, EndReload, Version, Files, RotationAssumption
    <2> QED
      BY <2>2, <2>3, EndKeepsInv
  <1>2. CASE ReloadFails
    BY <1>2, EndKeepsInv DEF ReloadFails, Inv, Types
  <1> QED
    BY <1>1, <1>2

(* A caller's own step. *)
LEMMA CallerKeepsInv ==
  ASSUME Inv, NEW c \in Callers,
         Post(c) \/ PostEnds(c) \/ PostFails(c) \/ SendTrigger(c) \/ TimesOut(c) \/ Retry(c) \/ Drop(c)
  PROVE  Inv' /\ installed' = installed
  <1> USE RotationAssumption DEF Inv, Types, Ordered, Refreshed, Disk, Reloading, Files,
          RotationAssumption, writerVars, loopVars, hookVars, Goto, Over
  <1>1. CASE Post(c)
    BY <1>1 DEF Post
  <1>2. CASE PostEnds(c)
    BY <1>2 DEF PostEnds
  <1>3. CASE PostFails(c)
    <2>1. Complete \in Nat /\ Complete <= want /\ (Disk # 0 => Complete <= Disk)
      BY DEF Complete
    <2>2. PICK s \in {"replied", "sending"}, n \in {0, Complete} :
            /\ at' = [at EXCEPT ![c] = s] /\ since' = [since EXCEPT ![c] = n]
            /\ s = "replied" => n = 0
      BY <1>3 DEF PostFails
    <2>3. at[c] = "posting" /\ UNCHANGED <<source, want, file, loop, reading, installed, serving, trigger, snap>>
      BY <1>3 DEF PostFails
    <2>4. Types' /\ Ordered'
      BY <2>1, <2>2, <2>3
    <2>5. Refreshed'
      BY <2>1, <2>2, <2>3
    <2> QED
      BY <2>3, <2>4, <2>5
  <1>4. CASE SendTrigger(c)
    BY <1>4 DEF SendTrigger
  <1>5. CASE TimesOut(c)
    BY <1>5 DEF TimesOut, Resume, Forget
  <1>6. CASE Retry(c)
    BY <1>6 DEF Retry
  <1>7. CASE Drop(c)
    BY <1>7 DEF Drop, Forget
  <1> QED
    BY <1>1, <1>2, <1>3, <1>4, <1>5, <1>6, <1>7

(* The task is stopped. *)
LEMMA StopKeepsInv == ASSUME Inv, Stop PROVE Inv' /\ installed' = installed
  BY RotationAssumption
  DEF Stop, Resume, Waiting, Inv, Types, Ordered, Refreshed, Disk, Reloading, Files,
      RotationAssumption, writerVars, watchVars

LEMMA NextInv == Inv /\ [Next]_vars => Inv' /\ installed' >= installed
  <1> SUFFICES ASSUME Inv, [Next]_vars PROVE Inv' /\ installed' >= installed
    OBVIOUS
  <1>1. installed \in Nat
    BY DEF Inv, Types
  <1>2. CASE UNCHANGED vars
    BY <1>1, <1>2
    DEF Inv, Types, Ordered, Refreshed, Disk, Reloading, vars, writerVars, watchVars, loopVars,
        hookVars, callVars
  <1>3. CASE Next
    BY <1>1, <1>3, WriterKeepsInv, LoopKeepsInv, ReloadKeepsInv, StopKeepsInv, CallerKeepsInv
    DEF Next
  <1> QED
    BY <1>2, <1>3

-----------------------------------------------------------------------------
(* The resolver never returns to an identity it has replaced, whatever is  *)
(* read, fetched or triggered meanwhile.                                   *)
THEOREM NoStepBack == Spec => NeverOlder
  BY InitInv, NextInv, PTL DEF Spec, NeverOlder

(* After a refresh reported as successful the second POST uses an identity *)
(* at least as new as the one complete when introspect() asked for it.     *)
THEOREM Fresh == Spec => []RefreshedIsFresh
  <1>1. Inv => RefreshedIsFresh
    BY DEF Inv, Types, Refreshed, RefreshedIsFresh
  <1> QED
    BY <1>1, InitInv, NextInv, PTL DEF Spec

-----------------------------------------------------------------------------
(* The callers that wait to send: each waits once.                         *)

Once(q) == \A i, j \in DOMAIN q : q[i] = q[j] => i = j

LEMMA Joins ==
  ASSUME NEW q \in Seq(Callers), Once(q), NEW c \in Callers, c \notin Range(q)
  PROVE  /\ Append(q, c) \in Seq(Callers) /\ Once(Append(q, c))
         /\ Range(Append(q, c)) = Range(q) \cup {c}
  <1> DEFINE r == Append(q, c)
             n == Len(q)
  <1>1. DOMAIN q = 1 .. n /\ n \in Nat
    BY LenProperties
  <1>2. /\ r \in Seq(Callers) /\ DOMAIN r = 1 .. n + 1
        /\ r[n + 1] = c /\ \A i \in 1 .. n : r[i] = q[i]
    BY AppendProperties, LenProperties
  <1>3. \A i \in 1 .. n : q[i] # c
    BY <1>1 DEF Range
  <1> HIDE DEF r, n
  <1>4. Once(r)
    BY <1>1, <1>2, <1>3 DEF Once
  <1>5. Range(r) = Range(q) \cup {c}
    BY <1>1, <1>2 DEF Range
  <1> QED
    BY <1>2, <1>4, <1>5 DEF r

LEMMA Leads ==
  ASSUME NEW q \in Seq(Callers), Once(q), q # <<>>
  PROVE  /\ Head(q) \in Range(q) /\ Tail(q) \in Seq(Callers) /\ Once(Tail(q))
         /\ Range(Tail(q)) = Range(q) \ {Head(q)}
  <1> DEFINE r == Tail(q)
             n == Len(q)
  <1>1. DOMAIN q = 1 .. n /\ n \in Nat \ {0} /\ Head(q) = q[1]
    BY LenProperties, EmptySeq
  <1>2. r \in Seq(Callers) /\ DOMAIN r = 1 .. n - 1 /\ \A i \in 1 .. n - 1 : r[i] = q[i + 1]
    BY <1>1, HeadTailProperties, LenProperties
  <1> HIDE DEF r, n
  <1>3. \A i \in DOMAIN r : i + 1 \in DOMAIN q /\ i + 1 # 1 /\ r[i] = q[i + 1]
    BY <1>1, <1>2
  <1>4. Once(r)
    BY <1>1, <1>2, <1>3 DEF Once
  <1>5. ASSUME NEW x PROVE x \in Range(r) <=> x \in Range(q) /\ x # q[1]
    <2>1. ASSUME x \in Range(r) PROVE x \in Range(q) /\ x # q[1]
      BY <1>1, <1>3, <2>1 DEF Range, Once
    <2>2. ASSUME x \in Range(q), x # q[1] PROVE x \in Range(r)
      <3>1. PICK k \in DOMAIN q : q[k] = x
        BY <2>2 DEF Range
      <3>2. k - 1 \in DOMAIN r /\ (k - 1) + 1 = k
        BY <1>1, <1>2, <2>2, <3>1
      <3> QED
        BY <1>3, <3>1, <3>2 DEF Range
    <2> QED
      BY <2>1, <2>2
  <1>6. q[1] \in Range(q)
    BY <1>1 DEF Range
  <1> QED
    BY <1>1, <1>2, <1>4, <1>5, <1>6 DEF r

(* RemoveFirst cuts out the place of c. *)
LEMMA CutOut ==
  ASSUME NEW q \in Seq(Callers), NEW p \in 1 .. Len(q)
  PROVE  /\ RemoveAt(q, p) \in Seq(Callers) /\ DOMAIN RemoveAt(q, p) = 1 .. Len(q) - 1
         /\ \A i \in 1 .. Len(q) - 1 : RemoveAt(q, p)[i] = IF i < p THEN q[i] ELSE q[i + 1]
  <1> DEFINE a == SubSeq(q, 1, p - 1)
             b == SubSeq(q, p + 1, Len(q))
  <1>1. Len(q) \in Nat /\ p \in Nat /\ \A i \in 1 .. Len(q) : q[i] \in Callers
    BY LenProperties, ElementOfSeq
  <1>2. /\ a \in Seq(Callers) /\ Len(a) = p - 1
        /\ \A i \in 1 .. p - 1 : a[i] = q[i]
    BY <1>1, SubSeqProperties
  <1>3. /\ b \in Seq(Callers) /\ Len(b) = Len(q) - p
        /\ \A i \in 1 .. Len(q) - p : b[i] = q[p + i]
    BY <1>1, SubSeqProperties
  <1> HIDE DEF a, b
  <1>4. /\ a \o b \in Seq(Callers) /\ Len(a \o b) = Len(q) - 1
        /\ \A i \in 1 .. Len(q) - 1 : (a \o b)[i] = IF i < p THEN a[i] ELSE b[i - (p - 1)]
    BY <1>1, <1>2, <1>3, ConcatProperties
  <1>5. \A i \in 1 .. Len(q) - 1 : (a \o b)[i] = IF i < p THEN q[i] ELSE q[i + 1]
    BY <1>1, <1>2, <1>3, <1>4
  <1>6. DOMAIN (a \o b) = 1 .. Len(q) - 1
    BY <1>4, LenProperties
  <1> QED
    BY <1>4, <1>5, <1>6 DEF RemoveAt, a, b

LEMMA GivesUp ==
  ASSUME NEW q \in Seq(Callers), Once(q), NEW c \in Callers
  PROVE  /\ RemoveFirst(q, c) \in Seq(Callers) /\ Once(RemoveFirst(q, c))
         /\ Range(RemoveFirst(q, c)) = Range(q) \ {c}
  <1>1. DOMAIN q = 1 .. Len(q) /\ Len(q) \in Nat
    BY LenProperties
  <1>2. CASE ~\E i \in 1 .. Len(q) : q[i] = c
    BY <1>1, <1>2 DEF RemoveFirst, Range
  <1>3. CASE \E i \in 1 .. Len(q) : q[i] = c
    <2>1. PICK p \in 1 .. Len(q) : q[p] = c
      BY <1>3
    <2>2. {i \in 1 .. Len(q) : q[i] = c} = {p}
      BY <1>1, <2>1 DEF Once
    <2>3. Min({p}) = p
      BY DEF Min
    <2>4. SelectInSeq(q, LAMBDA v : v = c) = p
      BY <2>2, <2>3 DEF SelectInSeq
    <2> DEFINE r == RemoveAt(q, p)
               Old(i) == IF i < p THEN i ELSE i + 1
    <2>5. RemoveFirst(q, c) = r
      BY <1>3, <2>4 DEF RemoveFirst
    <2>6. /\ r \in Seq(Callers) /\ DOMAIN r = 1 .. Len(q) - 1
          /\ \A i \in 1 .. Len(q) - 1 : Old(i) \in DOMAIN q /\ Old(i) # p /\ r[i] = q[Old(i)]
      BY <1>1, <2>1, CutOut
    <2>7. \A i, j \in 1 .. Len(q) - 1 : Old(i) = Old(j) => i = j
      BY <1>1, <2>1
    <2>8. \A k \in DOMAIN q : k # p => \E i \in 1 .. Len(q) - 1 : Old(i) = k
      <3> SUFFICES ASSUME NEW k \in DOMAIN q, k # p PROVE \E i \in 1 .. Len(q) - 1 : Old(i) = k
        OBVIOUS
      <3>1. CASE k < p
        <4>1. k \in 1 .. Len(q) - 1 /\ Old(k) = k
          BY <1>1, <2>1, <3>1
        <4> QED
          BY <4>1
      <3>2. CASE k > p
        <4>1. k - 1 \in 1 .. Len(q) - 1 /\ Old(k - 1) = k
          BY <1>1, <2>1, <3>2
        <4> QED
          BY <4>1
      <3> QED
        BY <1>1, <2>1, <3>1, <3>2
    <2> HIDE DEF r, Old
    <2>9. Once(r)
      BY <2>6, <2>7 DEF Once
    <2>10. Range(r) = Range(q) \ {c}
      <3>1. \A i \in DOMAIN r : r[i] \in Range(q) /\ r[i] # c
        BY <1>1, <2>1, <2>6 DEF Range, Once
      <3>2. \A k \in DOMAIN q : q[k] # c => \E i \in DOMAIN r : r[i] = q[k]
        BY <1>1, <2>1, <2>6, <2>8
      <3> QED
        BY <3>1, <3>2 DEF Range
    <2> QED
      BY <2>5, <2>6, <2>9, <2>10
  <1> QED
    BY <1>2, <1>3

LEMMA Slot ==
  /\ Range(<<>>) = {} /\ \A x : Range(<<x>>) = {x}
  /\ \A x \in Callers \cup {Nobody} :
       <<x>> \in Seq(Callers \cup {Nobody}) /\ Len(<<x>>) = 1 /\ Head(<<x>>) = x /\ Tail(<<x>>) = <<>>
  BY DEF Range

-----------------------------------------------------------------------------
(* Who waits for what.  Each caller is in its queue once, and nobody is    *)
(* served between two reloads.                                             *)

InTrigger == \A c \in Callers : at[c] = "waiting" <=> c \in Range(trigger) \cup {serving}
InSenders == \A c \in Callers : at[c] = "sending" <=> c \in Range(senders)
Orderly == Once(senders) /\ (loop \in {"select", "stopped"} => serving = Nobody)

Replies == Inv /\ TypeOK /\ InTrigger /\ InSenders /\ Orderly

(* The variables of the identity and of the channel of events. *)
IdentityTypes ==
  /\ source \in Sources
  /\ want \in Version /\ file \in [Files -> Version] /\ noise \in 0 .. MaxNoise
  /\ missed \in BOOLEAN /\ deadline \in {"none", "set"}
  /\ reading \in Version /\ installed \in Version \ {0}
EventTypes == events \in Seq({"touch", "other"}) /\ Len(events) <= EventBuffer
LoopTypes ==
  /\ loop \in {"select", "tick", "serve", "stopped"}
  /\ serving \in Callers \cup {Nobody}
HookTypes ==
  /\ senders \in Seq(Callers)
  /\ trigger \in Seq(Callers \cup {Nobody}) /\ Len(trigger) <= 1
CallTypes ==
  /\ at \in [Callers -> {"idle", "posting", "sending", "waiting", "replied", "retrying"}]
  /\ since \in [Callers -> Version] /\ snap \in [Callers -> Version]

LEMMA TypeParts ==
  TypeOK <=> IdentityTypes /\ EventTypes /\ LoopTypes /\ HookTypes /\ CallTypes
  BY DEF TypeOK, IdentityTypes, EventTypes, LoopTypes, HookTypes, CallTypes

LEMMA Together ==
  ASSUME Inv', IdentityTypes', EventTypes', LoopTypes', HookTypes', CallTypes',
         InTrigger', InSenders', Orderly'
  PROVE  Replies'
  <1>1. (IdentityTypes /\ EventTypes /\ LoopTypes /\ HookTypes /\ CallTypes => TypeOK)'
    BY TypeParts, PTL
  <1> QED
    BY <1>1 DEF Replies

LEMMA InitReplies == Init => Replies
  <1> SUFFICES ASSUME Init PROVE Replies
    OBVIOUS
  <1> USE RotationAssumption DEF Init, RotationAssumption
  <1>1. Inv
    BY InitInv
  <1>2. IdentityTypes /\ LoopTypes /\ CallTypes
    <2>1. 0 \in Version /\ 1 \in Version \ {0}
      BY DEF Version
    <2>2. IdentityTypes
      <3>1. missed \in BOOLEAN /\ deadline \in {"none", "set"}
        BY Zenon
      <3>2. /\ source \in Sources /\ want \in Version /\ file \in [Files -> Version]
            /\ noise \in 0 .. MaxNoise /\ reading \in Version /\ installed \in Version \ {0}
        BY <2>1
      <3> QED
        BY ONLY <3>1, <3>2, Zenon DEF IdentityTypes
    <2>3. LoopTypes /\ CallTypes
      BY <2>1 DEF LoopTypes, CallTypes
    <2> QED
      BY <2>2, <2>3
  <1>3. EventTypes /\ HookTypes
    BY DEF EventTypes, HookTypes
  <1>4. InTrigger /\ InSenders
    BY Slot DEF InTrigger, InSenders
  <1>5. Orderly
    BY DEF Orderly, Once
  <1> QED
    BY <1>1, <1>2, <1>3, <1>4, <1>5, TypeParts DEF Replies

(* The writer and the notify callback leave the callers alone. *)
LEMMA WriterKeepsReplies == ASSUME Replies, Writer PROVE Replies'
  <1>1. IdentityTypes /\ EventTypes /\ LoopTypes /\ HookTypes /\ CallTypes
    BY TypeParts DEF Replies
  <1>2. UNCHANGED <<source, loopVars, hookVars, callVars>>
    BY DEF Writer, Rotate, Write, Noise
  <1>3. /\ want' \in Version /\ file' \in [Files -> Version] /\ noise' \in 0 .. MaxNoise
    <2>1. CASE Rotate
      BY <1>1, <2>1, RotationAssumption DEF Rotate, IdentityTypes, Version, RotationAssumption
    <2>2. CASE Noise
      BY <1>1, <2>2, RotationAssumption DEF Noise, IdentityTypes, RotationAssumption
    <2>3. ASSUME NEW f \in Files, NEW v \in Version, Write(f, v)
          PROVE  want' \in Version /\ file' \in [Files -> Version] /\ noise' \in 0 .. MaxNoise
      BY <1>1, <2>3 DEF Write, IdentityTypes
    <2> QED
      BY <2>1, <2>2, <2>3 DEF Writer
  <1>4. missed' \in BOOLEAN /\ deadline' \in {"none", "set"} /\ EventTypes'
    <2>1. ASSUME NEW f, Notify(f)
          PROVE  missed' \in BOOLEAN /\ deadline' \in {"none", "set"} /\ EventTypes'
      <3>1. CASE UNCHANGED watchVars
        BY <1>1, <3>1 DEF watchVars, IdentityTypes, EventTypes
      <3>2. CASE ~UNCHANGED watchVars
        <4>1. /\ missed' \in BOOLEAN /\ deadline' = deadline
          BY <1>1, <2>1, <3>2 DEF Notify, IdentityTypes
        <4>2. PICK e \in {"touch", "other"} :
                events' = IF Len(events) = EventBuffer THEN events ELSE Append(events, e)
          BY <2>1, <3>2 DEF Notify
        <4>3. EventTypes'
          BY <1>1, <4>2, RotationAssumption, AppendProperties, LenProperties
          DEF EventTypes, RotationAssumption
        <4> QED
          BY <1>1, <4>1, <4>3 DEF IdentityTypes
      <3> QED
        BY <3>1, <3>2
    <2>2. CASE Rotate
      BY <1>1, <2>2 DEF Rotate, watchVars, IdentityTypes, EventTypes
    <2>3. CASE Noise
      BY <2>1, <2>3 DEF Noise
    <2>4. ASSUME NEW f \in Files, NEW v \in Version, Write(f, v)
          PROVE  missed' \in BOOLEAN /\ deadline' \in {"none", "set"} /\ EventTypes'
      BY <2>1, <2>4 DEF Write
    <2> QED
      BY <2>2, <2>3, <2>4 DEF Writer
  <1>5. IdentityTypes' /\ LoopTypes' /\ HookTypes' /\ CallTypes'
    BY <1>1, <1>2, <1>3, <1>4
    DEF IdentityTypes, LoopTypes, HookTypes, CallTypes, loopVars, hookVars, callVars
  <1>6. InTrigger' /\ InSenders' /\ Orderly'
    BY <1>2 DEF Replies, InTrigger, InSenders, Orderly, loopVars, hookVars, callVars
  <1>7. Inv'
    BY WriterKeepsInv DEF Replies
  <1> QED
    BY <1>4, <1>5, <1>6, <1>7, Together


(* The channel of one slot, as the invariant has it. *)
LEMMA InSlot ==
  ASSUME Replies
  PROVE  \/ trigger = <<>> /\ Range(trigger) = {}
         \/ \E x \in Callers \cup {Nobody} : trigger = <<x>> /\ Range(trigger) = {x}
  BY Slot DEF Replies, Inv, Types

(* The task begins a reload or takes an event: a trigger moves from the    *)
(* channel to the task, which served nobody.                               *)
LEMMA LoopKeepsReplies == ASSUME Replies, Loop PROVE Replies'
  <1>1. IdentityTypes /\ EventTypes /\ LoopTypes /\ HookTypes /\ CallTypes
    BY TypeParts DEF Replies
  <1>2. UNCHANGED <<writerVars, installed, senders, callVars>>
    BY DEF Loop, ServeTrigger, RecvEvent, DebounceExpired, SleepEnds, BeginReload, watchVars,
           hookVars, loopVars
  <1>3. IdentityTypes' /\ EventTypes'
    <2>1. reading' \in Version
      BY <1>1 DEF Loop, ServeTrigger, RecvEvent, DebounceExpired, SleepEnds, BeginReload,
                  IdentityTypes, Files, loopVars
    <2>2. missed' = missed /\ deadline' \in {"none", "set"}
      BY <1>1 DEF Loop, ServeTrigger, RecvEvent, DebounceExpired, SleepEnds, IdentityTypes,
                  watchVars
    <2>3. EventTypes'
      <3>1. CASE events' = events
        BY <1>1, <3>1 DEF EventTypes
      <3>2. CASE events # <<>> /\ events' = Tail(events)
        BY <1>1, <3>2, HeadTailProperties, EmptySeq, LenProperties, RotationAssumption
        DEF EventTypes, RotationAssumption
      <3> QED
        BY <3>1, <3>2 DEF Loop, ServeTrigger, RecvEvent, DebounceExpired, SleepEnds, watchVars
    <2> QED
      BY <1>1, <1>2, <2>1, <2>2, <2>3 DEF IdentityTypes, writerVars
  <1>4. CallTypes' /\ InSenders' /\ Once(senders')
    BY <1>1, <1>2 DEF CallTypes, callVars, Replies, InSenders, Orderly, Once
  <1>5. LoopTypes' /\ HookTypes' /\ InTrigger' /\ (loop' \in {"select", "stopped"} => serving' = Nobody)
    <2>1. CASE ServeTrigger
      <3>1. PICK x \in Callers \cup {Nobody} : trigger = <<x>> /\ Range(trigger) = {x}
        BY <2>1, InSlot DEF ServeTrigger
      <3>2. serving = Nobody /\ serving' = x /\ trigger' = <<>> /\ loop' = "serve"
        BY <2>1, <3>1, Slot DEF ServeTrigger, BeginReload, Replies, Orderly
      <3>3. InTrigger'
        BY <1>2, <3>1, <3>2, Slot, RotationAssumption
        DEF Replies, InTrigger, callVars, RotationAssumption
      <3>4. HookTypes'
        BY <1>1, <1>2, <3>2 DEF HookTypes
      <3> QED
        BY <3>1, <3>2, <3>3, <3>4 DEF LoopTypes
    <2>2. CASE RecvEvent
      BY <1>1, <2>2 DEF RecvEvent, loopVars, hookVars, callVars, LoopTypes, HookTypes, InTrigger,
                        Replies, Orderly
    <2>3. CASE DebounceExpired \/ SleepEnds
      <3>1. /\ serving = Nobody /\ serving' = Nobody /\ loop' = "tick"
            /\ UNCHANGED <<hookVars, callVars>>
        BY <2>3 DEF DebounceExpired, SleepEnds, BeginReload, Replies, Orderly
      <3> QED
        BY <1>1, <3>1 DEF LoopTypes, HookTypes, InTrigger, hookVars, callVars, Replies
    <2> QED
      BY <2>1, <2>2, <2>3 DEF Loop
  <1> QED
    BY <1>3, <1>4, <1>5, LoopKeepsInv, Together DEF Replies, Orderly

(* A reload ends, with or without a new client: whoever is served resumes. *)
LEMMA EndKeepsReplies ==
  ASSUME Replies, NEW ok \in BOOLEAN, EndReload(ok), installed' \in Version \ {0}, Inv'
  PROVE  Replies'
  <1>1. IdentityTypes /\ EventTypes /\ LoopTypes /\ HookTypes /\ CallTypes
    BY TypeParts DEF Replies
  <1>2. /\ reading' \in {0, file["cert"]} /\ loop' \in {"tick", "select"} /\ serving' = Nobody
        /\ at' = [c \in Callers |-> IF c = serving THEN "replied" ELSE at[c]]
        /\ since' = [c \in Callers |-> IF c = serving /\ ~ok THEN 0 ELSE since[c]]
        /\ UNCHANGED <<writerVars, watchVars, hookVars, snap>>
    BY DEF EndReload, Resume
  <1>3. IdentityTypes' /\ EventTypes'
    <2>1. reading' \in Version
      BY <1>1, <1>2, RotationAssumption DEF IdentityTypes, Version, Files, RotationAssumption
    <2> QED
      BY <1>1, <1>2, <2>1 DEF IdentityTypes, EventTypes, writerVars, watchVars
  <1>4. LoopTypes' /\ HookTypes'
    BY <1>1, <1>2 DEF LoopTypes, HookTypes, hookVars
  <1>5. CallTypes'
    BY <1>1, <1>2, RotationAssumption DEF CallTypes, Version, RotationAssumption
  <1>6. InTrigger' /\ InSenders'
    <2> SUFFICES ASSUME NEW c \in Callers
                 PROVE  /\ at'[c] = "waiting" <=> c \in Range(trigger') \cup {serving'}
                        /\ at'[c] = "sending" <=> c \in Range(senders')
      BY DEF InTrigger, InSenders
    <2>1. /\ at[c] = "waiting" <=> c \in Range(trigger) \cup {serving}
          /\ at[c] = "sending" <=> c \in Range(senders)
      BY DEF Replies, InTrigger, InSenders
    <2>2. UNCHANGED <<trigger, senders>> /\ serving' = Nobody /\ c # Nobody
      BY <1>2, RotationAssumption DEF hookVars, RotationAssumption
    <2>3. c = serving => c \notin Range(trigger)
      BY InSlot DEF Replies, Inv, Refreshed
    <2> QED
      BY <1>2, <2>1, <2>2, <2>3
  <1>7. Orderly'
    BY <1>2 DEF Replies, Orderly, hookVars
  <1> QED
    BY <1>3, <1>4, <1>5, <1>6, <1>7, Together

LEMMA ReloadKeepsReplies == ASSUME Replies, Reloaded \/ ReloadFails PROVE Replies'
  <1>1. installed \in Version \ {0}
    BY DEF Replies, TypeOK
  <1>2. installed' \in Version \ {0}
    BY <1>1, RotationAssumption
    DEF Reloaded, ReloadFails, Replies, Inv, Ordered, TypeOK, Version, Disk, Files, Reloading,
        EndReload, RotationAssumption
  <1>3. \E ok \in BOOLEAN : EndReload(ok)
    BY DEF Reloaded, ReloadFails
  <1> QED
    BY <1>2, <1>3, EndKeepsReplies, ReloadKeepsInv DEF Replies


(* A caller's own step. *)
LEMMA CallerKeepsReplies ==
  ASSUME Replies, NEW c \in Callers,
         Post(c) \/ PostEnds(c) \/ PostFails(c) \/ SendTrigger(c) \/ TimesOut(c) \/ Retry(c) \/ Drop(c)
  PROVE  Replies'
  <1>1. IdentityTypes /\ EventTypes /\ LoopTypes /\ HookTypes /\ CallTypes
    BY TypeParts DEF Replies
  <1>2. c # Nobody /\ 0 \in Version
    BY RotationAssumption DEF RotationAssumption, Version
  <1>3. IdentityTypes' /\ EventTypes'
    BY <1>1 DEF Post, PostEnds, PostFails, SendTrigger, TimesOut, Retry, Drop, Forget, writerVars,
                watchVars, loopVars, IdentityTypes, EventTypes
  <1>4. loop' = loop
    BY DEF Post, PostEnds, PostFails, SendTrigger, TimesOut, Retry, Drop, Forget, loopVars
  <1>5. CallTypes'
    <2>1. installed \in Version /\ 1 \in Version /\ Complete \in Version
      BY <1>1, <1>2, RotationAssumption
      DEF IdentityTypes, Complete, Files, Version, RotationAssumption
    <2>2. at' \in [Callers -> {"idle", "posting", "sending", "waiting", "replied", "retrying"}]
      BY <1>1 DEF Post, PostEnds, PostFails, SendTrigger, TimesOut, Retry, Drop, Resume, Over,
                  Goto, CallTypes
    <2>3. since' \in [Callers -> Version]
      BY <1>1, <1>2, <2>1 DEF Post, PostEnds, PostFails, SendTrigger, TimesOut, Retry, Drop,
                  Resume, Over, CallTypes
    <2>4. snap' \in [Callers -> Version]
      BY <1>1, <1>2, <2>1 DEF Post, PostEnds, PostFails, SendTrigger, TimesOut, Retry, Drop,
                  Resume, Over, CallTypes
    <2> QED
      BY <2>2, <2>3, <2>4 DEF CallTypes
  <1>6. /\ \A d \in Callers : d # c => at'[d] = at[d]
        /\ \A d \in Callers : at[d] = "waiting" <=> d \in Range(trigger) \cup {serving}
        /\ \A d \in Callers : at[d] = "sending" <=> d \in Range(senders)
    BY <1>1 DEF Post, PostEnds, PostFails, SendTrigger, TimesOut, Retry, Drop, Resume, Over, Goto,
                CallTypes, Replies, InTrigger, InSenders
  (* What the step does to the two queues decides who waits. *)
  <1>7. ASSUME senders' \in Seq(Callers), Once(senders'),
               \A d \in Callers : d # c => (d \in Range(senders') <=> d \in Range(senders)),
               at'[c] = "sending" <=> c \in Range(senders')
        PROVE  InSenders' /\ Once(senders') /\ senders' \in Seq(Callers)
    BY <1>6, <1>7 DEF InSenders
  <1>8. ASSUME UNCHANGED <<trigger, serving>>, at[c] = "waiting" <=> at'[c] = "waiting"
        PROVE  InTrigger' /\ LoopTypes' /\ (serving = Nobody => serving' = Nobody)
               /\ trigger' \in Seq(Callers \cup {Nobody}) /\ Len(trigger') <= 1
    BY <1>1, <1>4, <1>6, <1>8 DEF InTrigger, LoopTypes, HookTypes
  <1>9. ASSUME Forget(c), at'[c] # "waiting"
        PROVE  InTrigger' /\ LoopTypes' /\ (serving = Nobody => serving' = Nobody)
               /\ trigger' \in Seq(Callers \cup {Nobody}) /\ Len(trigger') <= 1
    <2>1. /\ serving' = IF serving = c THEN Nobody ELSE serving
          /\ trigger' = IF trigger = <<c>> THEN <<Nobody>> ELSE trigger
      BY <1>9 DEF Forget
    <2>2. /\ Range(trigger') \ {Nobody} = Range(trigger) \ {c, Nobody}
          /\ trigger' \in Seq(Callers \cup {Nobody}) /\ Len(trigger') <= 1
      <3>1. CASE trigger = <<c>>
        BY <2>1, <3>1, Slot
      <3>2. CASE trigger # <<c>>
        BY <1>1, <2>1, <3>2, InSlot DEF HookTypes
      <3> QED
        BY <3>1, <3>2
    <2>3. \A d \in Callers : at'[d] = "waiting" <=> d \in Range(trigger') \cup {serving'}
      BY <1>2, <1>6, <1>9, <2>1, <2>2, RotationAssumption DEF RotationAssumption
    <2> QED
      BY <1>1, <1>4, <2>1, <2>2, <2>3 DEF InTrigger, LoopTypes
  <1>10. /\ InSenders' /\ Once(senders') /\ senders' \in Seq(Callers)
         /\ InTrigger' /\ LoopTypes' /\ (serving = Nobody => serving' = Nobody)
         /\ trigger' \in Seq(Callers \cup {Nobody}) /\ Len(trigger') <= 1
    <2>1. senders \in Seq(Callers) /\ Once(senders)
      BY <1>1 DEF HookTypes, Replies, Orderly
    <2>2. CASE Post(c) \/ PostEnds(c) \/ Retry(c)
      <3>1. /\ UNCHANGED <<senders, trigger, serving>>
            /\ at[c] \notin {"sending", "waiting"} /\ at'[c] \notin {"sending", "waiting"}
        BY <1>1, <2>2 DEF Post, PostEnds, Retry, Goto, Over, loopVars, hookVars, CallTypes
      <3> QED
        BY <1>6, <1>7, <1>8, <2>1, <3>1
    <2>3. CASE PostFails(c)
      <3>1. UNCHANGED <<trigger, serving>> /\ at[c] = "posting" /\ c \notin Range(senders)
        BY <1>6, <2>3 DEF PostFails, loopVars
      <3>2. \/ senders' = senders /\ at'[c] = "replied"
            \/ senders' = Append(senders, c) /\ at'[c] = "sending"
        BY <1>1, <2>3 DEF PostFails, Goto, CallTypes
      <3>3. InSenders' /\ Once(senders') /\ senders' \in Seq(Callers)
        <4>1. CASE senders' = senders /\ at'[c] = "replied"
          BY <1>7, <2>1, <3>1, <4>1
        <4>2. CASE senders' = Append(senders, c) /\ at'[c] = "sending"
          <5>1. /\ senders' \in Seq(Callers) /\ Once(senders')
                /\ Range(senders') = Range(senders) \cup {c}
            BY <2>1, <3>1, <4>2, Joins
          <5> QED
            BY <1>7, <4>2, <5>1
        <4> QED
          BY <3>2, <4>1, <4>2
      <3>4. at'[c] # "waiting"
        BY <3>2
      <3> QED
        BY <1>8, <3>1, <3>3, <3>4
    <2>4. CASE SendTrigger(c)
      <3>1. /\ at[c] = "sending" /\ at'[c] = "waiting" /\ Head(senders) = c /\ trigger = <<>>
            /\ senders' = Tail(senders) /\ trigger' = <<c>> /\ serving' = serving
        BY <1>1, <2>4 DEF SendTrigger, Goto, CallTypes, loopVars
      <3>2. senders # <<>>
        BY <1>6, <3>1, Slot
      <3>3. InSenders' /\ Once(senders') /\ senders' \in Seq(Callers)
        BY <1>7, <2>1, <3>1, <3>2, Leads
      <3>4. InTrigger' /\ trigger' \in Seq(Callers \cup {Nobody}) /\ Len(trigger') <= 1
        BY <1>6, <3>1, Slot DEF InTrigger
      <3> QED
        BY <1>1, <1>4, <3>1, <3>3, <3>4 DEF LoopTypes
    <2>5. CASE TimesOut(c)
      <3>1. /\ Forget(c) /\ senders' = senders /\ at[c] = "waiting" /\ at'[c] = "replied"
        BY <1>1, <2>5 DEF TimesOut, Resume
      <3> QED
        BY <1>6, <1>7, <1>9, <2>1, <3>1
    <2>6. CASE Drop(c)
      <3>1. /\ Forget(c) /\ senders' = RemoveFirst(senders, c) /\ at'[c] = "idle"
        BY <1>1, <2>6 DEF Drop, Over, Goto, CallTypes
      <3> QED
        BY <1>7, <1>9, <2>1, <3>1, GivesUp
    <2> QED
      BY <2>2, <2>3, <2>4, <2>5, <2>6
  <1>11. HookTypes' /\ Orderly'
    BY <1>4, <1>10 DEF HookTypes, Orderly, Replies
  <1> QED
    BY <1>3, <1>5, <1>10, <1>11, CallerKeepsInv, Together DEF Replies

(* The task goes, and nobody waits for it any more. *)
LEMMA StopKeepsReplies == ASSUME Replies, Stop PROVE Replies'
  <1>1. IdentityTypes /\ EventTypes /\ LoopTypes /\ HookTypes /\ CallTypes
    BY TypeParts DEF Replies
  <1>2. /\ loop' = "stopped" /\ serving' = Nobody /\ trigger' = <<>> /\ senders' = <<>>
        /\ reading' = 0 /\ UNCHANGED <<writerVars, watchVars, installed, snap>>
        /\ at' = [c \in Callers |-> IF c \in Waiting THEN "replied" ELSE at[c]]
        /\ since' = [c \in Callers |-> IF c \in Waiting THEN 0 ELSE since[c]]
    BY DEF Stop, Resume
  <1>3. IdentityTypes' /\ EventTypes'
    BY <1>1, <1>2, RotationAssumption
    DEF IdentityTypes, EventTypes, writerVars, watchVars, Version, RotationAssumption
  <1>4. LoopTypes' /\ HookTypes'
    BY <1>2, EmptySeq DEF LoopTypes, HookTypes
  <1>5. CallTypes'
    BY <1>1, <1>2, RotationAssumption DEF CallTypes, Version, RotationAssumption
  <1>6. InTrigger' /\ InSenders'
    BY <1>2, Slot, RotationAssumption DEF InTrigger, InSenders, Waiting, RotationAssumption
  <1>7. Orderly'
    BY <1>2 DEF Orderly, Once
  <1> QED
    BY <1>3, <1>4, <1>5, <1>6, <1>7, StopKeepsInv, Together DEF Replies

LEMMA NextReplies == Replies /\ [Next]_vars => Replies'
  <1> SUFFICES ASSUME Replies, [Next]_vars PROVE Replies'
    OBVIOUS
  <1>1. CASE UNCHANGED vars
    BY <1>1
    DEF vars, writerVars, watchVars, loopVars, hookVars, callVars, Replies, Inv, Types, Ordered,
        Refreshed, Disk, Reloading, TypeOK, InTrigger, InSenders, Orderly, Once
  <1>2. CASE Next
    BY <1>2, WriterKeepsReplies, LoopKeepsReplies, ReloadKeepsReplies, StopKeepsReplies,
       CallerKeepsReplies
    DEF Next
  <1> QED
    BY <1>1, <1>2

(* Every introspection call that waits for a reply is one the task will    *)
(* reply to, and no reply is on its way to anybody else, whatever times    *)
(* out, is dropped or is stopped.                                          *)
THEOREM RepliesReachTheirCallers == Spec => []RepliesExpected
  <1>1. Replies => RepliesExpected
    BY DEF Replies, RepliesExpected, InTrigger, InSenders
  <1> QED
    BY <1>1, InitReplies, NextReplies, PTL DEF Spec
=============================================================================
