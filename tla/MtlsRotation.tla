---------------------------- MODULE MtlsRotation ----------------------------
(***************************************************************************)
(* Rotation of the mTLS identity of tako-compat's OIDC resolver: a writer  *)
(* replaces the certificate and the key, a background task (the file       *)
(* watcher of oidc_mtls_watcher.rs or the provider loop of                 *)
(* oidc_mtls_provider.rs) installs them, and introspection calls whose     *)
(* POST fails ask that task, through the hook of oidc_mtls_hook.rs, for a  *)
(* reload before they try once more.                                       *)
(*                                                                         *)
(* An identity is its version; 0 stands for a file that is missing or not  *)
(* yet written in full.  A client is built from a certificate and the key  *)
(* of the same version only: the TLS library compares the two.             *)
(***************************************************************************)
EXTENDS Naturals, Sequences, SequencesExt

CONSTANTS
  Callers,      \* introspection calls, one at a time each
  Nobody,       \* a reply that nobody waits for
  Sources,      \* the background tasks considered: "watcher", "provider"
  EventBuffer,  \* EVENT_CHANNEL_BOUND (128 in the code)
  MaxVersion,   \* a bound: versions of the identity
  MaxNoise      \* a bound: events about other files of the directory

ASSUME RotationAssumption ==
  /\ Nobody \notin Callers /\ Sources \subseteq {"watcher", "provider"}
  /\ EventBuffer \in Nat \ {0} /\ MaxVersion \in Nat \ {0} /\ MaxNoise \in Nat

VARIABLES
  source,     \* which task it is
  want,       \* the version the writer is about to complete
  file,       \* file[f]: the version of the certificate and of the key
  noise,      \* events about other files so far
  events,     \* the channel from the notify callback to the watcher
  missed,     \* no event that is left tells of the last change (see Notify)
  deadline,   \* pending_deadline: "none" or "set"
  loop,       \* "select"; reloading by itself, "tick", or for the hook, "serve"; "stopped"
  serving,    \* whose trigger it serves
  reading,    \* the certificate it has read, while it reloads
  installed,  \* MtlsClient: the version of the installed client
  senders,    \* callers that wait to send a trigger, in order
  trigger,    \* the trigger channel, of one slot
  at,         \* at[c]: where in introspect() caller c is
  since,      \* since[c]: the version complete when its refresh was asked for
  snap        \* snap[c]: the client of its second POST

writerVars == <<source, want, file, noise>>
watchVars == <<events, missed, deadline>>
loopVars == <<loop, serving, reading, installed>>
hookVars == <<senders, trigger>>
callVars == <<at, since, snap>>
vars == <<writerVars, watchVars, loopVars, hookVars, callVars>>

Files == {"cert", "key"}
Version == 0 .. MaxVersion

(* The resolver starts with version 1; the provider loop fetches at once.  *)
Init ==
  /\ source \in Sources
  /\ want = 1 /\ file = [f \in Files |-> 1] /\ noise = 0
  /\ events = <<>> /\ missed = FALSE /\ deadline = "none"
  /\ loop = IF source = "provider" THEN "tick" ELSE "select"
  /\ serving = Nobody /\ installed = 1
  /\ reading = IF source = "provider" THEN 1 ELSE 0
  /\ senders = <<>> /\ trigger = <<>>
  /\ at = [c \in Callers |-> "idle"]
  /\ since = [c \in Callers |-> 0] /\ snap = [c \in Callers |-> 0]

-----------------------------------------------------------------------------
(* The writer and the notify callback.                                     *)

(* event_touches: the event is about one of the two files. *)
Touches_Cert(f) == f = "cert"
Touches(f) == f \in Files

(* try_send: a full channel drops the event.  The last change is missed if *)
(* neither the channel nor the debounce will lead to another reload.       *)
Notify(f) ==
  IF source = "watcher" /\ loop # "stopped"
  THEN LET full == Len(events) = EventBuffer
           due == deadline = "set" \/ "touch" \in Range(events)
       IN /\ events' = IF full THEN events
                        ELSE Append(events, IF Touches(f) THEN "touch" ELSE "other")
          /\ missed' = IF f \in Files THEN full /\ ~due ELSE missed
          /\ UNCHANGED deadline
  ELSE UNCHANGED watchVars

Rotate ==
  /\ \A f \in Files : file[f] = want
  /\ want < MaxVersion /\ want' = want + 1
  /\ UNCHANGED <<source, file, noise, watchVars, loopVars, hookVars, callVars>>

(* A file is removed or truncated before it is written, or replaced at     *)
(* once by a rename; either file may come first.                           *)
Write(f, v) ==
  /\ file[f] # want /\ v # file[f]
  /\ v = want \/ (v = 0 /\ source = "watcher")
  /\ file' = [file EXCEPT ![f] = v]
  /\ Notify(f)
  /\ UNCHANGED <<source, want, noise, loopVars, hookVars, callVars>>

Noise ==
  /\ source = "watcher" /\ noise < MaxNoise
  /\ noise' = noise + 1
  /\ Notify("other")
  /\ UNCHANGED <<source, want, file, loopVars, hookVars, callVars>>

Writer == Rotate \/ Noise \/ \E f \in Files, v \in Version : Write(f, v)

-----------------------------------------------------------------------------
(* The background task.                                                    *)

BeginReload_Cached(l, who) ==
  /\ loop = "select" /\ loop' = l /\ serving' = who
  /\ UNCHANGED <<reading, installed>>

(* The certificate is read first; a provider's fetch begins. *)
BeginReload(l, who) ==
  /\ loop = "select" /\ loop' = l /\ serving' = who
  /\ reading' = file["cert"]
  /\ UNCHANGED installed

(* The hook comes first in the biased select, and cancels the debounce.    *)
ServeTrigger ==
  /\ trigger # <<>>
  /\ BeginReload("serve", Head(trigger))
  /\ trigger' = Tail(trigger)
  /\ deadline' = "none"
  /\ UNCHANGED <<writerVars, events, missed, senders, callVars>>

RecvEvent ==
  /\ loop = "select" /\ trigger = <<>> /\ events # <<>>
  /\ events' = Tail(events)
  /\ deadline' = IF Head(events) = "touch" THEN "set" ELSE deadline
  /\ UNCHANGED <<writerVars, missed, loopVars, hookVars, callVars>>

DebounceExpired ==
  /\ trigger = <<>> /\ events = <<>> /\ deadline = "set"
  /\ BeginReload("tick", Nobody)
  /\ deadline' = "none"
  /\ UNCHANGED <<writerVars, events, missed, hookVars, callVars>>

(* The provider's sleep ends: at 80% of the validity, within a day. *)
SleepEnds ==
  /\ source = "provider" /\ trigger = <<>>
  /\ BeginReload("tick", Nobody)
  /\ UNCHANGED <<writerVars, watchVars, hookVars, callVars>>

(* A caller whose refresh is over goes on to its second POST; since[c] is  *)
(* kept if the reload succeeded.                                           *)
Resume(cs, ok) ==
  /\ at' = [c \in Callers |-> IF c \in cs THEN "replied" ELSE at[c]]
  /\ since' = [c \in Callers |-> IF c \in cs /\ ~ok THEN 0 ELSE since[c]]
  /\ UNCHANGED snap

(* Whoever waits gets the reply.  The provider loop fetches again right    *)
(* after it has served a trigger.                                          *)
EndReload(ok) ==
  /\ loop \in {"tick", "serve"}
  /\ IF source = "provider" /\ loop = "serve"
     THEN loop' = "tick" /\ reading' = file["cert"]
     ELSE loop' = "select" /\ reading' = 0
  /\ Resume({serving}, ok) /\ serving' = Nobody
  /\ UNCHANGED <<writerVars, watchVars, hookVars>>

(* The watcher reads the key that is there by now; a provider returns an   *)
(* identity that was current while it was fetched.                         *)
Reloaded ==
  /\ \E v \in Version \ {0} :
       /\ IF source = "watcher" THEN v = reading /\ v = file["key"]
          ELSE v \in reading .. file["cert"]
       /\ installed' = v
  /\ EndReload(TRUE)

(* An unreadable file, a key that is not the certificate's, a failed fetch.*)
ReloadFails ==
  /\ source = "watcher" => reading # file["key"] \/ reading = 0
  /\ EndReload(FALSE)
  /\ UNCHANGED installed

Waiting == {c \in Callers : at[c] \in {"sending", "waiting"}}

Stop_KeepsTriggers ==
  /\ loop = "select" \/ (source = "provider" /\ loop # "stopped")
  /\ loop' = "stopped" /\ serving' = Nobody /\ trigger' = trigger /\ senders' = <<>>
  /\ Resume({c \in Callers : at[c] = "sending"}, FALSE)
  /\ reading' = 0
  /\ UNCHANGED <<writerVars, watchVars, installed>>

(* The handle is shut down or dropped: the task is aborted where it awaits,*)
(* which the watcher's reload never does.  Its end of the hook goes too.   *)
Stop ==
  /\ loop = "select" \/ (source = "provider" /\ loop # "stopped")
  /\ loop' = "stopped" /\ serving' = Nobody /\ trigger' = <<>> /\ senders' = <<>>
  /\ Resume(Waiting, FALSE)
  /\ reading' = 0
  /\ UNCHANGED <<writerVars, watchVars, installed>>

Loop == ServeTrigger \/ RecvEvent \/ DebounceExpired \/ SleepEnds

-----------------------------------------------------------------------------
(* introspect().                                                           *)

Goto(c, s) == at' = [at EXCEPT ![c] = s]

Post(c) ==
  /\ at[c] = "idle" /\ Goto(c, "posting")
  /\ UNCHANGED <<writerVars, watchVars, loopVars, hookVars, since, snap>>

(* The call is over: its POST was answered, or its second POST failed.     *)
Over(c) ==
  /\ Goto(c, "idle")
  /\ since' = [since EXCEPT ![c] = 0] /\ snap' = [snap EXCEPT ![c] = 0]

PostEnds(c) ==
  /\ at[c] \in {"posting", "retrying"} /\ Over(c)
  /\ UNCHANGED <<writerVars, watchVars, loopVars, hookVars>>

Complete == IF file["cert"] = file["key"] THEN file["cert"] ELSE 0


(* A transport error on the first POST: force_refresh, which fails at once *)
(* when the task has gone.                                                 *)
PostFails(c) ==
  /\ at[c] = "posting"
  /\ since' = [since EXCEPT ![c] = IF loop = "stopped" THEN 0 ELSE Complete]
  /\ IF loop = "stopped" THEN Goto(c, "replied") /\ UNCHANGED senders
     ELSE Goto(c, "sending") /\ senders' = Append(senders, c)
  /\ UNCHANGED <<writerVars, watchVars, loopVars, trigger, snap>>


(* The slot of the trigger channel is free: first come, first served. *)
SendTrigger(c) ==
  /\ at[c] = "sending" /\ Head(senders) = c /\ trigger = <<>>
  /\ senders' = Tail(senders) /\ trigger' = <<c>>
  /\ Goto(c, "waiting")
  /\ UNCHANGED <<writerVars, watchVars, loopVars, since, snap>>

(* Nobody waits for c's reply any more; its trigger stays where it is.     *)
Forget(c) ==
  /\ trigger' = IF trigger = <<c>> THEN <<Nobody>> ELSE trigger
  /\ serving' = IF serving = c THEN Nobody ELSE serving
  /\ UNCHANGED <<loop, reading, installed>>

(* REFRESH_TIMEOUT, which covers the wait for the reply alone. *)
TimesOut(c) ==
  /\ at[c] = "waiting"
  /\ Resume({c}, FALSE) /\ Forget(c)
  /\ UNCHANGED <<writerVars, watchVars, senders>>

Retry_FirstClient(c) ==
  /\ at[c] = "replied" /\ Goto(c, "retrying")
  /\ snap' = [snap EXCEPT ![c] = 1]
  /\ UNCHANGED <<writerVars, watchVars, loopVars, hookVars, since>>

(* The second POST takes a snapshot of its own, whatever the reply was.    *)
Retry(c) ==
  /\ at[c] = "replied" /\ Goto(c, "retrying")
  /\ snap' = [snap EXCEPT ![c] = installed]
  /\ UNCHANGED <<writerVars, watchVars, loopVars, hookVars, since>>

(* The caller's future is dropped. *)
Drop(c) ==
  /\ at[c] # "idle" /\ Over(c)
  /\ senders' = RemoveFirst(senders, c)
  /\ Forget(c)
  /\ UNCHANGED <<writerVars, watchVars>>

Next ==
  \/ Writer \/ Loop \/ Reloaded \/ ReloadFails \/ Stop
  \/ \E c \in Callers :
       Post(c) \/ PostEnds(c) \/ PostFails(c) \/ SendTrigger(c) \/ TimesOut(c) \/ Retry(c)
         \/ Drop(c)

Spec == Init /\ [][Next]_vars

(* tokio runs what can run and timers fire; a POST ends within its client's*)
(* timeout; who has begun to replace the files completes them.             *)
CodeFairness ==
  /\ WF_vars(Loop) /\ WF_vars(source = "watcher" /\ (Reloaded \/ ReloadFails))
  /\ WF_vars(\E f \in Files : Write(f, want))
  /\ \A c \in Callers :
       /\ WF_vars(PostEnds(c) \/ PostFails(c)) /\ WF_vars(SendTrigger(c))
       /\ WF_vars(TimesOut(c)) /\ WF_vars(Retry(c))

(* The operator's provider returns, and not always with an error.          *)
ProviderFetches == WF_vars(Reloaded \/ ReloadFails) /\ SF_vars(Reloaded)

CodeSpec == Spec /\ CodeFairness
FairSpec == CodeSpec /\ ProviderFetches

-----------------------------------------------------------------------------
(* Properties.                                                             *)

(* Every variable has its type. *)
TypeOK ==
  /\ source \in Sources
  /\ want \in Version /\ file \in [Files -> Version] /\ noise \in 0 .. MaxNoise
  /\ events \in Seq({"touch", "other"}) /\ Len(events) <= EventBuffer
  /\ missed \in BOOLEAN /\ deadline \in {"none", "set"}
  /\ loop \in {"select", "tick", "serve", "stopped"}
  /\ serving \in Callers \cup {Nobody} /\ reading \in Version /\ installed \in Version \ {0}
  /\ senders \in Seq(Callers) /\ trigger \in Seq(Callers \cup {Nobody}) /\ Len(trigger) <= 1
  /\ at \in [Callers -> {"idle", "posting", "sending", "waiting", "replied", "retrying"}]
  /\ since \in [Callers -> Version] /\ snap \in [Callers -> Version]

(* A refresh that was reported as successful is one the second POST gains  *)
(* from: it uses a client at least as new as the identity that was in      *)
(* place when the refresh was asked for, whatever is rotated meanwhile.    *)
RefreshedIsFresh == \A c \in Callers : at[c] = "retrying" => snap[c] >= since[c]

(* Each caller that waits for a reply is in the trigger channel or being   *)
(* served, and nobody else is: no reply is lost when the task reloads, is  *)
(* late or is stopped, and none reaches a later call.                      *)
RepliesExpected ==
  /\ TypeOK
  /\ \A c \in Callers : at[c] = "waiting" <=> c \in Range(trigger) \cup {serving}
  /\ \A c \in Callers : at[c] = "sending" <=> c \in Range(senders)

(* The installed identity never goes back to an older one.                 *)
NeverOlder == [][installed' >= installed]_vars

(* After a rotation the resolver uses the new identity, whatever mix of    *)
(* old and new the task has read in between and whatever debounce a        *)
(* trigger has cancelled, unless the last change was missed.               *)
Converges == []<>(installed = want \/ missed \/ loop = "stopped")

(* A call ends after one POST or two.                                      *)
CallsEnd == \A c \in Callers : at[c] # "idle" ~> at[c] = "idle"

(* Neither a rotation nor a call waits for ever on the task.                *)
Settles == Converges /\ CallsEnd

(* oidc_mtls_watcher.rs:64, "losing individual events is harmless": with   *)
(* the channel full of events about other files the lost one is the only   *)
(* one that would have led to a reload.                                    *)
LossHarmless == []<>(installed = want \/ loop = "stopped")

(* oidc.rs:1027, the refresh is "capped at 2s": the send into a channel    *)
(* that a slow fetch leaves full is not.                                   *)
RefreshCapped == \A c \in Callers : c \in Waiting ~> c \notin Waiting
=============================================================================
