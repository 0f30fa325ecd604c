---------------------------- MODULE ProviderStack ----------------------------
(* The reliability layers of tako-runtime as docs/architecture.md:170-184 stacks  *)
(* them: a FallbackProvider over providers each of which has a rate limiter, a      *)
(* circuit breaker shared by all callers, and retries with backoff; under them the   *)
(* clients of the provider crates, which fetch images first where asked to.           *)
(*                                                                                     *)
(* A call is one chat(), or one stream() up to its connection, after which the          *)
(* StreamDecoder has it. Errors are only told apart by is_transient(). The breaker's     *)
(* state machine (failsafe) and the limiter's clock (governor) are libraries.             *)
EXTENDS StreamDecoder, UrlPrefetch, FiniteSetsExt

Formats == INSTANCE MessageFormats

CONSTANTS
  Callers,
  Chain,       \* the primary and its fallbacks
  Deployments, \* whose API each provider may speak: functions from Chain to Vendors
  KnobLists,   \* how a provider that can fetch images may be built: calls of its builder
  Sites,       \* what an image URL may lead to
  Inside,      \* addresses that are not of the public network
  MaxAttempts, \* RetryConfig.max_attempts
  Threshold,   \* BreakerConfig.consecutive_failures
  Images,      \* image URLs of a request
  Showing,     \* the callers whose requests have any
  MaxOpenings  \* a bound: times a breaker opens

(* Private, loopback, link-local, multicast and reserved addresses; in IPv6 fc00::/7,     *)
(* fe80::/10 and ff00::/8, :: and ::1.                                                       *)
OfInside(ip) ==
  IF ip.v = "6" THEN ip.a \in {0} \union 64512 .. 65023 \union 65152 .. 65215 \union 65280 .. 65535
  ELSE \/ ip.a \in {10, 127} \union 224 .. 255
       \/ <<ip.a, ip.b>> \in {<<0, 0>>, <<192, 168>>, <<169, 254>>}
       \/ (ip.a = 172 /\ ip.b \in 16 .. 31)

ASSUME StackAssumption ==
  /\ Chain # <<>> /\ Chain \in Seq(Range(Chain)) /\ IsInjective(Chain)
  /\ Deployments \subseteq [Range(Chain) -> Vendors \union {"azure"}]
  /\ \A ip \in Inside : OfInside(ip)
  /\ IsFiniteSet(Callers) /\ Callers # {}
  /\ MaxAttempts \in Nat \ {0} /\ Threshold \in Nat \ {0} /\ Images \in Nat

VARIABLES
  Vendor,   \* whose API each provider speaks
  knobs,    \* how each was built
  streams,  \* whether the callers call stream()
  pc,       \* per caller
  target,   \* per caller, its place in the chain
  attempt,  \* per caller, attempts of this series before the one under way
  copy,     \* per caller, the content of this attempt's copy of the request
  refused,  \* per caller, it had an error that is not transient
  tries,    \* per caller and provider, attempts made; and whether the breaker rejected it
  rejected,
  breaker,  \* per provider: state and consecutive failures
  openings, \* per provider, how often its breaker opened
  late,     \* per provider, requests since its breaker opened
  tokens    \* per provider, whether its limiter lets one through

stackVars == <<Vendor, knobs, streams, pc, target, attempt, copy, refused, tries, rejected, breaker, openings, late, tokens>>
vars == <<stackVars, decoderVars>>

Provider == Range(Chain)
P(c) == Chain[target[c]]
Fetchers == {"bedrock", "ollama"}
Opts(p) == IF Vendor[p] = "ollama" THEN OlBuilt(knobs[p]) ELSE Built(knobs[p])
Fetched(p, site) == IF Vendor[p] = "ollama" THEN OlFetchOne(Opts(p), site) ELSE FetchOne(Opts(p), site)
ImagesOf(c) == IF c \in Showing THEN Images ELSE 0
Asked(c) == <<Formats!TextPart("words")>> \o [n \in 1 .. ImagesOf(c) |-> Formats!UrlPart("png")]
Settled == {"done", "failed", "dropped"}

Init ==
  /\ Vendor \in Deployments /\ streams \in BOOLEAN
  /\ knobs \in {k \in [Provider -> KnobLists \union {<<>>}] : \A p \in Provider : Vendor[p] \in Fetchers \/ k[p] = <<>>}
  /\ pc = [c \in Callers |-> "idle"] /\ target = [c \in Callers |-> 1]
  /\ attempt = [c \in Callers |-> 0] /\ copy = [c \in Callers |-> <<>>]
  /\ refused = [c \in Callers |-> FALSE]
  /\ tries = [c \in Callers |-> [p \in Provider |-> 0]]
  /\ rejected = [c \in Callers |-> {}]
  /\ breaker = [p \in Provider |-> [state |-> "closed", fails |-> 0]]
  /\ openings = [p \in Provider |-> 0] /\ late = [p \in Provider |-> 0]
  /\ tokens = [p \in Provider |-> TRUE]
  /\ Idle

-----------------------------------------------------------------------------
(* failsafe: consecutive failures open a closed breaker, one failure a half-open one.  *)

Succeeds(p) ==
  /\ breaker' = [breaker EXCEPT ![p] = [state |-> IF @.state = "half-open" THEN "closed" ELSE @.state, fails |-> 0]]
  /\ UNCHANGED <<openings, late>>
Trips(p) == breaker[p].state = "half-open"
             \/ (breaker[p].state = "closed" /\ breaker[p].fails + 1 >= Threshold)
Errors(p) ==
  IF Trips(p)
  THEN /\ breaker' = [breaker EXCEPT ![p] = [state |-> "open", fails |-> @.fails + 1]]
       /\ openings' = [openings EXCEPT ![p] = @ + 1] /\ late' = [late EXCEPT ![p] = 0]
  ELSE /\ breaker' = [breaker EXCEPT ![p].fails = IF breaker[p].state = "closed" THEN @ + 1 ELSE @]
       /\ UNCHANGED <<openings, late>>
Cools(p) ==
  /\ breaker[p].state = "open" /\ openings[p] < MaxOpenings
  /\ breaker' = [breaker EXCEPT ![p].state = "half-open"]
  /\ UNCHANGED <<Vendor, knobs, streams, pc, target, attempt, copy, refused, tries, rejected, openings, late, tokens, decoderVars>>
Refills(p) ==
  /\ ~tokens[p] /\ tokens' = [tokens EXCEPT ![p] = TRUE]
  /\ UNCHANGED <<Vendor, knobs, streams, pc, target, attempt, copy, refused, tries, rejected, breaker, openings, late, decoderVars>>

-----------------------------------------------------------------------------
Cascade_Around(c) ==  \* mutant: after the last provider comes the first
  /\ target' = [target EXCEPT ![c] = IF @ < Len(Chain) THEN @ + 1 ELSE 1]
  /\ pc' = [pc EXCEPT ![c] = "limit"]
(* FallbackProvider: the next of the chain after a transient error, none after any      *)
(* other, and the last error when there is no next.                                       *)
Cascade(c) ==
  IF target[c] < Len(Chain)
  THEN target' = [target EXCEPT ![c] = @ + 1] /\ pc' = [pc EXCEPT ![c] = "limit"]
  ELSE UNCHANGED target /\ pc' = [pc EXCEPT ![c] = "failed"]

\* Of calls that stream one at a time is looked at.
Begin(c) ==
  /\ pc[c] = "idle" /\ (streams => \A d \in Callers : pc[d] = "idle")
  /\ pc' = [pc EXCEPT ![c] = "limit"]
  /\ UNCHANGED <<Vendor, knobs, streams, target, attempt, copy, refused, tries, rejected, breaker, openings, late, tokens, decoderVars>>

Acquire(c) ==
  /\ pc[c] = "limit" /\ tokens[P(c)]
  /\ tokens' = [tokens EXCEPT ![P(c)] = FALSE] /\ pc' = [pc EXCEPT ![c] = "gate"]
  /\ UNCHANGED <<Vendor, knobs, streams, target, attempt, copy, refused, tries, rejected, breaker, openings, late, decoderVars>>

(* An open breaker answers CircuitOpen, which is transient.                               *)
Enter(c) ==
  /\ pc[c] = "gate"
  /\ IF breaker[P(c)].state = "open"
     THEN rejected' = [rejected EXCEPT ![c] = @ \union {P(c)}] /\ Cascade(c) /\ UNCHANGED <<attempt, copy>>
     ELSE /\ pc' = [pc EXCEPT ![c] = "prepare"]
          /\ attempt' = [attempt EXCEPT ![c] = 0] /\ copy' = [copy EXCEPT ![c] = Asked(c)]
          /\ UNCHANGED <<rejected, target>>
  /\ UNCHANGED <<Vendor, knobs, streams, refused, tries, breaker, openings, late, tokens, decoderVars>>

Transient_OneMore(c) ==  \* mutant: <= for <
  /\ tries' = [tries EXCEPT ![c][P(c)] = @ + 1]
  /\ IF attempt[c] + 1 <= MaxAttempts
     THEN /\ pc' = [pc EXCEPT ![c] = "pause"] /\ attempt' = [attempt EXCEPT ![c] = @ + 1]
          /\ UNCHANGED <<target, breaker, openings, late>>
     ELSE Cascade(c) /\ Errors(P(c)) /\ UNCHANGED attempt
  /\ UNCHANGED refused
(* with_retry(): an attempt that fails in a transient way is repeated after a pause.      *)
Transient(c) ==
  /\ tries' = [tries EXCEPT ![c][P(c)] = @ + 1]
  /\ IF attempt[c] + 1 < MaxAttempts
     THEN /\ pc' = [pc EXCEPT ![c] = "pause"] /\ attempt' = [attempt EXCEPT ![c] = @ + 1]
          /\ UNCHANGED <<target, breaker, openings, late>>
     ELSE Cascade(c) /\ Errors(P(c)) /\ UNCHANGED attempt
  /\ UNCHANGED refused
Refusal(c) ==
  /\ tries' = [tries EXCEPT ![c][P(c)] = @ + 1]
  /\ refused' = [refused EXCEPT ![c] = TRUE] /\ pc' = [pc EXCEPT ![c] = "failed"]
  /\ Errors(P(c)) /\ UNCHANGED <<attempt, target>>

(* The pause ends; the next attempt starts from the request as it was given.               *)
Wake(c) ==
  /\ pc[c] = "pause" /\ pc' = [pc EXCEPT ![c] = "prepare"] /\ copy' = [copy EXCEPT ![c] = Asked(c)]
  /\ UNCHANGED <<Vendor, knobs, streams, target, attempt, refused, tries, rejected, breaker, openings, late, tokens, decoderVars>>

-----------------------------------------------------------------------------
(* The clients. Images are fetched one by one and put in place of their URLs; a fetch     *)
(* that cannot connect or be read is Transport, and every check it fails is Invalid.        *)

Fetching(c) == IF Vendor[P(c)] \in Fetchers /\ Opts(P(c)).enabled
               THEN {n \in DOMAIN copy[c] : copy[c][n].is = "url"} ELSE {}
Fetch(c) ==
  /\ pc[c] = "prepare" /\ Fetching(c) # {}
  /\ \E s \in Sites :
       LET got == Fetched(P(c), s) IN
       CASE got = "image" -> /\ copy' = [copy EXCEPT ![c][Min(Fetching(c))] = Formats!ImagePart(s.mime, <<s>>)]
                             /\ UNCHANGED <<pc, target, attempt, refused, tries, breaker, openings, late>>
         [] got = "Transport" -> Transient(c) /\ copy' = [copy EXCEPT ![c] = <<>>]
         [] got = "Invalid" -> Refusal(c) /\ copy' = [copy EXCEPT ![c] = <<>>]
  /\ UNCHANGED <<Vendor, knobs, streams, rejected, tokens, decoderVars>>

Request(c) ==
  /\ pc[c] = "prepare" /\ Fetching(c) = {}
  /\ pc' = [pc EXCEPT ![c] = "sent"]
  /\ late' = [late EXCEPT ![P(c)] = IF breaker[P(c)].state = "open" THEN @ + 1 ELSE @]
  /\ UNCHANGED <<Vendor, knobs, streams, target, attempt, copy, refused, tries, rejected, breaker, openings, tokens, decoderVars>>

(* What comes back, and the TakoError each client makes of it. A 2xx body that does     *)
(* not decode exists for chat() only; so does an answer without content.                    *)
Replies == {"ok", "429", "5xx", "4xx", "lost"} \union IF streams THEN {} ELSE {"garbled", "empty"}
IsTransient(e) == e \in {"RateLimited", "Transport", "Provider 5xx"}

OpenAiError(r) ==
  CASE r = "429" -> "RateLimited" [] r = "5xx" -> "Provider 5xx" [] r = "4xx" -> "Provider"
    [] r \in {"lost", "garbled"} -> "Transport" [] r = "empty" -> "Invalid"
AzureError(r) ==  \* with OpenAI's converters and decoder
  CASE r = "429" -> "RateLimited" [] r = "5xx" -> "Provider 5xx" [] r = "4xx" -> "Provider"
    [] r \in {"lost", "garbled"} -> "Transport" [] r = "empty" -> "Invalid"
MistralError(r) ==
  CASE r = "429" -> "RateLimited" [] r = "5xx" -> "Provider 5xx" [] r = "4xx" -> "Provider"
    [] r \in {"lost", "garbled"} -> "Transport" [] r = "empty" -> "Invalid"
VertexError(r) ==
  CASE r = "429" -> "RateLimited" [] r = "5xx" -> "Provider 5xx" [] r = "4xx" -> "Provider"
    [] r \in {"lost", "garbled"} -> "Transport" [] r = "empty" -> "Invalid"
(* An empty answer of these two is one without parts, or with an empty text.                *)
AnthropicError(r) ==
  CASE r = "429" -> "RateLimited" [] r = "5xx" -> "Provider 5xx" [] r = "4xx" -> "Provider"
    [] r \in {"lost", "garbled"} -> "Transport" [] r = "empty" -> "none"
OllamaError(r) ==
  CASE r = "429" -> "RateLimited" [] r = "5xx" -> "Provider 5xx" [] r = "4xx" -> "Provider"
    [] r \in {"lost", "garbled"} -> "Transport" [] r = "empty" -> "none"
(* Errors of the SDK keep no status, so that none of them is transient.                      *)
BedrockError(r) == IF r = "empty" THEN "none" ELSE "Provider"
(* The status is kept, also of 429.                                                          *)
GenericError(r) ==
  CASE r = "5xx" -> "Provider 5xx" [] r \in {"429", "4xx"} -> "Provider"
    [] r \in {"lost", "garbled"} -> "Transport" [] r = "empty" -> "Invalid"
(* What the callable raises, and an answer of another type, is a Provider error.              *)
PythonError(r) == IF r = "empty" THEN "none" ELSE "Provider"

ErrorOf(v, r) ==
  CASE r = "ok" -> "none"
    [] v = "openai" /\ r # "ok" -> OpenAiError(r)
    [] v = "azure" /\ r # "ok" -> AzureError(r)
    [] v = "mistral" /\ r # "ok" -> MistralError(r)
    [] v = "vertex" /\ r # "ok" -> VertexError(r)
    [] v = "anthropic" /\ r # "ok" -> AnthropicError(r)
    [] v = "ollama" /\ r # "ok" -> OllamaError(r)
    [] v = "bedrock" /\ r # "ok" -> BedrockError(r)
    [] v \in {"sse", "ndjson"} /\ r # "ok" -> GenericError(r)
    [] v = "python" /\ r # "ok" -> PythonError(r)
DecoderOf(v) == IF v = "azure" THEN "openai" ELSE v

Replied(c) ==
  /\ pc[c] = "sent"
  /\ \E r \in Replies :
       LET e == ErrorOf(Vendor[P(c)], r) IN
       IF e = "none"
       THEN /\ tries' = [tries EXCEPT ![c][P(c)] = @ + 1] /\ Succeeds(P(c))
            /\ pc' = [pc EXCEPT ![c] = IF streams THEN "reading" ELSE "done"]
            /\ IF streams THEN vendor = None /\ Opens(DecoderOf(Vendor[P(c)])) ELSE UNCHANGED decoderVars
            /\ UNCHANGED <<target, attempt, refused>>
       ELSE /\ IF IsTransient(e) THEN Transient(c) ELSE Refusal(c)
            /\ UNCHANGED decoderVars
  /\ copy' = [copy EXCEPT ![c] = <<>>]
  /\ UNCHANGED <<Vendor, knobs, streams, rejected, tokens>>

(* The connected stream. Nothing of it is retried: its consumer has seen chunks.            *)
Read ==
  /\ \E c \in Callers : pc[c] = "reading"
  /\ DecoderNext /\ UNCHANGED stackVars
Finished(c) ==
  /\ pc[c] = "reading" /\ (line # "up" \/ Consumed)
  /\ pc' = [pc EXCEPT ![c] = IF Consumed THEN "failed" ELSE "done"]
  /\ refused' = [refused EXCEPT ![c] = Consumed]
  /\ UNCHANGED <<Vendor, knobs, streams, target, attempt, copy, tries, rejected, breaker, openings, late, tokens, decoderVars>>

(* A caller goes away: neither breaker nor limiter hears of it.                              *)
Drop(c) ==
  /\ pc[c] \notin Settled \union {"idle"} /\ pc' = [pc EXCEPT ![c] = "dropped"]
  /\ UNCHANGED <<Vendor, knobs, streams, target, attempt, copy, refused, tries, rejected, breaker, openings, late, tokens, decoderVars>>

-----------------------------------------------------------------------------
Call(c) == Begin(c) \/ Acquire(c) \/ Enter(c) \/ Wake(c) \/ Fetch(c) \/ Request(c) \/ Replied(c) \/ Finished(c)
Next == Read \/ \E c \in Callers : Call(c) \/ Drop(c)
Clocks == \E p \in Provider : Cools(p) \/ Refills(p)
Spec ==
  /\ Init /\ [][Next \/ Clocks]_vars
  /\ \A c \in Callers : WF_vars(Call(c))
  /\ WF_vars(Read /\ Decode) /\ \A p \in Provider : WF_vars(Refills(p))

-----------------------------------------------------------------------------
(* Properties *)

TypeOK ==
  /\ Vendor \in Deployments
  /\ \A c \in Callers :
       /\ pc[c] \in {"idle", "limit", "gate", "prepare", "pause", "sent", "reading"} \union Settled
       /\ target[c] \in DOMAIN Chain /\ attempt[c] \in 0 .. MaxAttempts - 1
       /\ Len(copy[c]) \in {0, ImagesOf(c) + 1}
       /\ \A p \in Provider : tries[c][p] \in 0 .. MaxAttempts
  /\ \A p \in Provider : breaker[p].state \in {"closed", "open", "half-open"}

(* An error that is not transient ends the call through all layers: no retry, no fallback  *)
(* (retry.rs:43, fallback.rs:56-66).                                                         *)
RefusalEnds == \A c \in Callers : refused[c] => pc[c] \in {"failed", "dropped"}

(* A call that fails for want of a provider has tried each one as often as it may, or found *)
(* its breaker open; one that was refused by a provider tried those before it.               *)
FailsAfterAll == \A c \in Callers :
  pc[c] = "failed" => \A n \in DOMAIN Chain :
    n < target[c] \/ ~refused[c] => tries[c][Chain[n]] = MaxAttempts \/ Chain[n] \in rejected[c]

(* The retries lie inside the breaker: a series it let in goes on after it has opened. What  *)
(* still reaches a provider whose breaker is open is at most a series of every caller but    *)
(* the one whose failure opened it (breaker.rs:68-81, retry.rs:40-60).                        *)
LateRequestsBounded == \A p \in Provider : late[p] <= (Cardinality(Callers) - 1) * MaxAttempts

(* A call fails for a reason, after what could be tried was, and no provider is asked more    *)
(* often than that takes (fallback.rs:50-93, breaker.rs:64-80, retry.rs:33-61).                *)
FailsRightly == TypeOK /\ RefusalEnds /\ FailsAfterAll /\ LateRequestsBounded

(* An image comes by a URL that the provider was told it may use: of a scheme that is         *)
(* admitted, its host at no address inside, unless that or the host is listed, whichever other  *)
(* addresses it has; and so is every host that it is redirected to by name                      *)
(* (bedrock/src/url_prefetch.rs:29, 335).                                                       *)
FetchedAllowed == \A c \in Callers : \A part \in Range(copy[c]) : part.is = "image" =>
  LET s == part.data[1]
      opts == Opts(P(c))
  IN  /\ s.scheme = "https" \/ opts.http
      /\ \A hop \in {s} \union {h \in Range(s.next) : ~h.literal} :
           opts.private \/ AllowsHost(opts, hop.host)
             \/ \A ip \in hop.ips \intersect Inside : AllowsIp(opts, ip)

(* A provider built to fetch images is never asked without them, through every retry, and one *)
(* that is not drops them (bedrock/src/client.rs:239, url_prefetch.rs:100).                     *)
ImagesSent == \A c \in Callers : pc[c] = "sent" /\ Vendor[P(c)] \in Fetchers =>
  LET asked == <<Formats!Message("user", copy[c])>>
      blocks == Formats!BrRequest(asked).messages[1].content
      sent == IF Vendor[P(c)] = "ollama" THEN Len(Formats!OlRequest(asked)[1].images)
              ELSE Cardinality({n \in DOMAIN blocks : blocks[n].is = "image"})
  IN  sent = IF Opts(P(c)).enabled THEN ImagesOf(c) ELSE 0

(* A provider is sent all the images of a request, and none by a URL it may not fetch.        *)
ImagesRight == FetchedAllowed /\ ImagesSent

(* No call, once begun, hangs in the layers, if vendors answer and limiters refill.            *)
CallsEnd == \A c \in Callers : pc[c] # "idle" ~> pc[c] \in Settled
=============================================================================
