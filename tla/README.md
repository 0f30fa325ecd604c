# A TLA+ model of tako-ai-core

tako-ai-core is a Rust workspace for orchestrating language-model calls:
providers behind a common trait, orchestrators that combine them, a runtime
with budgets and retries, an MCP client for tools, an OpenAI-compatible server
with pluggable authentication, and governance (policy, PII, audit, sigstore).
This directory holds a specification of it, the TLC configurations that check
it on small instances, and proofs, checked by TLAPS, of what holds for every
size.

    tlc -config MCBudget_caps.cfg MCBudget.tla      # model-check one run
    tlapm BudgetProofs.tla                          # check the proofs of one module

`PROJECT.json` lists the components, the runs with their properties, the code
lines each definition stands for, and the hazards the properties are aimed at.

## 1. The system

| Part | State it keeps | Operations | Interacts with |
|---|---|---|---|
| Budget (`tako-runtime/budget*.rs`) | per tenant, and with Redis per day: spend and tokens | `pre_check`, `record` | every orchestrator, around every provider call |
| Conductor (`tako-orchestrator/conductor.rs`) | transcript, semaphore, one channel per streamed turn | `run`, `stream` | providers, budget, verifier |
| SingleAgent, Trinity (`single.rs`, `trinity.rs`) | message list, step counter | `run`, `stream` | router, providers, tools, policy, budget |
| AB-MCTS (`ab_mcts.rs`) | search tree with Beta posteriors | `run`, `stream` | router, providers, tools, verifier |
| SelfCaller (`self_caller.rs`) | rounds and accumulated text; the judge's call counter | `run`, `stream` | any orchestrator, a judge |
| Routers (`router.rs`, `features.rs`) | none | `route` | the loops above, once per step |
| Reliability (`retry.rs`, `breaker.rs`, `fallback.rs`, `limiter.rs`) | breaker state, limiter tokens | `chat`, `stream` | providers |
| Providers, stream decoders, URL prefetch (`tako-providers/`) | decoder buffers, a copy of the request | `chat`, `stream` | vendor APIs, image servers |
| MCP transports (`tako-mcp/transport/`) | next id, table of pending requests, the writer, a reader task | `request`, `notify`, `notifications`, `close` | MCP servers |
| MCP client (`registry.rs`, `lifecycle.rs`) | tools by name behind a read-write lock | `register_*`, `discover`, `invoke`, `schemas`, `handshake` | transports, agents |
| OIDC resolver (`auth/oidc.rs`) | JWKS cache, introspection configuration, mTLS client | `discover`, `with_*`, `resolve`, `introspect`, `reload_mtls_identity` | issuer |
| mTLS rotation (`auth/oidc_mtls_*.rs`) | event channel, debounce, trigger channel, the installed client | watcher and provider tasks, `force_refresh` | the OIDC resolver, the file system |
| Vault, JWT and static resolvers, chained auth (`auth/vault*.rs`, `jwt.rs`, `static_tokens.rs`, `chained.rs`) | principal, client and lease caches | `resolve` | Vault, other resolvers |
| Compat server (`routes.rs`, `sse.rs`) | none across requests | `chat_completions`, streaming | auth, orchestrators |
| Sigstore (`tako-governance/sigstore*.rs`) | last seen tree size, in a file or Redis | `verify_bundle`, `load`, `save`, `seed`, `persist` | Rekor, Python bindings |
| Policy, PII, OTel, secrets | compiled policies, caches of clients | `evaluate`, `redact`, `get` | agents |
| Core types, Python bindings | none | conversions | everything |

What is hard in them, and what makes each correct:

* **Budget.** `pre_check` and `record` are two awaits with a provider call in
  between. Any number of callers act in between, midnight may change the key,
  and the backend may fail before or after its script has run. It is correct if
  the race costs no more than it must, and single requests over a cap are
  always refused.
* **Conductor.** Workers run under one semaphore shared by all turns, time out,
  fail, panic and are dropped with the run. Their events interleave in a channel
  of 64 slots on which they may block while holding a permit. It is correct
  if permits are conserved, a turn folds one outcome per dispatched worker under
  the right number, no worker outlives its turn unseen, and everything ends.
* **The tool-call loop.** Six functions contain a copy of it. The message list
  must stay a legal alternation of calls and results, fragments of several calls
  are assembled from one stream, a stream that does not start is replaced by a
  plain call, and the loop must end although the model never stops calling tools.
  What is recorded with the budget is what was answered, once.
* **AB-MCTS.** The tree, the path and the posteriors change over three awaits per
  iteration; a verifier may return NaN; rollouts hand their events over a
  bounded channel that the same task drains.
* **SelfCaller and server.** Streams are nested, and each layer may end the one
  below early or begin it again; a stream whose first item is an error is run a
  second time. The client must see each text once and one terminator.
* **Reliability.** Retry, breaker and fallback nest: which failures are repeated,
  counted and passed on, and how often a provider is asked.
* **Providers.** Every vendor cuts an answer into frames in its own way, breaks
  off in its own way, and wants calls and results in its own order, while a
  router or a fallback may change the vendor in the middle of a conversation.
  Images are fetched from hosts that may have more than one address.
* **MCP transports and registry.** Concurrent requests share one writer and one
  reader. Answers come in any order, twice, or never; a request may be dropped
  at each await; the reader may exit first. Correct means that answers
  reach the request they belong to, tables and locks are left clean, and nobody
  waits for ever. `invoke` holds the registry's read lock while its tool runs.
* **mTLS rotation.** Two files are replaced one after the other while a task
  debounces change events, reads the files, and serves refresh requests of
  failing POSTs. Correct means that the last identity ends up installed, that a refresh
  reported as successful is fresh, and a call sends at most two POSTs.
* **OIDC, Vault, chained auth.** Caches are read, refreshed concurrently and
  must not outlive their validity; nobody whose token is good is refused
  because of a refresh; the policies of a chain decide what a failure means; and
  a resolver can be built by a dozen calls in any order.
* **Sigstore.** The tree size never goes back, through crashes between
  write and rename, concurrent writers and concurrent verifications. The walk up
  an inclusion proof and along a certificate chain has edges where one step too
  many accepts what is not in the log.

## 2. What is modelled

| Module | Models | Source |
|---|---|---|
| `Budget` | `BudgetTracker` over both backends and its callers | `budget.rs`, `budget_redis.rs` |
| `ForkJoin` | what `Conductor` promises, without workers, permits or channels | abstract |
| `Conductor` | `Conductor::run` and `::stream`; refines `ForkJoin` | `conductor.rs` |
| `OrchStream` | what every orchestrator promises to whoever polls its events | abstract, `types.rs` |
| `MessageFormats` | messages, and the request and answer converters of six vendors | `tako-core/types.rs`, `*/convert.rs` |
| `Routers` | features, regex and ONNX router | `router.rs`, `features.rs` |
| `AgentLoop` | the tool-call loop of SingleAgent and Trinity; refines `OrchStream` | `single.rs`, `trinity.rs` |
| `Conversations` | what each vendor is sent for the loop's message list | `*/convert.rs` |
| `AbMcts` | the search around the loop's rollouts; refines `OrchStream` | `ab_mcts.rs` |
| `Serve` | the handler over nested SelfCallers over any `OrchStream` | `routes.rs`, `sse.rs`, `self_caller.rs` |
| `StreamDecoder` | frames to chunks, for nine formats | `*/stream.rs`, `http-generic`, `py_python_provider.rs` |
| `UrlPrefetch` | the fetching of images, and what may be fetched | `*/url_prefetch.rs` |
| `ProviderStack` | limiter, breaker, retry and fallback over the clients | `tako-runtime/`, `*/client.rs` |
| `McpTransport` | one connection, over stdio, WebSocket, gRPC or HTTP | `transport/*.rs` |
| `ToolRegistry` | the registry and its lock over one `McpTransport` | `registry.rs` |
| `MtlsRotation` | writer, watcher or provider loop, hook, introspection with its retry | `auth/oidc_mtls_*.rs`, `auth/oidc.rs` |
| `OidcBuilder` | discovery, the builder's calls, the reload | `auth/oidc.rs` |
| `AuthChain` | the chain with its resolvers and their caches | `auth/*.rs` |
| `MerkleProof`, `TrustChain` | inclusion proofs and certificate chains, beside their definitions | `sigstore.rs` |
| `RekorAnchor` | `verify_bundle`, the anchor and its stores | `sigstore*.rs`, `py_sigstore.rs` |
| `MC*` | constants of the runs | |
| `BudgetProofs`, `ConductorProofs`, `LoopProofs`, `StackProofs`, `RegistryProofs`, `MtlsProofs`, `CompatProofs`, `RekorProofs` | the theorems | |

How they compose:

    MessageFormats <- Routers <- AgentLoop <- Conversations        (MCAgentLoop)
                                 AgentLoop <- AbMcts               (MCAbMcts)
    StreamDecoder, UrlPrefetch <- ProviderStack                    (MCProviderStack, with MessageFormats)
    McpTransport <- ToolRegistry                                   (MCToolRegistry)
    OidcBuilder <- AuthChain                                       (MCAuthChain)
    MerkleProof, TrustChain <- RekorAnchor                         (MCRekorAnchor)
    OrchStream: implemented by AgentLoop and AbMcts, relied on by Serve
    ForkJoin:   implemented by Conductor

### Budget

A caller is `idle`, then `checking` (the key is computed, the usage not yet
read), `inflight` (checked, the provider call is running), then `idle` again or
`refused`. `Request` is the part of `pre_check` before the backend is awaited,
with the per-request caps of money and of tokens; `Admit` and `Refuse` are the read and the comparison;
`CheckLost` is a Redis error. `Record` is the script that adds the estimate;
`RecordLost` is an error of it, after or before it has run; `ProviderFails` leaves
without a record. `NextDay` is midnight UTC: `usd` is a function of the day, and
`KeyPerDay` chooses between the Redis key, which has the date, and the in-memory
map, which has not. Money is in indivisible units; the rounding of `f64` is not
modelled, nor a midnight between the key and the script of one `record()`.

### Conductor

`phase` is where the orchestrator's future is: asking the coordinator
(`turn`), collecting workers (`collect`), folding their results (`fold`), or at one of
its ends. `Turn` is one coordinator call with its five outcomes. Each branch of
the plan has a worker state `w[b]`: `queued` (waiting for a permit), `admitted`
(before its `pre_check`), one of the calling states, `reporting` (holding `Done`
for the channel), `finished` or `panicked`. The actions of a worker are the
awaits of `run_one_worker` and `run_one_worker_streaming`; `Timeout` is
`timeout(worker_timeout, ..)` firing at any of the awaits it covers, and none of
those it does not (the connection of a streaming provider). `Panic` unwinds
the task, which returns the permit and posts no `Done`. `RecvDelta`,
`RecvDone` and `Joined` are the collecting loop of `stream()`; `Show` and
`Fold` are the rest of the turn. `Drop` is the consumer dropping the run:
detached workers go on by themselves under `stream()`.

### AgentLoop, Routers, Conversations, AbMcts

One behaviour of `AgentLoop` is one run of one orchestrator: `kind` and `mode` say
which of the functions that hold a copy of the loop it is, and `SingleRun`,
`SingleStream`, `TrinityRun`, `TrinityStream` (and, in `AbMcts`,
`RolloutStatic` and `RolloutStreaming`) say which steps each of them has. `pc` is what
is awaited; `Drop` may follow at each. What the model means to answer, `reply`,
is chosen when the call is made and tells the loop nothing: deltas of it arrive in
any order that keeps each call's fragments in theirs, and the stream may break or
be cut at each. `asst` and `text` are what the loop assembles of it, `shown` is
what the consumer saw. `charged`, `booked` and `restarts` count provider calls, records
and streams that did not start.

`Routers` keeps of a prompt which of the built-in rules it fires, and of an ONNX
model its logits, NaN among them. `Conversations` adds no step: in each state
before a call it retells the message list as if each turn had been
answered by some vendor, `Wire` being the vendor's JSON and `Read` its
converter, and asks what any vendor would be sent. Converters are operators of
`MessageFormats`; a string put together of parts is the sequence of them.

`AbMcts` keeps the arena `nodes` with posteriors and conversations, the `path` and
the best leaf. `Descend`, `Expand`, the steps of the rollout and `Verify` are
the awaits of one iteration, at which a search that is dropped simply stops.
Thompson sampling draws from distributions of full support, so any child
may win. Scores are multiples of 1/`One`; `NaN` is a number below all others for
which `Beats` is false and `Clamp` the identity, as in the code. Under `stream()` a
rollout's events pass a channel of one slot, which `Yield` drains.

### Serve

Layer 0 is the handler, layers 1 and 2 SelfCallers, the last one an
orchestrator of which only `OrchStream` is known (or a foreign one, which may
end without a word). The final text of one that loops over steps (SingleAgent,
Trinity) is the text of its last step; that of one that composes its answer (Conductor's
`final_answer`, AB-MCTS's best leaf) may be any, and so may a foreign one's. All are polled by one task, so an event goes up through
all layers in one step; what a layer does after its `yield`, asking the judge about
a partial text, is a step of its own, from the outermost inwards. `wire` counts
frames by kind. The judge's counter is shared by all streams.

### StreamDecoder, UrlPrefetch, ProviderStack

`StreamDecoder` has an answer (texts, calls, and why it ended), cut into frames
as its vendor cuts it, the bookkeeping of the decoder (`tools`, `finish`) and the
chunks yielded. Each decoder handles a frame in one step; frames may be spoiled,
missing, or followed by the end of the connection at each point.
`UrlPrefetch` is operators: the builder's knobs, the checks of scheme, host and
address in their order, the chain of hosts a URL redirects to (`next`), sizes and media
types. The scheme and a literal address are looked at in the first URL alone; a name is
looked at by the resolver at each hop. Of an address it keeps the parts that ranges look at.

In `ProviderStack` a caller walks the chain: `Acquire` is the limiter,
`Enter` the breaker's gate, `Fetch` one image of this attempt's copy of the
request, `Request` and `Replied` the HTTP exchange, `Transient` and `Refusal` what
becomes of an error in retry, breaker and fallback, and `Wake` the end of a pause.
`Replied` names for each client which replies become which error. A stream that
has connected is handed to `StreamDecoder`. The state machine of the breaker
(failsafe) and the clock of the limiter (governor) are external.

### McpTransport and ToolRegistry

Frames carry ids only. `Begin` takes the id and registers the sender;
`LockWriter`, `Write` and the failures are the section under the writer's
mutex; `Cancel` drops the future at any await. A write that is cut off on stdio
may leave part of a line, which `torn` remembers: the next frame completes it
and the server receives no JSON. `Read` and `ReaderExits` are the reader task,
`CloseWriter` and `CloseRest` are `close()`, in two steps as it awaits in
between. The server is external: it answers in any order, repeats itself, makes
up ids, closes its output, or exits with what it had sent. Over HTTP a request
is a POST of its own (`PostAnswered`, `PostFails`) whose answer may carry any id, and `sse` is the one reader of
the notifications, from the first subscriber (`Subscribe`) through its GET
(`SseOpens`) to its end.
`ToolRegistry` adds tokio's fair lock as a queue: readers are granted in order
and a waiting writer stops the readers behind it. Each of its callers makes one
call at a time, and its MCP calls are requests of `McpTransport`.
`schemas()` takes and releases the read lock at once and is left out.

### MtlsRotation

`want` is the version being rolled out and `file` what the two files hold; 0 is a
file that is absent or incomplete. `Notify` is the callback with its
`try_send`. The loop is in `select` or in a reload, whose first step reads the
certificate and whose last reads the key, builds a client and swaps it; for the
provider the same two steps are the beginning and the end of `fetch()`. The
biased order of `select!` is in the guards: triggers first, then events, and
the debounce only with an empty channel. Callers follow `introspect()`:
`posting`, `sending` (waiting for room in the trigger channel), `waiting` (for
the reply, under the timeout), `replied`, `retrying`. That a certificate and the
key of another version do not make a client is a property of the TLS library
(rustls compares the two) and is taken from there.

### OidcBuilder and AuthChain

`OidcBuilder` is operators on a resolver under construction: what discovery leaves
and what each `with_...` call does to it, silently nothing where it has no
introspection configuration. In `AuthChain` they are the actions of the setup:
`Discovery`, `Configure` (any builder call, any number of times), `Negotiate`,
and `Serve`, after which calls begin and only `ReloadIdentity` changes the
resolver.

A call walks the children of its chain. For OIDC: the JWKS read under the lock,
the refresh while the lock is held for writing (`LockCache`, `JwksAnswered`,
`JwksArrives` or `JwksFails`), one forced refresh for an unknown key id or a signature that
does not match, then the introspection with its one retry after a reload.
For Vault: the principal cache, the lease, the login, the client, the
read, the insertion. Around them the world moves: keys rotate, entries change,
tokens are revoked, the operator replaces the identity, `Tick` lets time pass, but
not beyond the timeout of a request under way: the OIDC client and the client that logs in
have one. The `VaultClient` is built without (`vault.rs:217`), so a read (`Reading`) may take
any time or never end (`ReadEnds` is no part of `Step`); `took` remembers how long it was.
`retired` and `gone` remember when what was true ceased to be.

### RekorAnchor, MerkleProof, TrustChain

A thread runs `verify_bundle`: all checks that need only the bundle are one
step, as no other thread can tell; then each turn of the compare-exchange loop is
one, and the parsing of the catalogue, which comes last, another. A replica
is `down`, `loading` (the store was read, the verifier not yet in use) or `up`.
A file belongs to one process, as the trait says ("single-process"), any thread of which may
persist; `raced` remembers that two of them did at once. Redis serves several processes.
`Save` may fail before or after the store has taken the number; `Crash` may fall
between any two steps. Of the bundle's dates, names and signatures only whether each
holds is kept. `MerkleProof` has the tree and the audit paths of RFC 6962 beside
the code's climb, whose loop over a right edge is `RightEdge`; `TrustChain` has the
set of all paths from leaf to root beside the code's walk, of which `Hop` is one
turn and `Issuer` its three `find()`s. A hash is the tuple of what was hashed: that
SHA-256 has no collisions is taken from there.

## 3. The runs

| Run | Instance | Shows |
|---|---|---|
| `budget_caps` | 3 callers, 2 tenants, costs 1 to 3, cap 2 per request, 3 per day, 2 for one tenant, 2 days, symmetric callers | the overrun of a cap is bounded by one estimate per other caller; a request that exceeds a cap by itself never passes |
| `conductor_all` | 3 workers at most, 2 permits, 2 turns, a channel of 1, cap 4, both modes, panics in both, fairness | permits, quiet turns, bounded overrun, `Done` last, attribution, `ForkJoin` is implemented, and the run, its workers and permits come to rest |
| `agent_all` | 3 steps, 2 providers of which one streams, 4 routers, 3 roles, answers of up to 2 texts and 2 calls of two fragments | conversations that are sent are answered; what is assembled is what was said, nothing invented when the stream is cut; texts shown once, answers recorded once; what vendors are sent is legal, names and ids resolve, an answer echoes; `OrchStream` is implemented; the loop ends |
| `agent_results` | 2 steps, `run()` and `stream()` of SingleAgent | *violated*: of two results in a message OpenAI gets both |
| `mcts_all` | 3 rollouts of 2 steps, branching 2, scores from below 0 to above 1 and NaN, a channel of 1 | posteriors tell of the leaves below, the tree is one, the best leaf is the best, everything a rollout said is yielded, `OrchStream` is implemented, the search ends |
| `serve_all` | 2 nested SelfCallers, one judged and one by rules, 3 texts, 2 steps, a tool call, an orchestrator that loops, one that composes and a foreign one | one terminator and nothing behind it; a second run is never seen and only made where the first showed nothing; rounds bounded; the answer of a loop is on the wire when the closing chunk comes; the request ends |
| `provider_all` | 2 callers, a chain of 2 over 6 pairings of vendors, 2 attempts, threshold 1, 2 openings, one image, 24 kinds of sites, answers of up to 2 calls | refusals end a call; a call fails only after all it may try; late requests to an open provider bounded; streams end once, calls are attributable and whole, a cut shows; no address inside is fetched by name, redirections included, and images are not lost; calls end |
| `registry_all` | 2 callers, 2 registry calls, 2 requests, 4 transports, one-slot buffers, fairness | answers match, no answer lost, clean tables and locks, one reader of notifications, stable entries, every call ends unless a request has become unanswerable |
| `registry_hang` | 1 caller | *violated*: a request that cannot be answered any more fails |
| `mtls_all` | 2 callers, 3 versions, 1 unrelated event, an event channel of 1, both tasks, fairness | fresh refreshes, expected replies, no step back, convergence, calls end |
| `auth_all` | 2 calls, 1 key id with 2 generations, 4 chains of up to 4 resolvers with policies of the chain and of its children, every OIDC resolver the builder can make, clock to 3, fairness | how old the keys, principals and tokens a call relies on may be; nobody is refused without cause; a negotiated method works, trust is kept; the rest of the chain serves and outages are told; calls end whose reads Vault answers |
| `anchor_all` | 2 threads on 1 or 2 replicas, a file or Redis, sizes 1 to 3, 1 crash; every proof of logs of up to 5 leaves, whole and with one thing wrong; chains of up to 2 of 9 certificates | no rollback, nothing saved is lost but where saves to a file race, no save begins that could put a file back, seeding first; proofs and chains judged as their definitions say; the loop ends |

Most properties of the runs are conjunctions of named parts, each stated and
commented where it is defined; TLC checks every part, and names the whole:

| Property | Its parts |
|---|---|
| `WorkersContained`, `ResultsInPlace` (Conductor) | `PermitsConserved`, `QuietBetweenTurns`; types, `DoneIsLast`, `Attributed` |
| `AnswerTakenOver` (AgentLoop) | types, `AssemblyExact`, `NothingInvented`, `ShownIsSaid`, `BookedOnce`, `UnrecordedBounded` |
| `SentRight` (Conversations) | `BlocksLegal`, `NamesResolved`, `EchoExact`, `OneResultDelivered` |
| `TreeTells`, `RolloutsHeard` (AbMcts) | types, `PosteriorsAgree`, `TreeGrows`, `BestIsBest`; `OwnTurnsAnswered`, `AllYielded` |
| `OneEnd`, `SeenOnce` (Serve) | `EndsOnce`, `WireEnds`; types, `SecondRunHidden`, `RunsBounded`, `AnswerShown` |
| `FailsRightly`, `ImagesRight` (ProviderStack) | types, `RefusalEnds`, `FailsAfterAll`, `LateRequestsBounded`; `FetchedAllowed`, `ImagesSent` |
| `ChunksFaithful` (StreamDecoder) | `EndsOnce`, `Attributable`, `WholeAnswer`, `CutShows` |
| `Delivery` (McpTransport) | `AnswersMatch`, `NoAnswerLost` |
| `NothingLeaks` (ToolRegistry) | types, `WriterHeld`, `NothingLeftBehind`, `LockHeld` |
| `Settles` (MtlsRotation) | `Converges`, `CallsEnd` |
| `NothingStale`, `RefusedRightly`, `BuiltRight` (AuthChain) | types, `KeysFresh`, `PrincipalsFresh`, `TokensLive`; `RefusedForCause`, `TailServes`, `OutageTold`; `NegotiatedWorks`, `TrustKept` |
| `StoreTrusted`, `BundlesJudged` (RekorAnchor) | `SavedIsKept`, `FileFollows`, `SeededFirst`; types, `InclusionRight`, `ChainSound`, `ChainFound` |

**Why the bounds are enough.** The hazards need two actors and one that gets in
the way. Budget overruns need two callers past the same check; the third
tells a bound that counts callers from a constant. A worker waiting for a permit
and one blocked on a full channel need more workers than permits and a
channel smaller than the number of events; 64 slots and 128 events differ from one in
how long it takes to fill them. Two turns are enough for a worker of an
earlier turn to be seen by a later one. Three steps of the loop are a turn that
follows an answered one, and one that is cut by the cap. Two calls of two fragments
interleave in every way two can. Three rollouts fill a node of two children and descend
below it. Two SelfCallers are one that reads another and one that is read. Two
attempts and a threshold of one give a series that goes on inside an open
breaker. Two requests suffice for answers to be exchanged, and with two ids a
made-up answer can name a request before or after it exists. Three versions
give two rotations, the second of which may begin before the first was read. With an
interval and a lifetime of two, a timeout of one and a clock to three, a value can
be fetched, become false and expire, while a request is under way. Logs of up to five leaves
have an uneven right edge at one and at two levels.

Numbers that only count are capped by guards: `Days`, `MaxPlan`, `MaxDeltas`,
`MaxSteps` (a constant of the code), `MaxText`, `MaxTexts`, `MaxCalls`, `MaxTools`,
`MaxOpenings`, `MaxId`, `MaxJobs`, `MaxInbox`, `MaxVersion`, `MaxNoise`, `MaxTime`,
`MaxGen`, `MaxCrashes`. Three cuts are in guards with a comment: bundles of `Odd` are
looked at by one thread while nothing else goes on; a JWT that no child of the chain
can read is left out, as it fares like a listed token; and only one call at a time is made to an OIDC
resolver that does not introspect with a secret. Where a model may stop (no further job,
turn, run or request), deadlock checking is off; it is on for Budget and
MtlsRotation, whose callers may always begin again.

**Fairness.** The specifications assume what tokio gives: a task that can run
runs and a timer fires (weak fairness of each worker's and each caller's steps,
of the loops and of the reader). Beyond that:

* Conductor: the coordinator answers or fails, and the consumer of a stream polls
  it until it is dropped. That a streaming provider connects is a separate
  assumption, `ProvidersConnect`: `worker_timeout` does not cover it.
* AgentLoop, AbMcts, Serve: one task each; whatever it awaits (a provider,
  a tool, a verifier, the leaf) returns or fails. Nobody is made to drop a run.
* ProviderStack: a call's own steps, which include the reply of a vendor, one way or
  another; the decoder, once there is a frame; and the refill of a limiter. Breakers
  need not cool: a rejected call fails.
* ToolRegistry: native tools return; a server that is up goes on reading and,
  by strong fairness as other actions fill its output in between, answering; one
  whose connection was closed ends it. Nothing makes a server exit otherwise, or
  callers start.
* MtlsRotation: a POST ends within the client's timeout, and whoever has begun to replace
  the files finishes. That the operator's `fetch()` returns, and not for ever with an
  error, is a separate assumption, `ProviderFetches`.
* AuthChain: a call's steps, which include the end of a request to the issuer and of a login to
  Vault, as those HTTP clients are built with a timeout. Nothing ends a read of Vault, whose
  client has none: `CallsEnd` supposes the answer for the call in question, and lets
  others wait for ever.
* RekorAnchor: the steps of a verification, nothing of stores, crashes or boots.

## 4. What is proved

All proofs are for any values of the constants that satisfy the named
assumptions of the modules.

* **Budget** (`BudgetProofs`): types, `AdmittedFits` and `OvershootBounded`. The
  bound alone is not inductive: it says nothing of calls that have been checked and not
  recorded. The invariant adds `PendingBounded`: while calls that may still be
  booked under a cap are pending, one of them exists such that booking it and
  the largest estimate for each of the others stays within the bound. It is
  established by the last check that passed, kept when a pending call leaves
  (`PendingLeaves`), and weakened by no midnight, as every pending
  call of yesterday is counted against an empty key (`NothingFromTomorrow`).
  With one caller the bound is the cap itself: `SequentialCapsHold`.
* **Conductor** (`ConductorProofs`): `WorkersContained` (permits and quiet turns)
  and `OvershootBounded`. `WorkerEffect` reduces every worker step to what it does to
  permits, holders and running calls, so that the invariant (types, permits, quiet,
  calls bounded) is checked against few cases; `CallsBounded` holds as every
  call that has passed its check owns a permit. `ResultsInPlace` needs more
  (`Whole`): `Done` is a worker's last message and is in the channel or was received
  exactly if the worker has finished (`Tasks`, `DoneIsLast`, `Heard`), and slots are filled for
  what was received (`Slots`). That the results then stand in the order of the plan is
  arithmetic of ranks: the k-th kept branch is the one with k kept branches up to it
  (`RanksAreNumbers`). From `Whole` follows the refinement, one step
  at a time: `ForksAndJoins`.
* **AgentLoop** (`LoopProofs`): `AnsweredBeforeSent`, `AnswerTakenOver`, and
  that every run shows a stream of `OrchStream`, for any cap, pool, roles, ids and
  texts. `LoopInv` says of the answer that is coming in that per call its fragments
  are a prefix (`Heard`; `Assembled` then computes what `AssembleToolCalls` makes of any
  interleaving of prefixes, by ranks again), of tools that as many are answered as `ti`
  says (`Turned`, `Invoked`), of money that what is charged and not booked is the step's
  own (`Paid`), and of the list that it is a first text and then turns, each one answer with
  the results of its calls, the last of them perhaps open (`Listed`, `Recorded`). A list of
  that shape has one text of the user, its first, so a built-in router never changes its mind
  within a run (`RoutesStick`, which no run repeats).
* **Conversations** (`LoopProofs` too): `SentRight`, for a list of any length, any answers of any of the
  vendors and any number of calls. That a list alternates needs one more invariant, as an answer without
  calls ends the run and never stays in it (`Filled`). Every vendor's answer is read as its text, if
  there is one, and then its calls in their order (`ReadIs`), so the retold list has one shape, whoever spoke (`TellsAs`);
  about that shape the rest is shown format by format: messages go out one for one (`BlocksSent`), results
  follow their calls under their ids (`MatchedIds`), an id found among all calls is that of a call
  of the same name, unless Ollama has counted from 0 twice (`IdsName`), and what a vendor said
  comes back to it (`Echoes`). Flattening is what any function is that joins piece by piece
  (`FlattenIs`), and a selection that is a run of places is that run (`TakenFrom`).
* **AbMcts** (`LoopProofs` too, as rollouts are the same loop): `RolloutsHeard`, that every
  search shows a stream of `OrchStream`, and `TreeTells`, for any pool, cap, branching, buffer and
  verifier. What a rollout takes over is `Heard` again; its list is that of the selected
  node, grown by turns (`Since`), which is all that can be said, as the node's own last turn
  may be open. The node has room until the leaf is in (`Walked`), a leaf is the last node and a
  child of one (`Grown`), and the channel is empty wherever no rollout runs (`Metered`). The best
  leaf needs `NaN` to be no score and -1 to be below them all (`Leading`). That the posteriors
  agree with the leaves below needs the path: it is the lineage of the selected node (`Weighed`). An
  insertion then changes the lineage of no node there was (`LineageLonger`) and adds its score to the
  sums of exactly the nodes on the path.
* **Serve** (`CompatProofs`): `SeenOnce` and `OneEnd`, for any nesting, depths, judges and
  texts. `ServeInv` says which layer may have control in which of the two modes (`Controlled`), what is
  on the wire before and at each end (`Framed`), that what a layer has accumulated is at most
  what was shown, and all of it while nobody has begun a second round, that a loop's last step has said
  no more than its run and as much in its first step, and so what is passed up was shown (`Shown`), and that the number of
  runs is bounded by the rounds of the layers: layer l has begun at most `MaxDepth[l] + 1` rounds
  for each of the layer above it (`RunsHeld`, with the rounds as a witness `h`), which gives the product.
* **StreamDecoder** (`StackProofs` too): `ChunksFaithful`, for all nine formats, any number of texts and
  calls and any place where the stream ends. `DecInv` relates the chunks to the frames read: as many
  texts as were given (`TextsTold`), for each fragment of a call that came one chunk with its index, and no
  other, in their order (`CallsTold`), what the decoder remembers (`FinishKnown`,
  `ToolsKnown`), and what an end leaves behind (`Ended`). `Outcome` reduces the decoders to what a
  frame adds, so that the invariant is checked against a dozen cases and not nine decoders.
* **ProviderStack** (`StackProofs`): `FailsRightly`, for any callers, chain, vendors
  and thresholds. `Course` follows a call along the chain: what is behind it is exhausted, what is
  before it not asked, its own provider asked as often as its series counts. For
  `LateRequestsBounded` the invariant counts, per provider, the requests that callers inside
  its breaker may still send (`Left`, a set of caller and attempt): while the breaker is
  open, those and the late ones together are at most a series for each caller
  but one. The caller whose failure opens it leaves, which gives the "but one"
  (`Opened`); nobody joins, and a request turns one of `Left` into a late one
  (`RequestKeeps`). And `ImagesRight`: by `AllLaid` a copy of the request is its words
  and then URLs or what was fetched for them, it exists only while the call stays with the provider it
  was fetched for, and is sent when nothing is left to fetch. That a URL was admitted, and every name
  on its way resolved, gives `FetchedAllowed`, where the masks of the code are shown to be the ranges of the addresses inside
  (`InsideIsBlocked`); `ImagesSent` goes through the converters of both vendors (`OllamaImages`,
  `BedrockImages`, `BedrockUrls`), whose flattening is followed piece by piece (`FlattenIs`).
* **McpTransport, ToolRegistry** (`RegistryProofs`): `Delivery`, `NothingLeaks`,
  `EntryStable`. The invariant of the connection gives each call its own id, says which
  table it is in at each station, and that an answer which was read is either taken or
  its call is over; that of the registry says that the readers of the lock are the calls that run
  and the queue holds each waiting one once, in order (`Queued`).
* **MtlsRotation** (`MtlsProofs`): `NeverOlder` and `RefreshedIsFresh`. The
  invariant orders the versions: installed, then what is being read, then what
  is on disk, with 0 exempt; and it follows a refresh from caller to channel to
  reload to snapshot, saying at each station which of those versions is
  already as new as the identity that was complete when the refresh began.
  `RepliesExpected` needs that a caller waits exactly if it is in the channel, among the senders
  or served, and there once (`InTrigger`, `InSenders`, `Orderly`).
* **OidcBuilder, AuthChain** (`CompatProofs` too): `NothingStale`, `RefusedRightly`,
  `BuiltRight`, for any calls, chains, policies, keys, intervals and timeouts. What the
  world says is monotone (`Facts`: what is published is not withdrawn), what a cache
  holds was true when it arrived or as long before as it was under way (`Cached`), and each
  call carries what it saw and when (`CallOK`, by name: `Under`, `Timely`, `Keys`, `Secrets`,
  `Identity`, `Cause`, `Listed`, `Outage`). A signature is then accepted at most an interval and a
  timeout after its key was retired, unless `refresh_interval` is 0; a principal is handed out at most
  `cache_ttl` and the time its read took after its entry changed, for which there is no
  bound; and a read is sent with a Vault token in the first nine tenths of a lease that began at
  most a timeout before it arrived. A refusal
  is traced to its cause: an error without a fault is "invalid", which never halts the chain,
  and the reader of a good token never makes one.
* **RekorAnchor** (`RekorProofs`): `NoRollback`, `StoreTrusted`, and `BundlesJudged` with the types.
  The anchor of a replica is at least what it accepted and what it owes, and what
  a thread read of it is never above it; so the exchange that succeeds
  against the value read compares with the anchor itself. That nothing saved is lost is
  the script's comparison for Redis. For a file it is that its process never holds less than the
  file (`Files`), which crashes keep as booting reads it, so that a save that is alone writes no less
  (`Alone`); two at once may, and then only `Files` is claimed.
  What a thread decided about its bundle is what the checks say (`Judged`).
* **TrustChain, MerkleProof** (for `BundlesJudged`): for any certificates, a walk that ends
  trusted has left a path of certificates that vouch for each other (`TrustIsSound`), and where names
  differ a path is the walk, hop by hop (`TrustIsFound`). For a log of any size, an inclusion proof is
  accepted only for one of its entries (`ClimbStartsInTree`: backwards from the root each hash on the
  way is one of the tree's), and one that states the log's size exactly with its audit path
  (`ClimbIsExact`). That is shown by halving: a tree of n leaves over their hashes is the tree of n/2
  leaves, rounded up, over the hashes of the pairs (`HalvedTree`, `SplitHalved`), its audit paths are
  those with one sibling more, or none at an uneven edge (`HalvedPath`), and a turn of the code's loop
  goes from the one to the other (`FromRight`, `FromLeft`, `FromEdge`).

The trees, walks, lineages, sums and flattened lists are recursive functions. Their values are compared at a least
number, from the well-foundedness of the naturals (`FirstOf`), which needs no theorem with an operator as
its parameter.

Assumed, and evaluated by TLC on every run: there are finitely many callers, and at
least one where a bound counts "all but one", and the addresses inside are in the ranges that
url_prefetch.rs:29 names (`StackAssumption`); pools, chains and role lists
have no repetitions; limits are positive where the code would not start otherwise; decoders are among the
nine that exist (`DecoderAssumption`); what bounds texts and steps is a number (`ServeAssumption`); a file of the
anchor is of one process, a bundle has its six fields, chains and audit paths are finite lists, indices and sizes are naturals, and the root
in a checkpoint is the root of some log (`AnchorAssumption`).

Every invariant, action property and refinement of the passing runs is proved. Only model-checked is
what is temporal under fairness (`Settles`, `LoopEnds`, `SearchEnds`, `Ends`, `JobsEnd`, `CallsEnd`,
`VerifyEnds`), which is out of the prover's reach.

## 5. Where the code differs from what is said of it

Those with a run are findings in `PROJECT.json`:

* An MCP request that is pending when the reader exits is never answered, and
  `invoke` keeps the registry's read lock meanwhile, so the next registration
  and every call behind it wait as well (`registry_hang`; `stdio.rs:101`).
* Of a message with two tool results OpenAI, Mistral and Ollama are sent the last
  (`agent_results`; `openai/src/convert.rs:211`).

The others were met while modelling. They are in the models as the code has
them, and no property claims otherwise.

Budgets and loops:

* `record` is given the estimate, not the cost (`budget.rs:8`, `single.rs:270`).
* Concurrent callers overrun `max_usd_per_day` (`docs/concepts/budgets.md:19`) by
  what `OvershootBounded` says, and the cap is compared with one tenant's usage.
* A call that fails, or a stream that does not start, after the provider began to
  charge is not recorded (`docs/concepts/budgets.md:43`); AB-MCTS asks no budget.
* A chat answer's malformed tool arguments are kept as a string, which is quoted
  twice when echoed, where a stream's become `{}`.
* The routers look at the user's last words, so within one run they never change
  role or provider (theorem `RoutesStick`), nor between branches of AB-MCTS, against
  `docs/concepts/orchestrators.md:69`, `ab_mcts.rs:144` and `trinity.rs:3`.
  `RegexRouter` without a rule takes the last candidate if there are fewer than three
  (`router.rs:24`).
* A leaf of AB-MCTS that is cut at the step cap leaves tool calls open in the
  conversation that later rollouts extend. Its `steps` are the best leaf's, not
  the provider calls of the search (`types.rs:35`).
* Orchestrators put the second part of the provider's id into `ChatRequest.model`
  (`single.rs:248`): a fallback is asked for the primary's model, and a model
  whose name has a colon is cut (`python/tako/providers.py:273`).
* Nested SelfCallers multiply their rounds (`self_caller.rs:11`), and a text that is
  judged early includes those of inner rounds that were rejected, and of all steps so far.
* The text of a `Final` is that of the last step (`single.rs:561`), of the `final_answer`
  that was read out of the streamed JSON (`conductor.rs:655`), or of the best leaf, which need not be the last
  one shown (`ab_mcts.rs:615`): a streaming client has seen more than that, or something else, and
  `AnswerShown` speaks of loops only.
* The server forwards the first text of the last user message alone, and an
  empty prompt if it has none.

Conductor:

* A provider that hangs in `stream()` before its first chunk is not bounded by
  `worker_timeout` (`conductor.rs:8`, `:942`).
* A worker that panics under `stream()` is invisible to `fail_fast`, and shifts
  the ids and branches of the results behind it (`conductor.rs:596`, `:627`,
  `docs/concepts/streaming.md:79`).
* With `fail_fast`, queued workers are still started after an error, because the
  outcomes are looked at when all have ended (`docs/recipes/conductor.md:56`).
* Malformed coordinator output is fed back until `max_steps`, not "for one extra
  turn" (`conductor.rs:59`).
* A worker that streams a delta and then fails has a partial score as its last
  (`traits/verifier.rs:45`); the verifier is called per delta, which
  `conductor.rs:223` denies.
* `short()` slices a text at byte 57, which may be inside a character (`conductor.rs:1094`).

Providers and reliability:

* A cut of Ollama's stream is reported as a regular end, one of Vertex after a call as
  `ToolCalls`; Ollama's calls are read from its last frame only; `http-generic` drops
  tool calls but may report `ToolCalls`; a provider in Python may end without
  `End` or go on after it (`types.rs:250`).
* Two equal calls have one id at Vertex, and ids at Ollama begin again in each turn,
  so that Vertex may later name an earlier result after a later call
  (`NamesResolved` admits one such turn).
* A 429 of `http-generic` and all errors of the Bedrock SDK are not transient; a
  success whose body does not decode is, and is charged again; what is not
  transient counts in the breaker as well. A refusal of the address resolver is a
  transport error, and so is tried again.
* Retries lie inside the breaker and go on after it opened
  (`LateRequestsBounded`). A limiter's burst is its rate, not 1 (`limiter.rs:26`).
* The client that fetches images follows redirections as reqwest does by default
  (`url_prefetch.rs:83`), whereas the scheme and a literal address are looked at in the first URL
  only (`:131`, `:161`) and a literal host does not reach the resolver. `FetchedAllowed` speaks of
  that URL and of the names it is redirected to, not of literal addresses or schemes further on.
* `bedrock/client.rs:75` still says that nothing is done about DNS rebinding.

MCP:

* A cancelled stdio write may leave half a line, after which the next request is
  not valid JSON.
* Over stdio a request that fails leaves its entry in the table of pending requests
  for good (`stdio.rs:118`), where WebSocket and gRPC remove it. It fails there only when the
  server or the writer is gone, which is what `NothingLeftBehind` claims.
* Over HTTP the response of a POST is the answer to it whatever id it carries, and one with neither
  result nor error is the answer null (`streamable_http.rs:231`); `AnswersMatch` claims nothing of it.
* Over HTTP `close()` does not reach a reader that is just taking an event, or whose GET is
  under way; after it ends no other is started; and a session id that the server forgot is sent until a response has
  a new one.

Authentication:

* A full event channel drops the newest event (`oidc_mtls_watcher.rs:64`, `:180`), which a
  reload makes up for only if it comes later.
* The refresh is not capped while the trigger channel is full (`oidc.rs:1027`,
  `oidc_mtls_hook.rs:89`).
* The retry after a reload asks whether there is an mTLS client, not whether the
  method uses it (`oidc.rs:1487`): with an assertion the same one is sent twice.
* Builder calls before `with_introspection` do nothing; calling it again drops the mTLS client,
  while a watcher keeps reloading the old one.
* A Vault token revoked before its lease ends fails every look-up until nine tenths of it;
  an opaque token costs the OIDC resolver a fetch of its keys; every error becomes
  a 401.
* The `VaultClient` has no timeout (`vault.rs:217`): a Vault that does not answer holds the call for
  ever, and a late answer, read long ago, is cached for `cache_ttl` from its arrival.

Sigstore:

* `JsonStateStore::save` replaces the file whatever it holds, against the trait's
  "monotonically non-decreasing" (`sigstore_state.rs:97`), and supports concurrent calls
  (`:202`): of two at once the slower one wins, and after a restart an older checkpoint is
  accepted. `SavedIsKept` claims nothing from then on (`raced`). `SAVE_LUA` compares as doubles.
* The checkpoint's `tree_size` "must match" the proof's (`sigstore.rs:279`), and is not compared with it
  (`:630`): only the roots are. Where they differ the entry is in the tree, but perhaps
  not at its index, and `InclusionRight` claims no more.
* The anchor has advanced before the catalogue is parsed; `set_rekor_min_tree_size` is
  a plain store; a bundle in protobuf form loses its checkpoint; the chain walk takes the first issuer
  of the right name and never another (`ChainFound` asks for different names).

## 6. What is not modelled, and the plan

Not modelled, for good:

* Policy, PII, OTel and secrets: each evaluates one request by a library (regorus,
  regular expressions, cloud SDKs), and shares nothing between requests but an
  append-only audit log.
* What bytes mean: signatures, certificate parsing, JSON field by field, the
  framing of JSON-RPC and of event streams (a frame is whole, spoiled or missing),
  usage and cost figures, model parameters, prompts and texts.
* Python bindings but for the anchor and the Python provider: conversions between
  objects of two languages.
* The MCP handshake, one request and one notification in sequence, and `schemas()`,
  which reads and clones; the server's listening socket and `models()`;
  `CatalogueVerifier`, which has one key and no state; logout URLs.

No module declares a RECURSIVE operator, so that each can be proved about.

Worth modelling further: an abstract request/response channel (each request gets its
answer at most once) implemented by the transports, a monotone register
implemented by `RekorAnchor`, and two agents over one `ToolRegistry`.
