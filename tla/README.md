# A TLA+ development of blackcat-darkmesh-gateway

The gateway is a Node HTTP service between browsers, payment providers, AO (a
remote, replicated source of policy and site data) and a Cloudflare worker that
holds the secrets. Nothing it keeps is in a database: its state is a handful of
JavaScript `Map`s and one checkpoint file. One thread runs the code, so a
stretch without an `await` is atomic; everything hard happens across awaits, in
what the maps forget, and at restarts. Two Cloudflare workers, `async-worker`
and `secrets-worker`, keep their state in an eventually consistent KV store and
in Durable Objects.

Paths below are relative to the repository.

## Inventory

| component | source | state | operations | what makes it hard | what makes it correct |
|---|---|---|---|---|---|
| response cache | `src/cache.ts` | `store`, `subjects`, `keySubject` | put, fetchEntry/get, sweep, forgetSubject, dropKey | three maps kept in step by hand; recency is insertion order; admission, quota, expiry and eviction interact | indexes inverse, budgets kept, erasure complete and exact, LRU |
| integrity policy runtime | `src/handler.ts` 80-286, `src/integrity/{client,checkpoint}.ts` | `integrityRuntime`, the checkpoint file | resolve (AO, mirrors, checkpoint, env) | overlapping resolutions, slow answers, crash during a write, limits reconfigured across a restart | decisions on fresh policies only |
| integrity incidents | `src/handler.ts` 823-976 | `integrityIncidentReplay`, `integrityRuntime` | report, ack, pause, resume | pause against resolutions in flight; bounded memory of ids; notification after the effect | a pause freezes; a retry is recognised |
| payment webhook ingress | `src/handler.ts` 446-508, 1133-1215; `src/replay.ts`; `src/runtime/sessions/replayStore.ts`; `src/runtime/payments/{webhookIdempotency,gopayWebhook}.ts` | two bounded maps | Stripe, PayPal, GoPay deliveries | redelivery while the first is in flight, forward failing after the mark, pruning | admitted once per TTL, nothing lost |
| webhook verification | `src/webhooks.ts` | certificate cache, which only counts | verifyStripe, verifyPayPal, noteCert | nothing | not modelled |
| rate limiter | `src/ratelimit.ts` | `buckets` | check | eviction at capacity forgets counts | at most max per window, unless an eviction forgot it |
| cache and forget routes | `src/handler.ts` 520-610, 1013-1069; `src/runtime/sessions/forgetForward.ts`; `src/integrity/verifier.ts` | (cache, policy) | PUT, GET, forget | the pause and the trusted snapshot are read before the body is awaited | what is stored was vouched for by a policy fresh when the request began |
| host to site resolver | `src/runtime/template/siteResolver.ts` | positive, negative, global caches, circuit | resolve | overlapping lookups finish in any order | an open circuit holds; failures are forgotten once AO answers |
| front controller | `src/frontController.ts` | page per host | handle, search | three awaits between lookup and write back; stale fallback | a hit was named by the index within its TTL, or its own request took longer; a wrong page only without a hash |
| template API and write path | `src/templateApi.ts`, `src/templateContract.ts`, `src/runtime/template/*`; `workers/secrets-worker/src/index.ts` 2382-2652, 2908-2921 | none of its own: the command and its request id | call, /sign, checkout routes, push | timeouts that abort the caller and not the worker, retried pushes, late deliveries | a write is applied once, and the caller is told the truth |
| sessions | `src/runtime/sessions/lifecycle.ts` | session store | create, read, rotate, revoke | chains of rotations | one usable session per login |
| mail | `src/runtime/mailing/*` | bounded queue | enqueue, deliverNext | overlapping deliveries, a mail in flight during send, retry on a full queue | a mail is in one place; retries starve no one |
| domain map (async worker) | `workers/async-worker/src/{index,domainStateMachine,domainMapStore}.ts` | KV entry per domain | refresh, batch, scheduled | read-modify-write over KV, failure of the write itself | never serve past the hard expiry |
| inbox, replay lock, forget (secrets worker) | `workers/secrets-worker/src/index.ts` 349-561, 2710-3039, 3306-3400 | KV, Durable Object, in-memory claims | POST/GET inbox, forget, janitor, lock | KV get-then-put, alarms, deletions in the background, erasure while storing | a nonce is accepted once, the quota is overrun only by what overlaps, an erasure is complete |
| notify (secrets worker) | `workers/secrets-worker/src/index.ts` 3087-3304 | KV dedupe marker and breaker | notify | marker before delivery, breaker read-modify-write | answered in the end; an open breaker holds and closes again |
| KV limits (secrets worker) | `workers/secrets-worker/src/index.ts` 357-398, 410-436, 573-583, 719-733 | KV counter per client; KV marker per client and subject | four limits, one algorithm; the limit on new subjects | get-then-put: lost counts; marker and count are two puts | no refusal unearned; the limits hold where nothing raced |
| route assertions | `workers/secrets-worker/src/routeAssertion*.ts` | KV marker per challenge, locks of the isolate | issue, verify | get-then-put across isolates, a marker shorter-lived than its assertion | accepted once |
| release tooling | `scripts/{run-release-drill,bootstrap-prelive-decommission-artifacts,build-release-evidence-pack,build-release-evidence-ledger,check-release-drill-artifacts,check-decommission-readiness,run-decommission-closeout}.js` and the scripts they run | one directory of evidence files, the AO gate file | drill, prelive bootstrap, closeout, edits and checks by hand | runs that fail half way into one directory, files that repeat others, a gate edited meanwhile | what is reported ready is one release, and it passed its checks |
| rest | `src/server.ts`, `src/metrics.ts`, `src/runtime/{config,auth,crypto,telemetry,core}`, `src/clients`, the other scripts, `ops/` | none that decides anything | | | not modelled: I/O, configuration, comparison and formatting helpers, offline tooling |

How they interact: every request first resolves the policy (`handleRequest`
calls `resolveIntegrityContext`); the mutating routes (cache PUT and forget,
webhooks, template writes) refuse when it is paused; the cache PUT additionally
checks its root against the snapshot that came with the policy; webhooks pass
the rate limiter, verification, the replay store, and end in a call to the
secrets worker's `/notify`; `/cache/forget` forwards to a worker's `/forget`;
a template write is signed at the secrets worker's `/sign` and sent on to its
checkout routes, which push it to the write process on AO. All calls are HTTP
requests awaited by the caller; there are no callbacks. The release tooling
runs beside all this: its scripts share nothing but the files they leave each
other.

The hazards of this code, each at its line, are listed in `PROJECT.json`.

## Modules

| module | models | state |
|---|---|---|
| `Clock` | `Date.now()` in whole units, for the components that compare absolute times | `now` |
| `GatewayCache` | `src/cache.ts`, one action per exported function and outcome | `store`, `subjects`, `keySubject` as functions on subsets of keys; the insertion order of `store` as the relation `older`; `reply`, what the last call returned |
| `CacheContract` | what the cache promises, without indexes, order or clock | `entries` (owner, verified), `reply` |
| `IntegrityPolicy` | resolution, checkpoint, incidents | `runtime`, `file`, `replay`, `maxAge` (configuration of the process), `req` (request slots with a program counter, one value per await), `ledger` (what AO has published) |
| `CacheGate` | the cache and forget routes: `IntegrityPolicy` composed with `CacheContract` | both of theirs; a request that is `admitted` awaits its body |
| `OrderedMap` | JavaScript's `Map` as the bounded memories use it: setting, deleting, keeping the newest | a map is the function `of` on its keys and the relation `before`, the order of insertion |
| `ReplayStore`, `WebhookIdempotency` | the two classes, their one operation each | `seen`, `lastSweepAt`; `entries`, both ordered maps |
| `WebhookIngress` | the three webhook routes, composing the two stores by `INSTANCE` | the above, `call` (requests in flight), `sent`, `received` (what the worker got), `log` (history) |
| `RateLimiter` | `src/ratelimit.ts` | `buckets`, an ordered map |
| `SessionLifecycle` | `src/runtime/sessions/lifecycle.ts` | `sessions` |
| `SiteResolver` | the AO lookup of `siteResolver.ts`, its three caches and its circuit | `found`, `unavailable`, `allDown`, `circuit`, `lookup` (lookups in flight) |
| `FrontController` | `handleFrontControllerRequest` for one host | `page`, `view` (requests in flight), `listed` (what the index names) |
| `MailQueue` | `src/runtime/mailing`: the queue and its deliveries | `queue`, `sending`, `fate` |
| `WritePath` | a checkout write from `proxyTemplateCall` over `/sign` and the checkout routes to the write process | `gate` and `work` (where gateway and worker stand), `tries`, `told`, `pushed`, and what the process did: `applied`, `declined`, `repeated` |
| `SecretsInbox` | inbox, replay check in memory, Durable Object and KV, forget, janitor | `items`, `marks` (KV), `locks` (Durable Objects), `claims` (memory), `desk` (requests in flight), `doomed` (deletions in the background) |
| `KvLimiter` | the four request limits of the secrets worker, one algorithm | `entry` (KV), `asking` |
| `SubjectSpray` | the limit on new subjects of a client | `known`, `tally` (KV), `naming` (requests in flight) |
| `RouteAssertions` | issue and verification of route assertions | `issued`, `marker` (KV), `held` (locks per isolate), `verify` |
| `Notify` | `POST /notify` | `marker`, `breaker` (KV), `notice` (requests in flight) |
| `DomainMap` | a refresh of the async worker from the TXT query to the KV write, one action per stretch between the awaits that matter | `txt` (what the DNS says), `kv` (the map), `job` (refreshes in flight with a program counter), `withdrawn` (history) |
| `RefreshSchedule` | the scheduled batches that start refreshes | `at` (where each run is), `refreshed` |
| `ReleaseDrill` | the drill and the prelive bootstrap step by step, the AO gate, the decommission check, the closeout | `dir` (file by file), `gate`, `run`, `closeout` |
| `OrderedMap_proofs` | the lemmas about ordered maps | |
| `GatewayCache_proofs`, `IntegrityPolicy_proofs`, `DomainMap_proofs` | the theorems about these modules; `IntegrityPolicy_proofs` has those about `CacheGate` too | |
| `GatewayServices_proofs` | the theorems about `FrontController`, `SiteResolver`, `SessionLifecycle`, `RateLimiter`, `WritePath`, and about their sum `MCGateway` | |
| `Workers_proofs` | the theorems about `SecretsInbox`, `KvLimiter`, `RouteAssertions`, and about `MCWorkers` | |
| `Recovery_proofs` | the theorems about `Notify`, `MailQueue`, `RefreshSchedule`, and about `MCRecovery` | |
| `Admission_proofs` | the theorems about `SubjectSpray`, `ReleaseDrill`, `WebhookIngress`, and about `MCAdmission` | |
| `MCIntegrityPolicy`, `MCWebhookIngress`, `MCDomainMap`, `MCGatewayCache` | constants for TLC, and the focus of a behaviour | |
| `MCWorkers`, `MCGateway`, `MCRecovery`, `MCAdmission` | components that share no state, side by side | `part`: which one a behaviour steps |

A sum such as `MCGateway` adds nothing to what its components say: they share
no variable (two of them share the clock), so every behaviour of one component
is a behaviour of the sum with that `part`, and the others stay at one initial
state. It exists so that one run explores several small components. The
composition of components that do interact is in `CacheGate` (policy and
cache), `WebhookIngress` (routes and replay stores) and `WritePath` (gateway,
worker, process).

Abstractions, by module:

- *OrderedMap.* The order of a `Map` is a relation and not a sequence, so that to
  delete keys, or to keep the newest, is to restrict it. What the loops of the
  source do (delete the first key while there are too many) is stated by its
  result: the keys with fewer than the limit after them.
- *GatewayCache.* An entry is its expiry and whether its metadata is verified;
  a value is only "oversize or not". A subject with an empty set and a subject
  absent from `subjects` are one state, since no path tells them apart. `put`
  sweeps first, so its guards and its effects are stated on what the sweep
  leaves (`Live`, `Detached(Swept)`). One call is one action because no
  function of the file awaits. The key `""`, which `PUT /cache/` produces, is a
  key like any other except where the code tests it for truth.
- *IntegrityPolicy.* A snapshot is its index in `ledger` (0 for `null`), and
  carries only its `paused` flag and publication time. The awaits of
  `resolveIntegrityPolicyState` are the program counters `fetching` (primary),
  `answered` (mirrors, then the checkpoint write up to opening the file),
  `writing` (file open and empty), `reading`, `commit`. All ways in which a
  fetch can fail are `FetchFail`; all ways in which an incident can be refused
  before it has any effect are `IncidentRefused`. A write that overlaps another
  may leave either contents or a mixture (`WriteEnd` picks). `report` stands
  for `ack` too: both change nothing but the replay memory. `from` and `asOf`
  record where a decision came from, `pause` and `applied` what operators did:
  they are history, no guard reads them. The clock advances by whole units and
  never backwards; checks on malformed timestamps (`ageMs < 0`) are therefore
  not reached.
- *CacheGate.* Whether a snapshot trusts the root a PUT names, and whether its
  hashes agree, is an input; an entry is as good as the snapshot that vouched
  for it. The cache is its contract, which `ImplementsContract` justifies. A
  PUT or forget that is refused after its body, and the end of the forwarding
  of an erasure, are `Reply` of `IntegrityPolicy`. `Prompt` says that only a
  microtask lies between a resolution and the read of its snapshot.
- *WebhookIngress.* Verification passes or not (`Refuse`), nondeterministically.
  A provider may deliver any event at any time, up to `MaxDeliveries`. The
  worker has the event from the moment the request reaches it, whatever the
  gateway learns of it (`ForwardFails` after `ForwardArrives` is a timeout).
  GoPay's fingerprint of a body is the event itself; two events with one id are
  two bodies.
- *RateLimiter, SessionLifecycle, SiteResolver, FrontController, Notify,
  KvLimiter.* Times are kept as what remains of them, so that no clock needs a
  bound: the state of a component is finite by itself. Counts above their limit
  are kept as one above it, where the code tells none of them apart. One host
  in `FrontController`, one KV key in `KvLimiter`, one breaker key in `Notify`:
  the code treats each by itself. `SiteResolver` leaves out the static host map
  and its fallback, which change nothing; what a lookup finds and that it finds
  nothing are one answer, as they are for the circuit. In `SessionLifecycle` no
  session is deleted, as in the code.
- *FrontController.* Each of the two fetches ends within its timeout, but the
  body of the index's answer is read without one (`IndexAnswers` comes before
  it): a page whose body was read late may be older than its time says, and
  `HitIsRecent` excepts it by `served.late`.
- *MailQueue.* Mails are numbered as they come. `nextAttemptAt` is written by
  the code and waited for by no one, so it is left out. `TransportThrows` is a
  transport handed in by the caller; the one in the source catches its errors.
- *WritePath.* One write of one caller, who attempts it several times: through
  the gateway, or by calling the worker's route itself, with a request id or
  without. The gates before the signature answer at once and are one action
  each. Signatures are not computed; what they cover is a time stamp, the one
  field two components write. The write process is outside the repository: it
  keeps the idempotency of commands by their request id, as
  `ops/AO_GATEWAY_DESIGN.md` has it, and may take a push at any time.
- *SecretsInbox.* A key is the sequence of its segments, so that listing by a
  prefix is `IsStrictPrefix`. Letters, markers and locks live in stores of
  their own. KV is one copy and an expired entry is gone; every call may fail,
  a put with or without effect. Three deployments: with Durable Objects, with
  one isolate, with KV and many isolates. `CallLimit` bounds how long a request
  takes, which the platform does and the code does not.
- *SubjectSpray.* One client. The window is compared with the time a request took
  at its beginning, so a request has an age, which `NamingAge` bounds as the
  platform does. The routes that ask this guard take its outcome as an input.
- *RouteAssertions.* Signatures hold: what is presented was issued. The
  signer's clock may be `Ahead` of the verifier's. An unsigned challenge and
  one that is refused change nothing.
- *DomainMap.* A configuration is the transaction id the TXT record names; the
  checks on it (signature, `kid`, domain, owner, probe, route assertion) are the
  nondeterministic `Findings`, of which `Stopped` says which ones stop a
  refresh; whatever else throws is `RefreshFails`. An entry keeps its status,
  `cfgTx` and `hardExpiresAt`; `writeProcess`, `configHash` and the error fields
  decide nothing. The program counters are `txt` (the query), `checking`,
  `reading`/`failreading` (the `get` of the success and of the failure path) and
  `writing`/`failwriting` (the `put`). KV calls may last for ever, fail, or take
  effect and report a failure; Workers are evicted at any point. KV is taken as
  one copy: the staleness of its reads is not modelled. A caller may bring its
  own TXT payload (`origin = "caller"`) but not its own `configJson`.
- *RefreshSchedule.* A refresh is one step here, which ends well or not; what it
  does is `DomainMap`.
- *ReleaseDrill.* A file is absent or holds what later steps read of it;
  `reports`, `legacy` and `maps` each stand for the files one stretch of a run
  writes and later steps treat alike. What a single check finds (in legacy code,
  in a map, about the host, in the signatures) is an input, as are the schemas a
  file must satisfy; what the scripts make of it is the model: what is a blocker
  and what a warning, which exit ends a run after its file was written, and
  which files must agree. `GateStates` has the gates the scripts tell apart: the
  AO gate check asks for evidence, the pack and the decommission check do not.
  A script reads the directory at once, a run that is killed may stop anywhere.
  The checks file the drill writes embeds what the drill computed itself, the one
  of the prelive bootstrap what the directory holds.

History variables, which no guard reads: `from`, `asOf`, `pause`, `applied`
(IntegrityPolicy), `log` (WebhookIngress), `withdrawn`, `origin`, `verified`,
`alone` (DomainMap), `given` (RateLimiter), `login` (SessionLifecycle), `up`,
`early`, `doubt` (SiteResolver, where `doubt` and `up` also say when a lookup
may fail), `since`, `bare`, `served` (FrontController), `failed`, `peak`,
`passes`, `vowed` (SecretsInbox), `charges`, `passed` (KvLimiter),
`named`, `alone` (SubjectSpray, where `named` keeps of a subject whether it was
counted and whether the client was let in with it), `accepted`,
`raced` (RouteAssertions), `tried` (MailQueue), `passed`, `spent` (ReleaseDrill;
its `runs` and `edits` are what the two bounds are compared with).

## Runs

| run | bounds | shows |
|---|---|---|
| `policy_operate` | 2 requests, 2 snapshots, TTL 1, limits {1, none, malformed}, clock to 2, 2 incident ids and anonymous reports against a cap of 1, restarts anywhere; for the routes 1 key, 1 subject, a first snapshot that is not paused and the clock to 1 | `TypeOK`, `AoDecisionFresh`, `CheckpointDecisionFresh`, `IncidentRemembered`, `PauseFreezesIfAlone`, `StoredOnGoodAuthority` |
| `admission` | ingress: 2 requests in flight, events of 3 providers sharing ids (some without id, one with an id too long), stores of 2 keys, sweep interval 2, TTL 2; either events of every kind, 3 deliveries, clock to 1, or 3 events of one store, 4 deliveries, clock to 3, verified and not reaching the worker; drill: 2 releases, 2 runs, 1 edit by hand; subjects: 2 requests of up to 1 unit, 3 subjects, maximum 2, window 3 | `AdmissionTypeOK`, `AdmittedOncePerTTL`, `ReplayWasAdmitted`, `GoNamesPassedRun`, `CompletedRunPasses`, `SprayHolds` |
| `workers` | inbox: 2 requests in flight, quota 1, TTLs 2, a forget of 1 key at most, requests of 1 unit at most, clock to 2; either 2 letters of one subject and 3 requests in all, or 1 letter and 4 requests where a nonce is to be accepted once; limits: 2 requests, maximum 2, window 2, 2 tries; assertions: 2 verifications, 2 isolates, 1 challenge, TTL 2, clock ahead by 1, clock to 3; domains: 2 refreshes of 1 domain, 1 configuration, ttl 1 at most (the record asks for 2), checks last 1, no grace, clock to 3, records that change before 2 | `WorkersTypeOK`, `AcceptedOnce`, `SubjectBounded`, `Erased`, `RefusalEarned`, `KvLimitHolds`, `VerifiedOnce`, `TakeoverLag`, `ExpiredStaysExpired` |
| `gateway` | cache: 3 keys (one of them empty), 2 subjects, room for 2, quota 1, TTL 1, clock to 2; front: 2 requests, 2 transactions, TTL 1; limiter: 3 clients of two maxima, room for 2, window 2; sessions: 4, lifetimes 1 and 2; write: 2 attempts, 2 pushes each; resolver: 3 lookups, 2 hosts, threshold 2, window 2, open for 3, timeout 2 | `GatewayTypeOK`, `IndexCoherent`, `WithinBudget`, `RecentlyUsedSurvives`, `RefinesContract`, `HitIsRecent`, `WrongOnlyIfBare`, `RateHolds`, `OneHolderPerLogin`, `AppliedOnce`, `AnswerIsTrue`, `CircuitHolds`, `RecoversInTime` |
| `recovery` | 2 notifications of 1 destination, threshold 2, cooldown 2, 2 attempts; mail: 4 mails, room for 2, 2 deliveries; schedule: 2 overlapping runs, 4 domains, a batch of 3 | `RecoveryTypeOK`, `BreakerHolds`, and the liveness properties `NotifyAnswered`, `BreakerCloses`, `MailAttempted`, `ScheduledForever` |
| `cache_empty_key` | as the cache in `gateway`, TTL 2, clock to 3 | `EvictLruMakesRoom` is violated |
| `policy_pause`, `policy_pinned` | as `policy_operate` | `PauseFreezes`, `CheckpointPinned` are violated |
| `webhook_lost` | as the ingress in `admission` | `SettledIsForwarded` is violated |
| `domain_verified` | 2 refreshes of 1 domain, instant checks | `OnlyVerifiedIsValid` is violated |
| `inbox_locks` | as `workers` | `LocksEnumerable` is violated |
| `write_signature` | 2 attempts, 2 pushes each | `SignatureCovers` is violated |

Deadlock is checked except where a system is over when it has used up its
bound: in `workers` and `inbox_locks` (the requests that may come, the clock),
in `gateway` (a write answered, the sessions made) and in `write_signature`.

Why the bounds are enough to be interesting. Three keys against room for two
and a quota of one make admission, eviction, refresh and the quota all refuse
and all act; a TTL below the last clock value lets entries expire and be
stored again. Two requests are what it takes for resolutions to overlap, two
snapshots for one to be outdated; the clock outlasts the TTL, so a policy
outlives it in the model. Stores of two keys are filled by four deliveries,
which evict, and deliver the evicted event again. Three requests in the inbox
are a post, a forget and a post again, of which two overlap; a fourth one, about
the same nonce, is what it takes for an erasure to free a lock while another
request is still claiming it, and for that one to give back what a third has
taken. The lock outlasts a request by the least there is. Two isolates are what it takes for the lock of
an isolate to see nothing of the other one. Three clients against two buckets
evict one that is being counted. Three lookups let one fail, one open the
circuit and one answer late. Four mails against room for two push out a mail
that waits and one that was put back. Two attempts of two pushes let a push of
the first arrive after the second was answered. Two runs for two releases into
one directory let the second find what the first left, at any step; one edit by
hand changes the gate, or repeats a check, between any two of their steps or of
the closeout's. Three subjects against a maximum of two are one too many, and
the window outlasts the longest request.
`MaxTime`, `MaxPublished`, `MaxDeliveries`, `MaxCalls`, `MaxMails`,
`MaxSessions`, `MaxRuns` and `MaxEdits` bound the exploration, in guards of their own; the theorems do
not depend on their values. In `policy_operate`, and in the ingress of `admission`, a
behaviour has a focus, chosen at its start, which leaves out what does not bear
on the question: one about pauses has no incident ids and no second snapshot,
one about incidents no second snapshot either; one about the limit of a store of
events has only the events of that store, which never reach the worker, since
that comes after the store has decided. The two parts of the inbox in `workers` trade letters for requests
in the same way. The theorems are about any number of either.

### Fairness, and what eventually happens

Safety properties assume no fairness. Three components promise something that
must happen in the end, each under what its platform gives:

- `NotifyFairness`: a request is carried on, because each call it awaits
  answers, fails or times out, and time passes. Nothing makes requests arrive,
  and nothing says that a delivery succeeds. Hence `NotifyAnswered`: retries
  come to an end. `BreakerCloses` says of the breaker what is left of recovery
  in this code: it closes for good once notifications cease, because its KV
  entry expires. While they keep coming more often than that, it need not: a
  breaker whose cooldown is over opens again at the next request, without a
  trial delivery.
- `MailFairness`: deliveries are run again and again and end. The source has no
  driver of its own; this is what one would have to do. Hence `MailAttempted`.
- `ScheduleFairness`: for one run slot the cron trigger fires again and again,
  and no domain is always the one at which the run is evicted (strong fairness
  of the end of each refresh, since an eviction takes the run elsewhere). Hence
  `ScheduledForever`, for the domains up to `REFRESH_BATCH_LIMIT`. Those after
  it are never refreshed by the schedule, since every run begins with the
  first.

`CircuitHolds`, `RecoversInTime` and `BreakerHolds` bound the same recoveries
from the other side, as safety: what may close a circuit early, and by when a
failure is forgotten.

### What the violated properties say

- `EvictLruMakesRoom`: with `evict_lru`, a put of a new key is never refused
  for lack of room, which is the point of the mode. `evictOldestKey` returns
  `false` when the oldest key is `""`; the cache then refuses every new key
  until that entry is touched, expires or is dropped.
- `PauseFreezes`: a resolution that was waiting for AO when the operator's
  pause was acknowledged ends by overwriting `integrityRuntime.state`, and the
  next mutation is admitted. `PauseFreezesIfAlone` is what does hold: a pause
  that no resolution was in flight for lasts its TTL. (After the TTL the policy
  is resolved anew in any case.)
- `CheckpointPinned`: the checkpoint is rewritten in place on each successful
  fetch; a crash in between leaves no checkpoint for the next process.
- `SettledIsForwarded`: the replay mark is set before the forward. When the
  forward fails the provider gets a 502; another delivery of the event is
  answered `replay` with a 200 and is not forwarded. The property leaves out
  ids that are too long: `replayStore` answers `replay` to their very first
  delivery and marks nothing, so their events reach nobody either.
- `OnlyVerifiedIsValid`: `dryRun` passes over a failed probe and a failed
  required assertion, and the result is persisted like any other: the entry is
  `valid`.
- `LocksEnumerable`: a forget leaves the deletion of markers and locks to the
  background, in no order. Once the lock is cleared the nonce can be claimed
  anew; the deletion of the old marker then takes the new one, and the lock
  that stands is found by no later forget.
- `SignatureCovers`: the gateway stamps a command with a number of seconds and
  has it signed; `buildWriteCommand` takes text only, puts its own time in its
  place and pushes the command under the old signature.

What the passing ones leave room for, in their antecedents, is what the code
does too. `ExpiredStaysExpired` speaks of a refresh that no other one has
written under since it took its time: a failing refresh that took its time just
before the hard expiry, and puts after another one has invalidated the entry,
writes it back as `stale`. A reader who tests `hardExpiresAt` too is not misled,
and `TakeoverLag` holds all the same. `AcceptedOnce` needs Durable Objects, or
one isolate that nothing happens to: in KV alone two isolates accept one nonce,
and the janitor deletes claim markers, which it cannot parse. It also counts from
the last erasure of the nonce, and an erasure reaches further than the forget
that asked for it: a request whose lock it frees goes on, and when its marker
cannot be put it clears the lock (`clearReplayWithDurableObject`), which by then
may be that of the next request. `ClearLock` then counts as one more erasure.
`Erased` vows nothing of a locked nonce whose marker an earlier forget is still
about to delete in the background: the second forget may list before or after
that, and finds the lock or not. `SubjectBounded`
lets a quota be overrun by the requests that overlap, and says nothing where
the quota is 0, which is none, or above what one listing returns. Nothing keeps ":" out of a
subject or a nonce, so that a letter may be one of two subjects at once (of "a"
as "b:c", of "a:b" as "c"); it is counted when it is posted under the one, and
stored for both. Such letters are not among those that `SubjectBounded` counts. `KvLimitHolds` is about
windows in which no put overwrote another: one that did undoes every charge in
between, while `RefusalEarned` holds of all. `SprayHolds` counts the subjects
a client is let in with, by the request that names one or by the marker it left,
of those whose naming request overlapped no other; it leaves out those that
slipped. The marker of a new subject is put before the count: a request that
fails in between has left the marker, its retry is let in by it, and nobody
counts the subject. With a maximum of 2 three subjects get in within one window
that way, one request after the other, so that the maximum bounds those that were
counted and no others. It has no counterpart of `RefusalEarned`,
since each new subject moves the end of the window: a client that names one
within each window is refused after `UNIQUE_SUBJECT_MAX_PER_IP` of them.
`HitIsRecent` excepts an answer to a request that had itself taken
`GATEWAY_FRONT_CONTROLLER_CACHE_TTL_MS`: the body of the index answer is read
without a timeout, and may name by then what the index no longer does. Such a
page is not kept. `BreakerHolds` does not say that the breaker opens in time:
concurrent failures are lost, and no threshold is promised exactly.
`MailAttempted` excuses mails that a full queue pushes out, and those that are
lost by a transport that throws or a restart, the queue being in memory.
`VerifiedOnce` excepts challenges
verified in two isolates at once. `RateHolds` excepts clients whose bucket the
limit on buckets has evicted. `StoredOnGoodAuthority` is about policies that
come from AO: an operator's pause or resume keeps the cached snapshot, and the
roots it trusts, in use for another TTL each time. `CompletedRunPasses` excepts
a pack that warned of something other than the gate: a drill that is not strict
accepts it, the decommission check does not.

Four observations on the release tooling that no property states. An evidence
set made while the AO gate was open passes the decommission check once the gate
file is closed, since a pack that complained of the gate alone counts as pending
on it; `ops/release-drill-runbook.md:76` asks for a live strict drill as well.
The runbook (line 74) has the prelive directory hold the full strict set, but
the bootstrap writes no evidence of the legacy checks and no maps: into an empty
directory it ends at the readiness report. `GoNamesPassedRun` holds because
every file that could name another release is compared; the closeout takes the
result of the artifact check, which names none, on trust, and compares no
hashes. And a `release-drill-manifest.validation.txt` that says `invalid release
drill manifest` contains the words looked for.

## Proofs

`GatewayCache_proofs` proves, for every set of keys and subjects, every TTL and
every budget that `CacheAssumption` allows:

- `TypeCorrect`, `IndexesCoherent`, `BudgetsHold`: `Spec => []TypeOK`,
  `[]IndexCoherent`, `[]WithinBudget`;
- `LruKeepsTheRecent`: `Spec => RecentlyUsedSurvives`;
- `ImplementsContract`: `Spec => RefinesContract`.

The inductive invariant is `IInv`. `IndexCoherent` and `WithinBudget` are
inductive together with `TypeOK` (the quota needs the indexes: an accepted put
adds one key to one subject's set and takes it from no other's count only if
the key was where the index says), and cardinalities need the store to be
finite. `RecentlyUsedSurvives` needs two facts about the recency list that no
caller sees: `older` is asymmetric, and the entry last used is after all others
(`NewestIsLast`), so that with room for more than one entry it is not the
oldest one. The refinement maps an entry to the owner the index gives it; its
one interesting step is `ForgetSubject`, where `IndexCoherent` turns the index's
set into the set of entries owned.

`IntegrityPolicy_proofs` proves, for every number of requests in flight, every
TTL, every set of age limits and every clock:

- `PolicyTypes`: `Spec => []TypeOK`. A snapshot kept anywhere is one AO has
  published, a whole checkpoint holds one, and the memory of incidents is a map
  within its cap;
- `AoDecisionsFresh`, `CheckpointDecisionsFresh`: `Spec => []AoDecisionFresh`,
  `[]CheckpointDecisionFresh`;
- `PauseHolds`: `Spec => []PauseFreezesIfAlone`;
- `IncidentsRemembered`: `Spec => []IncidentRemembered`.

The two decision properties speak of requests that have decided; their
strengthening says how good a policy state is wherever it is kept. `GoodAt(s,
t)` is "as good as one resolved at `t`": not replaced before `t`, or written
within the limit before `t`. A resolution under way holds one good at the time
the request began, the runtime state one good a TTL before it expires, hence a
decided request one good later than a TTL before it began. The argument turns
on `Commit` taking the lifetime from the beginning of the resolution. For the
pause, `PauseInv` says that while a pause that came alone lasts, the runtime
state is the operator's and no request resolves: `Begin` cannot start a
resolution because the state is fresh, and `Commit`, the one other action that
writes it, needs one. `IInv`, the conjunction, is also checked by TLC. There is
one lemma per action; those that change one slot only share `RequestStep` and
`ResolvingStep`.

`IncidentRemembered` counts ids by the time at which they took effect, the code
evicts by place in the `Map`. `MemoryInv` brings the two together: the memory is
in the order in which its ids took effect. So what an eviction takes has a cap's
worth of ids after it, all of which took effect no earlier (`PrunedMemory`), and
these never become fewer while the id is within its TTL (`LaterIds`). The order
survives only because an id that has run out is deleted before it can be set
again: `set` on a key that is there would leave it in its old place with a new
time.

`DomainMap_proofs` proves, for every number of domains, of configurations and
of refreshes in flight, every ttl and every timeout:

- `DomainTypes`: `Spec => []TypeOK` (in the run a part of `WorkersTypeOK`, as
  `TypeCorrect` above is of `GatewayTypeOK`);
- `TakeoverLagHolds`: `Spec => []TakeoverLag`.

`TakeoverLag` speaks of `now`; what is inductive speaks of the times written
down. A configuration under check was named by the record when the checks
began, and these have not timed out (`Tick` waits for them); one to be
persisted was named within `CheckTimeout` of the time it is persisted as of; an
entry, in KV or on its way there, was named within `Lag` of its hard expiry
(`GoodEntry`). A KV call may last as long as it likes, since the expiry does not
depend on when it ends. A failure keeps the expiry, so it keeps the entry good.
`NamedKept` is the one lemma about the owner: publishing another record leaves
what was said of the past, because no time spoken of is in the future.

`ExpiredIsExpired` in the same module is `Spec => ExpiredStaysExpired`. It adds
`ExpiryInv` to the invariant above: an entry that is "invalid" has no
configuration or is past its hard expiry (`Lapsed`); what a refresh that no
other has written under is about to read was so by the time it goes by, and what
it is about to write is not "stale" where the entry is "invalid" (`Expiring`).

`IntegrityPolicy_proofs` goes on to `GateSpec`, the policy beside the cache
routes. `StoresOnGoodAuthority` is `GateSpec => StoredOnGoodAuthority`. To `IInv`
it adds `VoucherInv`: the snapshot a request holds is the one its policy came
from. The two are read on both sides of an await; in between, the request is
`resolved`, and `Prompt` is why the runtime state is then still the one it read.

`GatewayServices_proofs`:

- `FrontHitIsRecent`, `FrontWrongOnlyIfBare`, for every number of requests and
  transactions and every TTL. `RecentInv` trades the time a page is kept against
  the time since it was named, and bounds what the index answered to a request
  by the request's own age; its third part, that a page a request believes to be the cached
  one is, carries a prolonged page through the awaits. `BareInv` says of every
  page, kept or under way, what excuses it;
- `ResolverRecoversInTime`, `ResolverCircuitHolds`, for every number of lookups
  and hosts and all six durations. `MemoryInv`: what is remembered of a failure
  ends by the time `RecoversInTime` speaks of, because a lookup that may still
  fail is no younger than the recovery of AO. `CircuitInv`: whatever is in flight
  under an open circuit was so when it opened;
- `SessionOneHolder`, whose property is inductive with the types, and
  `SessionRevokedLoginEnds`, which says what revocation means for a login: once
  one of its sessions is revoked, no session of it is usable, now or later;
- `LimiterRateHolds`, for every set of clients with maxima of their own, every
  window and number of buckets. `WindowInv`: a window that no eviction moved is
  that of the client's bucket, which counts at least what was let through;
- `WriteAppliedOnce`, `WriteAnswerIsTrue`, for every number of attempts and of
  pushes per attempt. The two are inductive with `StageInv` (where gateway and
  worker stand says whether anything can have been pushed) and `ProcessInv` (the
  process decides an id once, one way);
- `GatewayTypes`: `GatewaySpec => []GatewayTypeOK`.

`Recovery_proofs`:

- `NotifyBreakerHolds`, for every number of requests and destinations, threshold,
  cooldown and number of attempts. An open breaker outlives its cooldown in KV
  (`KeptInv`), and whoever is past it was so when it opened (`EarlyInv`);
- `MailsInOnePlace`: `MailSpec => []KeptInOnePlace`, for every size of the queue
  and number of deliveries. However deliveries overlap at the transport, a mail
  waits once or is with one of them; with the types it is inductive as it
  stands. No run states it;
- `RecoveryTypes`: `RecoverySpec => []RecoveryTypeOK`.

`Admission_proofs`:

- `SprayIsBounded`, for every number of subjects and requests. `TallyInv`: the
  count covers every subject charged alone and lasts as long as they count;
  that takes the window to be compared with the time at which a request began.
  What the client is let in with is among them, or slipped;
- `GoIsOfPassedRun`, `FinishedRunPasses`, for every set of releases and any
  number of runs and edits. `DocumentsInv` says of each document of a run what it
  holds once its step is taken, `UntouchedInv` what the embedded results are
  unless someone repeated a check by hand, `PassedInv` that whoever is named in
  the ledger, or by a clean closeout, has passed;
- `EventsAdmittedOnce`, `ReplaysWereAdmitted`: `Spec => []AdmittedOncePerTTL`,
  `[]ReplayWasAdmitted`, for any requests in flight, any events under any
  ids, every TTL, size of the stores and sweep interval, with every policy on
  GoPay bodies and with the forward on or off. `AdmittedInv` says that what the
  stores hold was admitted, `RecallInv` the converse: what was admitted less than
  a TTL ago is in its store with only later ids after it, or a store's worth of
  later ids has come. A replay renews an id's expiry and leaves it in its place,
  so what is after it is what came since it was admitted, not since it was
  renewed;
- `AdmissionTypes`: `AdmissionSpec => []AdmissionTypeOK`.

`Workers_proofs`:

- `KvLimitIsKept`, for every number of requests, maximum, window and number of
  tries: as long as no put raced, the entry counts every put of its window
  (`CountedInv`), and so will what a request is about to write (`WriterInv`);
- `KvRefusalEarned`, for the same parameters and however puts race: what a
  request is about to write counts no more than the charges of its window and
  its own (`EarnedInv`), so that a count at the maximum was earned;
- `AssertionVerifiedOnce`, for any challenges, isolates and durations: where the
  marker is meant to last it outlasts each assertion that was spent
  (`MarkerInv`), so a verification that found none and was not overtaken is
  `First`;
- `NonceAcceptedOnce`, `SubjectIsBounded`, `ForgetErases`: `InboxSpec =>
  []AcceptedOnce`, `[]SubjectBounded`, `[]Erased`, for every finite set of
  letters and number of requests, every deployment and duration;
- `WorkersTypes`: `WorkersSpec => []WorkersTypeOK`.

The inbox has three inductive invariants over one of types (`BaseInv`, which also
bounds the age of a request). For `AcceptedOnce`, `LockInv` and `MemoryInv`: who
holds the lock, or the claim in memory, holds it alone and has found everything
accepted before it expired; and what was accepted lives no longer than the lock
or the marker that says so. The lock is alive while its holder is, because
`CallLimit < LockTTL`. An erasure removes from `passes` what it frees, which is
why `ClearLock` had to tell whose lock it clears. For `Erased`, `MarkInv` (a lock
ends no later than its marker, so that a listing by markers finds it) and
`VowInv`: every part of a vowed key is either doomed or will be listed by a
forget under way that finds the key. `VowKept` is the one lemma about keys that
a step leaves alone. For `SubjectBounded`, `CountInv` adds the requests about to
store to the letters stored: the count they passed leaves room for one, and
`peak` for the others.

The theorems about the sums (`GatewayTypes`, `WorkersTypes`, `RecoveryTypes`,
`AdmissionTypes`) take each component's step from its own development; what they
add is that a component that is not stepped keeps its types, also where another
one moves the clock they share.

`OrderedMap_proofs` has what the developments with bounded memories share: what
deleting, setting and keeping the newest leave of keys, values and order
(`MapOnlyOf`, `MapUpdatedOf`, `MapSetOf`, `MapNewestOf`), that the newest are no
more than the limit, and that a map that is not empty has a first key
(`MapFirst`), which is the one an eviction takes.

The developments rest on the assumptions on the constants alone, which TLC
evaluates on every run: `CacheAssumption`, `PolicyAssumption`, `DomainAssumption`,
`ClockAssumption` (the last clock value is a number), `WriteAssumption`,
`FrontAssumption`, `ResolverAssumption`, `SessionAssumption`, `NotifyAssumption`,
`KvLimiterAssumption`, `AssertionAssumption`, `SprayAssumption`,
`LimiterAssumption`, `IngressAssumption`, `MailAssumption`, `ScheduleAssumption`,
`AbsentAssumption` (an absent file is none of the results a file may hold) and
`InboxAssumption`. The latter has the letters and the requests in flight finite:
`SubjectBounded` counts them.

Only model-checked: the liveness properties `NotifyAnswered`, `BreakerCloses`,
`MailAttempted`, `ScheduledForever`, which with `ENABLED` are out of the
prover's reach. Every invariant and every action property of the passing runs is
a theorem too, `GatewayCache`'s refinement of its contract included. The
refutations are TLC's.

## Plan

What is left: an abstract specification of the inbox (a nonce is accepted once
per window, a letter read at most while it is there) with `SecretsInbox` as its
refinement where Durable Objects are bound. `LockInv` is most of what the proof
needs.

## Not modelled, and why

- `src/server.ts` (stream plumbing), metrics and telemetry (no effect on
  control), configuration loading (its results are constants here), domain
  configuration validation of the async worker and the integrity fetch control
  (pure functions and retry loops inside one awaited fetch: their outcome is an
  input), token, HMAC and signature arithmetic (likewise).
- Webhook signatures (`src/webhooks.ts`): whether they verify is an input of
  `WebhookIngress`; the certificate cache decides nothing by what it holds.
- The template validators and the read actions of the template API keep no
  state; `WritePath` has the gates of a write as one action.
- `applyProbeOutcome`, the scheduling hints and `delete`, `list` and `upsert` of
  the domain map are called by tests only.
- The client SDKs, the other scripts and `ops/`: offline tooling and deployment.
  `scripts/` is 25,000 of the 41,000 lines of the implementation. The chain of
  scripts that share a directory is `ReleaseDrill`; what is left are command
  line validators and report builders that read one or two files, compare them
  with a schema and print the result. They have no state that outlives a call
  and no two of them run at once, so that a model could only repeat their
  comparisons. The HyperBEAM resolver addon under `ops/live-vps` is a deployment
  artefact in Lua.
