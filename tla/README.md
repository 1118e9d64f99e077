# A TLA+ development of the Wasm extensions

This directory models the proxy-wasm plugins of the repository in TLA+: what
they keep, what each of their callbacks does, and what happens when the
callbacks of several VMs, late answers of asynchronous calls and the end of
streams interleave. TLC checks the models on small instances; TLAPS proves the
main results about every plugin for any number of VMs, streams, entries and
payloads, any configurations and any bounds.

Paths are relative to the repository root; `extensions/` is left out where the
plugin is clear.

## 1. The system

An Envoy proxy runs each plugin in Wasm VMs, one VM for each worker thread. In
a VM a *root context* holds the configuration and the plugin's own state, and a
*stream context* exists for each HTTP or TCP stream. The host calls into a VM
(`onConfigure`, `onTick`, `onRequestHeaders`, `onLog`, `onDone`, answers of HTTP
and gRPC calls) one callback at a time and runs each to its end. So there is no
interleaving inside a callback in one VM. What does interleave is

* callbacks of *different* VMs, which meet in the host's shared data
  (`getSharedData`, `setSharedData` with a compare-and-set number);
* the *order* of callbacks in one VM: ticks, new streams, streams that end,
  answers of calls, configurations, `onDone`.

### Components

| Component | State | Operations | Interacts with | What is hard |
|---|---|---|---|---|
| local rate limit (`local_rate_limit/`) | two shared cells: tokens, time of the last refill | `initializeTokenBucket`, `getToken`, `refillToken` | all copies in all VMs, through shared data; the system clock | lost updates, double refills, racing initialization, retries that give up, unsigned time |
| gRPC logging (`grpc_logging/`) | request being written, buffer of requests, calls in flight, `is_on_done_` | `addLogEntry`, `flushLogBuffer`, `sendLogRequest`, `onTick`, `onDone`, two answers | the collector (asynchronous calls), the host's shutdown protocol | refused and failing calls, answers in any order, ticks after `onDone` |
| OPA client (`open_policy_agent/plugin.*`) | host, cluster and validity of decisions, streams that wait | `onConfigure`, `check`, the answer's callback | the OPA server (asynchronous calls), the result cache | answers for streams that ended, several calls about one payload, timeouts, configurations refused halfway |
| OPA result cache (`open_policy_agent/cache.*`) | hash map of results, recency list, map of iterators | `check`, `add`, `use` | the OPA client | three containers in step, eviction at the limit, expiry, integer widths |
| stats (`stats/`) | metrics with their dimensions, cache of resolved metrics, queue of running requests, host expression tokens | `configure`, `onTick`, `report`, `onLog`, `onDone` | host metrics and expressions, request context | interim and final reports, reconfiguration, token lifetimes |
| attributegen (`attributegen/`) | attribute generators, host expression tokens | `onConfigure`, `attributeGen`, `onDone` | host expressions and filter state, stats (reads what it writes) | token lifetimes over good and bad configurations, first match wins |
| basic auth (`basic_auth/`) | rules by request method, realm | `configure`, `check` | base64, JSON helpers | rules left by earlier or half-read configurations, several rules about one request, ports and v6 addresses, encodings of one credential |
| request context (`common/context.*`, `common/util.*`) | none of its own | `populate...` of the request info, peer metadata, response flags | stats | read once, at a moment that the order of ticks, metadata and connection decides |
| base64, JSON helpers (`common/wasm/`) | none | encode, decode, typed reads, iteration | basic auth, OPA and the other configurations | bits left over, padding, wrapping positions, iteration that stops halfway |
| scaffolds, Zig demo, generated flatbuffers, tests, build scripts | | | | no plugin logic |

What makes the modelled ones correct:

* *local rate limit*: no token is made or lost by an interleaving; refills come
  at most once an interval, whoever ticks, and each is added once; the bucket
  is initialized once; a request is admitted for one token or, only under real
  contention, for none; every request is answered and every refill ends.
* *gRPC logging*: an entry is always in exactly one place, entries leave in
  order, the number of calls in flight is exact, nothing is answered to a
  destroyed plugin, entries are sent in the end, and the shutdown handshake
  ends.
* *OPA*: the cache's containers describe the same entries, as long as no entry is
  evicted whose hash is wider than an `int`; a request is decided only by a
  decision about a payload of its hash, within the validity the plugin holds; a
  paused stream gets a response, unless the VM traps.
* *stats*: what a stream carries is recorded once, by interim and final reports
  together, and completely; the tags of a metric lead to the values the
  configuration asks for; no host expression leaks and each is deleted once (the
  metrics that were resolved before a reconfiguration keep tokens that are
  deleted by then); the queue holds running streams only.
* *attributegen*: host expressions neither leak nor are used after they were
  deleted; attributes are generated as the last configuration that parsed asks,
  all or none of them.
* *basic auth*: a request is denied exactly if a rule in force covers it and does
  not list its credentials; configurations never take protection away; the
  challenge names the realm that the configuration accepted last names, and the
  default before any has named one.
* *request context*: a stream is reported under the service its route or cluster
  stands for, whenever it was looked at; response flags can be read back.
* *base64*: RFC 4648, decoded canonically and without reading past the input.

The `hazards` of
`PROJECT.json` list, line by line, what can go wrong.

## 2. Modules

```
TokenBucket ── TokenBucketLedger ── TokenBucketRefinement ──┬── MCTokenBucket
                                             │ INSTANCE     └── TokenBucketProofs
                                         RateLimiter
GrpcLogging ── GrpcLoggingProofs
ResultCache, JsonUtil ── OpaFilter ──┬── MCOpaFilter
                                     └── OpaFilterProofs ─────┐
StatsConfig, RequestContext ── Stats ──┬── MCStats            │
                                       └── StatsProofs ───────┤
AttributeGen ──┬── MCAttributeGen                             │
               └── AttributeGenProofs ────────────────────────┼── DataProofs ── Base64
Base64, JsonUtil ── BasicAuth ──┬── MCBasicAuth               │
                                └── BasicAuthProofs ──────────┤
Base64, ResponseFlags ── Codecs ── CodecsProofs ──────────────┘
```

`DataProofs` has the lemmas the other proofs share: induction over ranges of
numbers, and what a fold over a sequence or a set computes.

### TokenBucket: the rate limiter on all VMs

`bucket` and `lastRefilled` are the two cells of the shared data. Between any
two host calls of a callback other VMs may run, so **one action is one host
call** with the local code up to the next one; `pc[v]` names the host call VM
`v` makes next, `seen`, `stamp` and `retries` are its local variables.

| Code (`bucket.cc`) | Actions |
|---|---|
| `initializeTokenBucket` | `InitializeFound`, `InitializeNotFound`, `InitializeLastRefilled`, `InitializeBucket` |
| `getToken` | `GetTokenDenied`, `GetTokenRead`, `GetTokenTake`, `GetTokenRetry`, `GetTokenGiveUp` |
| `refillToken` | `RefillReadLast`, `RefillTooEarly`/`RefillDue` (the clock), `RefillWin`/`RefillLose`, `RefillNoBucket`/`RefillReadBucket`, `RefillAdd`/`RefillRetry` |

The code only uses a cas number to find out whether the cell was written since
it was read, so a cell carries the set of VMs whose last read is current
(`bucketCurrent`, `lastCurrent`) instead of a number: reading adds the VM,
writing empties the set. This is exact as long as the host's 32-bit numbers do
not come round between the read and the write of one VM.

`TokenBucketLedger` adds history (tokens supplied and taken, requests let through
without one, wins, refills, initializations) beside the program; it restricts no
step. `RateLimiter` is the abstract specification: one bucket, one clock, and the
requests admitted so far, with a token or without. Its atomic steps are
`Announce`, `Fill`, `Take`, `Bypass`, `Earn`, `Add` and `Advance`. `Bypass` is the
request that goes on without a token; it is possible only as often as the changes
of the bucket so far can have disturbed all the attempts of a request.
`TokenBucketRefinement` maps the VMs' state and the ledger to it.

### GrpcLogging

One root context; every action is a whole callback. An entry is its number.
`accepted` is the number of calls of `sendLogRequest`'s loop the host accepts
before it refuses one, any number up to all. `calls` are the requests of the
calls the host is making; each is answered by `OnSuccess` or `OnFailure` in any
order. `life` is the host's side of the shutdown protocol: `OnDoneNow` is
`onDone` returning true, `OnDoneLater` returning false, and `CallEnds` calls
`proxy_done`.

### ResultCache and OpaFilter

`ResultCache` gives `check`, `add` and `use` of the cache as operators on the
three containers. `ComputeHash` multiplies in the width of `uint64_t`, `ThroughInt`
is the conversion of a hash to `int` and back in `use`, and `ok` turns FALSE when an
iterator is used whose list node is gone. `OpaFilter` has the streams of one VM:
a check that hits, that misses and calls, and that misses with the call
refused; the answer with a decision, with an unusable body (the host reports a
timeout as an empty one), and for a stream that has ended. For the last one
`getContext` is null and the code does not look: the outcomes are a trap of the
VM, or a callback that reaches no stream but still fills the cache.

`OnConfigure` is `onConfigure` with `parseConfiguration`, on JSON values: a field is
set as soon as it is read, so a configuration that is refused at a later field
leaves the earlier ones set (`Parsed`). `calls` maps the stream of a pending call to
the payload whose hash the callback has captured, and `last` is the decision of
the last callback. The counters of hits and misses are written and never read,
and are left out. `FairSpec` adds that the host answers its calls.

### StatsConfig and Stats

`StatsConfig` is `initializeDimensions` as operators: which definitions are
accepted, how overrides drop metrics, remove tags and replace their sources, and
at which position of the dimensions each tag of each metric ends up. The 25
standard labels are four, one for each group that the code treats alike (peer,
TCP, protocol, HTTP), and the metrics are one for each way a value is taken from
the request info: constant, difference of message counts, swapped out, kept.
The code goes through the factories in the order of an `unordered_map`, which is
not specified; the model has one fixed order. The order matters only to a
malformed override, which ends the loop when some factories have been treated and
others not; no theorem depends on it.

`Stats` has the root context, its streams and the host's tokens. `Configure` and
`ConfigureInvalid` are `onConfigure`; `Report` is `report` on a record of the
state it changes, since `onTick` calls it for every stream in the queue;
`Populate...`, `Dimensions`, `Resolve`, `Value` and `Extracted` are its parts.
`metrics` is the cache of resolved metrics, which configurations do not clear.
`PeerKnown`, `Connect` and `Message` are the host's: they decide what a report
can see. What it makes of that is `RequestContext`: the destination service from
the route, the cluster, the cluster's metadata or the host header
(`PopulateDestinationService`), and the peer from the filter state or the
endpoint's workload label (`PeerNode`).

### AttributeGen

One root context and the filter state of its streams. The three outcomes of
`onConfigure` are `ConfigureUnparsable`, `ConfigureRejected` and `Configure`.
`RunGenerators` is the loop of `attributeGen` over the generators; what each
condition evaluates to is chosen anew for every callback.

### BasicAuth, JsonUtil

A configuration is a JSON value: a record whose field names its type (`JsonUtil`).
`Extractable` collects what `extractBasicAuthRule` demands of a rule object,
`ReadObjects` are the rule objects before the first such one, and `RulesWith` adds
their rules to those there are. Hosts and paths are sequences of characters and
credentials sequences of bytes, since the code cuts, matches and encodes them.
`path_pattern` of a rule with an empty path is never set: it is any value.
`Response` is the loop of `check` over the rules of the method. The rules a
reference reads (`Covers`, `OnPath`, `HasAccess`) are written from the README's
description of a rule and share only the test that accepts a rule with the
model of the code.

### Base64, ResponseFlags and Codecs

`Base64` has the tables and the loops of `base64.h`, folded over the input with the
bits carried between characters; `Rfc4648` is the reference, which looks at the
input as one string of bits. `ResponseFlags` is `parseResponseFlag` on sets of bits.
`Codecs` lets TLC enumerate inputs; its two actions only build them.

## 3. The host

The host is not part of the repository. It is modelled from how the plugins use
it:

* `setSharedData` with a cas number succeeds exactly if the cell was not
  written since that number was read; without one it always succeeds.
* A proxy creates the VM of one thread and configures it before it clones the
  VM to the others (`CanaryFirst`). `rate_limit_live` drops this assumption, and
  the theorems that need it say so.
* `getCurrentTimeNanoseconds` is the system clock. It may be set back
  (`ClockStepsBack`); results about the pace of refills assume it is not.
* Streams end, and are logged, before `onDone` is called, once. The timer runs
  until the plugin is destroyed, and it is destroyed when `onDone` returns true
  or `proxy_done` is called.
* Every HTTP and gRPC call that was accepted is answered once, with a timeout
  at the latest. Calls belong to the root context, so they outlive the stream
  they were made for.
* A new configuration may be loaded into the root context that has the old one,
  the first one before there are streams; the plugin stays as it is after a
  refused one.
* `httpCall` is refused for a cluster the proxy does not know, and may be refused
  for other reasons.
* Expression tokens are not used again after they were deleted; evaluating a
  deleted one fails.
* TCP peer metadata arrives at any time while the connection is open, or turns
  out to be missing; for HTTP it is known before the response's headers. On an
  outbound listener the peer is upstream, so it is not known before the upstream
  connection exists.

## 4. What the runs check

| Run | Instance | Shows |
|---|---|---|
| `rate_limit` | 3 VMs, canary first, 2 refills, 2 attempts | `Conservation`, `SupplyBound`, `RefillPace`, `InitializedOnce`, `BypassBound`, `BucketCapped`; the VMs implement `RateLimiter` (`RefinesRateLimiter`) |
| `rate_limit_live` | 3 VMs configured in any order, clock moves both ways | requests are answered and refills end |
| `grpc_logging` | requests of 2 entries, 5 entries | entries are in one place and in order, calls are counted exactly, nothing is answered after destruction, entries are sent |
| `opa` | 3 streams, 3 payloads with 2 hashes, cache of 1, 2 of 3 configurations | `CacheInStep`: the containers agree, up to entries whose hash is no `int`; `DecisionJustified`: decisions are about a payload of the same hash and within the validity held; `PausedIsResumed`: a paused stream gets a response or ends, unless the VM traps |
| `stats` | a TCP and a gRPC stream, outbound, 2 of 5 configurations | `TokensHeld`, `QueueLive`, `CountedOnce`, `FinalReportComplete`, `DimensionsAsConfigured`, `ServiceAsRouted` |
| `attributegen` | 1 stream, 4 loads of 4 configurations | `TokensExact`, `AttributesAsConfigured` |
| `basic_auth` | 2 of 9 configurations, 144 requests | `AccessAsConfigured`, `RealmAsConfigured`, `DeniedStaysDenied` |
| `codecs` | strings of up to 6 of 6 bytes, pairs of 64 flags | `EncodeIsStandard`, `DecodeInverse`, `DecodeCanonical`, `DecodeInBounds`, `NoInformationLoss` |

The other runs end in a violation. Each states something the repository's
documentation or comments say, and TLC's trace shows what the code does
instead:

| Run | The code |
|---|---|
| `grpc_logging_destroy` | `onDone` returns true, or `proxy_done` is called, with unsent entries |
| `grpc_logging_drain` | a tick after `onDone`, or refused calls in `onDone`, and `proxy_done` is never called |
| `opa_evict` | a hash that does not fit an `int` is evicted from the list only, and the maps grow past the limit |
| `stats_dropped` | a metric that a new configuration drops is still recorded, from the cache of resolved metrics |

`findings` in `PROJECT.json` quotes the lines.

Further facts about the code that the models show, without a run of their own:

* rate limit: an initialization overwrites a bucket in use when `CanaryFirst` is
  FALSE; the initial tokens are `tokens_per_refill` without the cap, so
  `BucketCapped` needs `TokensPerRefill <= MaxTokens`. After `maxGetTokenRetry`
  mismatches a request goes through without a token (`GetTokenGiveUp`), where
  README.md:20 of the repository says "Each request processed by the filter
  utilizes a single token"; `BypassBound` and the step `Bypass` of `RateLimiter` say
  how often.
* OPA: the callback of a call runs for streams that have ended (`AnswerTraps`,
  `AnswerGone`), and plugin.cc:87 does not check for null, as stats/plugin.cc:548
  does; if the VM traps there, the streams that wait stay paused. A configuration
  without `check_result_cache_valid_sec` keeps the validity of the one before, where
  plugin.cc:204 says "If not provided, result won't be cached."; `opa` has this case,
  and `DecisionJustified` is therefore about the validity the plugin holds. A negative
  validity becomes a huge one. Two payloads that exchange the strings of two
  fields share a cache entry, and one is decided by the answer about the other:
  `opa` has such a pair, and `DecisionJustified` is therefore about hashes.
* stats: with `Outbound` FALSE a tick can populate the request info of a TCP stream
  before its upstream connection exists, which `populateRequestInfo`'s comment
  (context.h:258) rules out.
* basic auth: an accepted configuration without a realm keeps the realm of an
  earlier one, where basic_auth/README.md:54 says "If not provided, the default value
  is `istio`."; `RealmAsConfigured` states nothing about this case. Rules are only ever added, so the credentials of an old
  configuration go on being asked for; a rule with an empty `prefix`, `exact` or
  `suffix` is accepted and may protect nothing; a credential given in base64 with
  the wrong padding is accepted and never matches what a client sends.

### Bounds, and why they are enough

* Three VMs: one that acts, one that interferes, and a third so that two others
  can interfere with each other's interference (two losers of a refill, writes
  of different VMs between the attempts of one request). The proofs do not
  bound the number.
* `MaxGetTokenRetry = 2` is the least with both a retry and a last attempt.
* `MaxTokens = 3`, `TokensPerRefill = 2` make both a capped and an uncapped
  refill happen, and empty the bucket. The clock covers two intervals of two
  units, with a unit in which a refill is too early.
* Moduli stand for 2^64: the counts of the runs are too small to wrap, except
  in the subtraction of times when the clock is set back. The model keeps the
  arithmetic, and the proofs hold for every modulus.
* Five entries in requests of two give two full requests and a partial one, so
  that a loop of `sendLogRequest` can be refused at its start, in the middle
  and at its end.
* Three streams over a cache of one entry: hits, expiry, eviction, a step after an
  eviction, and two calls about one payload. With `KMul = 5` and `IntModulus = 32` one
  hash is 40, which no `int` holds (the code's `kMul` makes nearly all hashes of this
  kind), and the other is 8, which an `int` does hold and 40 becomes as an `int`: an
  eviction removes its own entry or none. Two payloads with the same strings in other
  fields share the hash 40. A larger cache, in which an eviction removes another's
  entry, is left to the proof, and `opa_evict` has one of two entries. The configurations are one with a validity
  (written as a string), one without, and one that is refused at its last field
  with a new cluster set; a decision is valid for one of the clock's two units.
* Two configurations of stats make every pair of the five follow each other:
  one that is not JSON, the default, one that defines a metric and overrides
  twice, one that drops, and one that is malformed halfway. Two units of data
  let one be reported by a tick and one by the last report. The two streams
  differ in protocol, and share the queue, the metric cache and the tokens.
* Four configurations of attributegen in a row let a good one come after a
  rejected one, with the stream's two phases anywhere between.
* The nine configurations of basic auth cover each kind of path and host
  pattern, both forms of credentials, an empty path, a realm before and after
  rules that are refused, and text that is not JSON; two in a row make each
  follow each. The requests combine methods, paths, hosts with and without
  port, a v6 address, and authorizations that are missing, of another scheme,
  wrong and right.
* Base64 works on groups of three bytes and four characters: strings of six are
  two groups of bytes, and one group of characters with every remainder. The
  bytes include both ends of the range, `=`, and characters whose low bits are and
  are not zero. The flags are tested one by one, and pairs show their order.
* The VMs other than the canary are interchangeable, and so are streams: they
  are symmetry sets in the safety runs only.

### Fairness

* `TokenBucket`: a callback that has begun runs on (weak fairness of each VM's
  steps inside a callback). No callback has to begin. `RefillCompletes` also
  needs a clock that comes to rest: a clock that is set back for ever can make
  refills that keep a slow VM retrying.
* `GrpcLogging`: calls are answered (`timeout` of `grpcSimpleCall`), the timer
  keeps firing, and the host does not refuse every call for ever.
* `OpaFilter`: every call the host accepted is answered (`httpCall` has a timeout).
  A VM that has trapped or is undefined takes no answer, and `PausedIsResumed` says
  nothing of streams that wait there.

`Stats`, `AttributeGen` and `BasicAuth` are checked for safety only.

Deadlock is checked for the rate limiter, whose VMs always have a next step, and
for basic auth, which can always take a request.
The other models may stop: the plugin is destroyed, all streams have ended.

## 5. What is proved

Every theorem is about the specification that TLC runs, for every value of its
constants that satisfies the module's assumptions. These say what the host and
the configuration format guarantee (numbers are numbers, arrays are sequences, a
width is positive, the keys of a JSON object are distinct, time does not reach 2^64
within an interval). What a theorem needs beyond them stands in its statement.

| Theorem | Property | Further assumptions |
|---|---|---|
| *TokenBucketProofs* | | |
| `TypeCorrect`, `LedgerTypeCorrect` | `TypeOK`, `LTypeOK` | |
| `TokensConserved` | `Conservation` | |
| `SupplyBounded` | `SupplyBound` | |
| `BypassesBounded` | `BypassBound` | |
| `BucketKeepsCap` | `BucketCapped` | `TokensPerRefill <= MaxTokens` |
| `RefillsPaced` | `RefillPace` | the clock is not set back |
| `InitializedFirst` | `InitializedOnce` | (the property assumes the canary) |
| `Refinement` | `RefinesRateLimiter` | canary first, clock not set back |
| *GrpcLoggingProofs* | | |
| `LoggingTypeCorrect` | `TypeOK` | |
| `LoggingConserves` | `EntriesInOnePlace` | |
| `LoggingCountsCalls` | `InFlightExact` | |
| `LoggingSendsInOrder` | `SentInOrder` | |
| `LoggingDestroyedWhenQuiet` | `DestroyedWhenQuiet` | |
| *OpaFilterProofs* | | |
| `OpaTypeCorrect` | `TypeOK` | |
| `OpaAnswerResponds` | only a response to a paused stream takes the answer of its call | |
| `OpaCacheInStep` | `CacheInStep` | |
| `OpaDecisionJustified` | `DecisionJustified` | |
| `OpaDecisionAboutPayload` | the decision was about the payload itself | `HashesDiffer` |
| *StatsProofs* | | |
| `StatsTypeCorrect` | `TypeOK` | |
| `StatsTokensHeld` | `TokensHeld` | |
| `StatsQueueLive` | `QueueLive` | |
| `StatsDimensionsAsConfigured` | `DimensionsAsConfigured` | |
| `StatsCountedOnce` | `CountedOnce` | `MessagesKept` |
| `StatsFinalReport` | `FinalReportComplete` | |
| `StatsServiceAsRouted` | `ServiceAsRouted` | `Outbound` |
| *AttributeGenProofs* | | |
| `AttributeGenTypeCorrect` | `TypeOK` | |
| `AttributeGenTokens` | `TokensExact` | |
| `AttributeGenAsConfigured` | `AttributesAsConfigured` | |
| *BasicAuthProofs* | | |
| `AuthTypeCorrect` | `TypeOK` | |
| `AuthAccessAsConfigured` | `AccessAsConfigured` | |
| `AuthRealmAsConfigured` | `RealmAsConfigured` | |
| `AuthDeniedStaysDenied` | `DeniedStaysDenied` | |
| *DataProofs, CodecsProofs* | | |
| `EncodeIsRfc4648` | `Encode(s, TRUE) = Rfc4648(s)` for every string of bytes | |
| `CodecsEncodeIsStandard` | `EncodeIsStandard` | |
| `CodecsDecodeInBounds` | `DecodeInBounds` | |
| `CodecsDecodeInverse` | `DecodeInverse` | |
| `CodecsDecodeCanonical` | `DecodeCanonical` | |
| `CodecsNoInformationLoss` | `NoInformationLoss` | |

The hypotheses are conditions the code does not establish:

* `TokensPerRefill <= MaxTokens`: `initializeTokenBucket` puts in
  `tokens_per_refill` without the cap.
* `HashesDiffer`: the cache compares hashes, never payloads. `OpaDecisionJustified`
  is the result without it.
* `MessagesKept`: a definition may take the name `request_messages_total`, and
  that metric then counts something else.
* `Outbound`: on an inbound listener the peer is downstream and may be known
  before the upstream connection (section 4).

### The arguments

*Rate limiter.*

* `TypeOK` is not inductive: `getToken` writes `seen - 1`, which is a count
  only because the VM saw at least one token. `Locals` says what the locals
  hold at the calls that use them.
* `CasInv` is the heart of conservation: a VM whose cas is current has seen
  what is in the cell. A successful set therefore changes the bucket by exactly
  one token or one refill.
* `SupplyBound` needs `SupplyInv`, which counts refills from the side of the
  bucket: each VM between its win and its addition owes one refill, and
  `OwingChange` says how the number that owe changes with one VM's step.
* `BypassBound` needs `ChargeInv`: each failed attempt, of a request in progress
  or of one that was let through, is charged to a write of the bucket, and a
  write is charged at most once by every other VM. An attempt fails at the moment
  of the write, before its own VM notices, so `Failed` counts it from then on.
* `BucketCapped` needs `CapInv`: what a VM is about to write back is below the cap
  as well.
* `RefillPace` needs `PaceInv`: a VM that holds a current cas of `last_refilled`
  and is about to set it has a stamp an interval after the latest win, unless
  the cell was reset since.
* `InitializedOnce` needs `CanaryInv`: until the canary has set both cells the
  others are new.
* `Refinement` rests on `RInv`: `TypeInv` and `CasInv` with `Waits` and `Timely`.
  `StepSimulation` takes the steps one by one: sets are `Announce`, `Fill`,
  `Take`, `Earn` and `Add`, a request that gives up is `Bypass`, whose bound is
  `BypassBound` after the step, and everything else stutters.

*gRPC logging.* None of the five properties is inductive alone. `LogInv` has the
order of all entries (`Arranged`: answered and in flight before buffered, buffered
request by request, then the one being written), that calls have no entry in
common, and who owns the calls. `SendArranged` and `TakenCount` are about the loop of
`sendLogRequest`: the accepted requests leave the front of the buffer in order, and
because the order makes them disjoint each one is a call of its own, so the counter
stays exact.

*OPA.* `OpaInv` adds to the properties that every cache entry comes from an answer of
the server with its time (`EntriesAnswered`), that the nanoseconds in use come
from the seconds the plugin holds (`ValidityInForce`), that the two maps have the
same keys (`Paired`), that the list agrees with them up to leaked entries (`InStep`), and
that a paused stream has a call (`PausedHasCall`). The operators of the cache are
treated one by one (`CheckOfCache` and its companions), over the removal of an
element from the recency list. An eviction erases the entry whose hash is the
evicted one's `int`. If that is another entry, the evicted one has lost its node for good:
its own hash is no `int`, so no later eviction erases it from the maps
(`ThroughIntTwice`: a hash that was an `int` is the same `int` again), and to use or
expire it takes its dangling iterator. Until then the containers agree.

*Stats.* `StatsInv` has a part about the configuration and one about the streams.
The first follows the loops of `initializeDimensions` (overrides, tags removed
and replaced, positions of the dimensions) and gives that each tag leads to
an existing dimension. The second relates what a stream has recorded to its request info
(`Fits`), says what a cached metric may hold (`MetricsSound`, since configurations do
not clear it), and when the service was found (`Routed`, `PeerAfterConnection`).
`onTick` reports every stream of the queue, in whatever order: `ReportAll` is a fold
over a set.

*Tags of a metric.* `DimensionsAsConfigured` compares what four nested loops left behind
with a reference that looks for the last override of each tag. `Meaning` is the source
that a tag leads to: through the factory's index to a dimension, and through the
expressions to what the host evaluates there. `Grown` says that expressions are only ever added, so a
meaning stays (`MeaningStays`); that an expression already in the table is
found and used again is `IndexOfMeans`. From inside out, `RemoveTagsMean` and
`OverrideTagsMean` say what one override does to one factory, `OverrideFactoriesMean`
that all factories it names get the same in whatever order, and `OverrideAllMeans`
that after k overrides each tag means what the reference says for the first k
(`SourcesOneMore`). An override gives each tag one value because the keys of a JSON
object are distinct; `StatsAssumption` says so. `Fulfilled` is the inductive form:
`onConfigure` establishes it anew, `onDone` ends it, and the other callbacks leave the configuration alone.

*attributegen.* `TokensExact` is not inductive: which token a match has follows from
the configuration the generators come from (`GenInv`), and that new tokens
are new follows from the bound on those in use. `AttributesAsConfigured`
then follows the loop over the generators, attribute by attribute.

*Basic auth.* `RulesInv` relates the rules of each method with the rule objects
in force in both directions, through the two nested loops that add them;
`AnswerInv` keeps an answer together with the rules and the realm it was computed
from. The theorem about
access then compares the code's tests with the reference's, one by one: the port cut off
the authority, host patterns, paths, and, by `EncodeIsRfc4648`, credentials.

*Base64.* After k bytes the loop of `encode` has written the first characters of the
reference and carries the bits of the next one (`EncodeState`); `SextetsOfBytes` ties
the carried bits to the reference's groups of six. `decodeWithoutPadding` writes a byte
and ors the bits of the next character into it: after k characters it has the bytes of
the first k sextets, with zero for the sextets to come (`DecodeState`), and it accepts
a text iff all its characters are in the table and the bits left over are zero
(`DecodeIs`). The two theorems about the round trip then come down to three bytes and four
sextets (`BytesBack`, `SextetsBack`). The assumption is that a string and its
encoding are shorter than the range of `size_t`, of which the model keeps 16 bits.

*Loops.* The models write loops with the folds of the community modules, which are
recursive functions on sets. `FoldExists` and `SetFoldExists` show that a solution of the
recursion exists, by induction on the size (`RangeInduction`, from the least number
outside a set); each proof about a loop names its recursion, and takes what it computes
step by step from it (`FoldStays`, `SetFoldStays`, or `RangeInduction` with `NextPrefix`).
`FoldPasses` and `SetFoldPasses` give the states after each pass, for the loops whose
result depends on which pass came last.

### Only model-checked

* Liveness (`RefillCompletes`, `RequestAnswered`, `LoggedIsSent`, `PausedIsResumed`):
  fairness is beyond the proof system. `OpaAnswerResponds` is the part of the last
  one that is not about fairness.

## 6. Mutants

Every property of a passing run has a mutant in `PROJECT.json`: an operator in
the same module that changes one action the way a slip in the code would (a set
without its cas, a dropped reset, an attempt too many, a stale iterator kept).
With the mutant in place of the original, TLC finds the property violated.

## 7. Not modelled

* Of the rate limiter and gRPC logging: the parsing of the configuration. The
  models take the parsed values as constants; the multiplication of
  `refill_interval_sec` into nanoseconds can wrap and is noted as a hazard.
* Which attributes a log entry or a policy payload is made of: entries and
  payloads are told apart, not spelled out.
* Of stats: the counters of its own cache's hits and misses, metric types, the
  build gauge, the tick period, and the value of every single attribute. The
  same holds for the OPA client's counters.
* Of the request context: the extended request info, audit policy and
  `sanitizeBytes`, which no plugin of the repository uses, and the flatbuffers of
  the local node, which are reads of host properties one by one.
* Of the JSON helpers: the parser (a library) and the typed reads no modelled
  configuration makes.
* Generated flatbuffers, the scaffolds, the Zig demo (no plugin state), tests
  and build scripts.

## 8. Plan

* stats composed with attributegen, whose attribute it reads as a dimension.
* An abstract specification of stats: the counters of a finished stream are its
  totals.
