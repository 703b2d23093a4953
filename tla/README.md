# TLA+ models of llmshim

llmshim is a Rust library and proxy that sends one request format to many LLM
providers. Around the stateless translation sits a stateful core: a distributed
job gateway over Redis, a per-attempt admission and spend ledger, a circuit
breaker with a fleet-wide health store, a local scheduler, rate limiters, quotas
and caches. This directory models that core in TLA+, checks it with TLC and proves
its main safety properties with TLAPS. Paths below are relative to `src/`, the
repository.

Run a model with `tlc -workers 2 -config X.cfg M`, check proofs with
`tlapm M.tla`. `PROJECT.json` lists every run, mutant, theorem, hazard and
finding, and maps every definition to the lines it models.

## 1. Inventory

| component | state it keeps | operations | talks to | hard behaviour |
|---|---|---|---|---|
| Lifecycle store (`src/gateway/distributed/lifecycle.rs`, Lua scripts of `src/gateway/distributed.rs`) | per-job metadata hash, payload, terminal; sorted sets waiting, processing, expiry, origin expiry, DLQ; owners; reservation hashes; counters | reserve, activate, lease, refresh, publish, ack, release, terminal publish, dead-letter, cancel, origin heartbeat, expire origins, reap, cleanup | called by origins, workers and reapers of every gateway process | scripts arrive late, twice or from owners that lost their lease; keys expire at different times |
| Distributed gateway (`src/gateway/distributed.rs`) | origin futures with drop guards, worker tasks with leases and heartbeats, reaper loop, cancellation pump, pub/sub subscriptions | submit, stream, wait, relay, deliver, beat, reap | lifecycle store, pub/sub, provider, rate limiter | crashes, lost Redis answers, broken subscriptions, deadline against completion |
| Circuit breaker and fleet health (`src/breaker.rs`, `src/proxy/health.rs`) | per target: closed with failure times, open since, half-open; Redis failure window, open marker, probe slot | should_skip, reserve_probe, record success / failure, shared is_open, probe, observe | fallback chain, client, Redis | reports of callers admitted before a trip, lost reports, dropped probes |
| Attempt coordinator and spend ledger (`src/gateway/attempt.rs`, `src/gateway/budget.rs`, `src/policy.rs`) | permits per provider; ledger of attempts, window totals, references, frozen windows, expiry heap; tracker flags | acquire, observe usage, finish, abandon, purge | client attempts and streams; in Redis the same ledger for all replicas, with what older versions have spent | reader drop against settlement, batch-cut purge, overflow, late settlement, floors read by one replica and applied by another |
| Local scheduler (`src/gateway/mod.rs`) | per provider: queue with aging, deadline index, notifier, dispatcher, permits; per job a reply channel or a chunk channel | submit, submit_stream, dequeue, requeue, expire, dispatch, drop | rate limiter, client, callers | wake-ups, a permit or a limiter awaited while deadlines strike, callers that leave, slow readers |
| Rate limiter and tenant quota (`src/proxy/ratelimit.rs`, `src/gateway/quota.rs`) | request and token bucket per key, with a penalty; the same in Redis | acquire, penalize, check | scheduler, worker, coordinator | clocks read before the lock or the trip to Redis, all-or-nothing over two buckets |
| Idempotency and response caches (`src/gateway/idempotency.rs`, `src/gateway/http.rs`, caches of `lifecycle.rs`) | entries by owner and key, expiry index, retained footprint; in Redis pointers to terminals, reservations, counters | lookup, store, get, put, cleanup, extend a terminal | chat handler, lifecycle store | concurrent misses, late stores, keys that expire on their own |
| Redis connection cache (`src/redis_operation.rs`) | one multiplexed connection with a generation, creation mutex | run, retire | every Redis user | calls cut off while others use or replace the connection |
| Fallback chain and client (`src/fallback.rs`, `src/client.rs`, `src/client/`, `src/policy.rs`) | chain entry, try, repair round, transport attempt, deadlines, attempt tracker | complete, retry, refresh, repair, fall back, drop | coordinator, breaker, credentials, provider | nested retry loops, timeouts at every wait |
| Streams (`src/client.rs`, `src/streaming.rs`, `src/sse.rs`) | producer task, bounded channel, terminal slot, normalizer, tracker and its cancellation guard | poll, emit, observe, finish, read, drop | coordinator, reader | slow or vanishing readers, two ends that report one attempt |
| Request lifetime (`src/proxy/lifetime.rs`, ingress of `src/gateway/http.rs`) | preparation permits, logical deadline, body pump | admit, select streaming, pump, read | HTTP server, handlers | deadline inside an event, permits that outlive a handler |
| Tool-call assembly (`src/toolcall/`) | parts by choice and index, ids, progress, retained entries | push a frame, complete a choice, finish, abandon | normalizer | interleaved fragments that name their call in four ways |
| Credentials (`src/providers/token_cache.rs`, `src/providers/chatgpt/`) | cached bearer token, refresh mutex; login file with a lock file | header, load, reject; credentials, login, logout | client, token sources, other processes | stampedes, late rejections, rotating refresh tokens |
| Receipts (`src/proxy/wire/receipts.rs`) | a file per receipt, journal, cached index, legacy files | put, get, reconcile, expire, evict, compact | handlers, other processes | crashes between the steps of a write |
| Provider adapters, wire conversion, schema rewriting, router, catalog, CLI | none, or read-only tables | pure translation | client | not concurrent |

What makes the core correct, component by component: a job gets one verdict, and
stale workers cannot change it; every reservation, byte and permit that is taken
is given back once; a provider is called at most `max_attempts` times per job while
its attempts marker lives; every caller is answered; a stream that ends well is whole; spend never passes a
cap by admission, and only an authoritative bill releases a reservation; a target
that fails is skipped in time and probed only after its cooldown; retries multiply
only as configured; a stream or a body that seems whole is whole; a replay is the
answer to the same request; a credential is fetched when it must be and spent
once; what a crash interrupts is finished or undone by the next process.

## 2. Modules

| module | what it is |
|---|---|
| `Lifecycle` | the Redis store, one action per outcome of a Lua script |
| `JobVerdict` | abstract specification of a job: open, one verdict, forgotten |
| `DistributedQueue` | origins, workers, bus, pump, reaper; EXTENDS `Lifecycle` and drives its actions |
| `Breaker` | local breaker, shared store and callers |
| `SpendLedger` | permits, local ledger and attempt tracker |
| `RedisLedger` | the ledger the replicas share in Redis |
| `Scheduler` | the in-process scheduler: queue, dispatcher, tasks and callers |
| `RateLimit` | token buckets in their three forms: one process, tenant quota, Redis |
| `ClientCall` | one call through fallback chain and client |
| `EagerStream` | one provider stream: producer, channel, reader, reports |
| `Idempotency` | chat handler, process-local cache, pointer cache in Redis |
| `Ingress` | preparation permits, logical deadlines, body pump |
| `TokenCache`, `OAuthFile` | bearer token of one process; login file of several |
| `ConnectionCache` | the shared Redis connection |
| `ToolStream` | assembly of streamed tool calls and their progress |
| `Receipts` | receipt files, journal and cached indexes |
| `Components` | the ten components from `RedisLedger` and `ClientCall` down that share no state, side by side |
| `Units` | sums over finite sets, defined by counting |
| `UnitsProofs`, `DistributedQueueProofs` (with `Lifecycle`), `BreakerProofs`, `LedgerProofs`, `RateLimitProofs`, `SchedulerProofs`, `ComponentsProofs`, `ToolStreamProofs` | theorems and proofs |
| `MC*` | values of the constants and symmetry sets for TLC |

Definitions named `...Anyway`, `...ByOne`, `...Keeping...` and the like, standing
just before the definition they vary, are deliberately wrong variants: each
property is shown to fail when one of them takes the real definition's place.

### Lifecycle

A Redis script is atomic, so an action is a script or one of its branches; a branch
that writes nothing is a stuttering step. Clients are unconstrained at this level:
any script may arrive at any time with any token. Deadlines are flags "has passed"
raised by the four time actions, which covers every order of deadlines without a
clock. One generation per id: `next_id` never reuses one. The payload lives and
expires with the metadata; the leased hash is conflated with the owners hash,
written and deleted together with it. A batch script is one step per member,
since members are independent. The `stub` value of `meta` is the hash that the
reaper re-creates after a hard expiry (see Findings). `TimelyReaper` says that a
lapsed lease is reaped before its metadata expires, which holds unless every
reaper is down for the whole cleanup grace. Branches left out because the keys
they test are written together and so cannot disagree: the missing-field cleanup
branch, undecodable payloads, and the acknowledgement of a job whose done marker
exists. `EXTEND_TERMINAL_LUA` and the caches in the same file are in `Idempotency`.

### DistributedQueue

`opc` and `wpc` are the places where an origin and a delivery wait. Every Redis
call either runs, or errs: then the caller goes on with an error and the script
stays in `late`, to run at any later time or never (`redis_operation` has a
timeout, and Redis may execute what the client has given up). `MaxFaults` bounds
the number of such events, of crashes, of broken subscriptions and of expiries of the
attempts marker. A stream
delivery publishes one chunk, enough to tell a whole stream from a truncated one;
a second copy of an envelope is not delivered again, since a reader acts on the
first. The reservation's own cleanup pass is the reaper's action. An origin
subscribes, reserves, activates and begins to wait in four steps, so that a worker
may have published before it waits. The attempts marker may be found expired at any
bump: its lifetime is max(60 s, three leases), which neither the request timeout nor
the time between two deliveries enters. One provider and one queue protocol.

### Breaker

Instants are ages that stop at the largest bound anything compares them with.
Histories keep the newest `Threshold` failures. An admitted attempt may end
unobserved at any time (`EndsUnobserved`): `client.rs` does not report every end. A
delayed report to the shared store is a caller that stays in
`share`. A missing coordinator is a dispatch like any other. One clock; no skew
between replicas. A disabled breaker (threshold 0) is left out.

### SpendLedger

The state mutex makes `acquire`, `observe_usage` and `finish` one step each. The
permit is given back before that mutex is awaited, and that gap is in the model
(`settle`). One tenant and provider. Request and token buckets are a refusal that
may always happen. The expiry heap is folded into the records, of which it holds
one entry each. Every attempt has the reader's guard; a unary one never lets it
fire first. Snapshots come in any order and with any authority. Once an attempt is
over its tracker's flags are reset, as the object is gone. The error branches of
`observe_usage` and `finish` for a missing window are left out:
`WindowsReferenced` shows that they are unreachable, and `LedgerBalances` that
`checked_sub` never fails.

### RedisLedger

A step is a script: carrying over what older replicas have counted, admission, an
observation, a settlement. After each the attempt goes on or, its caller having given
up, is over although the script has run. All keys of a window expire together; the
index does not expire and is cleaned a batch at a time. The scripts read floors of
the current window only, so older ones are forgotten. `read` remembers the most
that any replica has read of a window's older spending; the script's branch for a
bill above the liability is never taken, as in the local form, and is left out.
`PENALTY_LUA` and the four buckets are part of a refusal that may always happen.

### Scheduler

One lane; lanes share nothing but the sequence counter. The queue's mutex makes
enqueue, pop, requeue and expiry a step each; between finding the queue empty and
waiting on the notifier the dispatcher holds nothing, and that gap is in the model.
`hand` is the job that was popped and waits for a permit or for the limiter.
A caller draws its sequence number, reads the clock its age counts from and takes the
queue's lock in three steps, and may be held up between the first two for at most
`MaxSlip`; its deadline counts from the first.
Limiter and provider answer as they like, or never. A chunk channel has `Capacity`
places and the reserved one for the end. Sequence numbers count from the oldest
job and ages stop at their largest bound, which keeps the state finite.

### RateLimit

A caller reads the clock in one step and is served in a later one, which is what
the mutex or the trip to Redis allows. `form` selects in-process buckets, the
tenant quota or the Redis script; they differ in the lock, in who creates a bucket
and in what an earlier clock does to the time of the last refill. A penalty
reaches the two in-process buckets one by one. Fractions of tokens and retry hints
are left out.

### ClientCall and EagerStream

`ClientCall` is the unary dispatch: the three nested loops (fallback tries, repair of
a managed answer, transport attempts), authorization with its one refresh, the
policy callbacks and what becomes of the attempt's tracker at every exit. Answers
appear by what the code branches on, with a list of retryable statuses that need not be
the client's own; a timeout may strike at every wait; breaker,
coordinator and provider are free. `EagerStream` starts when a stream's headers are
there: a frame is what the normalizer makes of it (the choices it opens and the choices it
finishes, a tool call left unfinished, an error), deadlines run in ticks, and a
callback's effect and its answer are separate steps. Embeddings, audio and images
use the same send loop with fewer branches and have no module of their own.

### Idempotency

The chat handler looks up, executes and stores; each is a step, so that equal and
conflicting requests overlap. Digests are injective. Bytes and nodes are charged
and limited alike, so one number stands for both. The Redis pointer cache is its
three scripts plus native expiry, and the terminal a pointer names has a lifetime of
its own. The generic Redis cache runs the same scripts under other keys.

### Ingress

A body is a sequence of text, CR and LF, since the only question is where an event
ends. The pump waits for the source, for room or for an acknowledgement, and in
the proxy it owns the permit. A streaming request may be answered by a plain body,
which decides whether a timeout event can be appended. Ages stop after both deadlines.

### TokenCache, OAuthFile and ConnectionCache

`TokenCache`: an action is what runs under one guard of the token; the refresh mutex
is fair. `OAuthFile`: the file is replaced atomically, a dead process loses its lock,
and the authorization server either rotates a refresh token or leaves it in force.
`ConnectionCache`: generations are numbered as they are made; a call ends answered,
unanswered (its guard retires the generation it used) or before it had one.

### ToolStream

Arguments of a call are two fragments that know whose they are; the provider may
repeat them, replace them or end anywhere. The four wire formats (and their forms
without index or id) differ in how a fragment finds its part. Retention counts
entries only; signatures and other fields are left out. A name or an id comes whole
and once, so that `Assigned` sets what the code appends to
(`src/toolcall/streaming.rs:170`, `301`): names and ids cut or repeated over frames
are not covered. A frame ends one choice, where the code completes every terminal
choice of a frame in turn, and nothing fails after a completion; in the code a later
error of the same frame loses the output of a call that was already shown as ended,
so `ProgressHonest` says of such a call that it was assembled, not that it was
delivered (`src/toolcall/progress.rs:12` asks readers to expect that).

### Receipts

Every file operation and every journal append is a step, and an error or a crash
may follow each; a crash also loses the cached index. A crash is the exit of a
process, not the loss of power: what was written, renamed or removed stays so, and
the syncs of the directory are not steps. An append is atomic: a torn
line makes the journal unreadable and the store refuses to work, which the code
intends. A content's number is its size. Legacy files are never written. The baseline
of legacy files is taken once; the record that takes it anew is left out.
`truth`, which `ServesLastStored` compares with, forgets a receipt that is evicted for
room as well as one that has expired, so the choice of the victim is not checked.

### Components

These ten components keep no state in common: they meet only in calls, whose
outcomes each of them leaves open. A behaviour of `Components` is a behaviour of
one of them, chosen initially, while the variables of the others stand still; its
properties say of that component what the component's module states. Each has the
fairness of its own module.

## 3. Runs

| run | instance | shows |
|---|---|---|
| `lifecycle` | 2 jobs, 2 tokens, waiting and DLQ limits of 1, headroom for one delivery and a half | indexes agree, bytes are exact, stale owners are silent, `JobVerdict` is implemented |
| `lifecycle_live` | 1 job, 2 tokens, timely reaper | every reservation is released |
| `lifecycle_outage` | the same without a timely reaper | violation: finding 1 |
| `gateway` | 1 job, unary or streamed, 2 deliveries, 1 fault or expiry of the attempts marker | answers are the stored verdict, guards are disarmed only on a settled job, streams are whole, a standing subscription misses nothing, dispatches are bounded for each life of the attempts marker |
| `gateway_live` | 1 job, 1 delivery, 1 fault, a cancellation channel that is full | every caller is answered, wasted provider calls stop |
| `breaker` | 2 processes with a caller each, threshold 2, lost and late reports, attempts that end unreported | a circuit trips in time; between two reports of health the fleet marker stands whenever the shared window holds the threshold |
| `breaker_fleet` | the same | violation: finding 3 |
| `ledger` | 3 attempts; within one window two of them, priced and unpriced, with amounts below and above the reservation and an exact range of 4; over three windows all of them, of one price, with 2 retained and a batch of 1 | totals are the sum of liabilities, the cap holds at admission, settlements rest on a bill, reservations stay, windows live exactly as long as their attempts |
| `scheduler` | 2 jobs of four kinds, callers held up for up to 1 tick, queue of 1, 1 permit, 2 chunks through a channel of 1 | no wake-up is lost, aging bounds overtaking below its cap, streams end honestly, every caller is answered |
| `limiter` | 2 callers, 3 configurations, all three forms, 4 ticks | the in-process limiter keeps its rate, a request that could be paid for is not refused once a minute (or the penalty, where that is longer) has passed since a bucket was touched |
| `limiter_shared` | the Redis form alone | violation: finding 2 |
| `components` | see below | fifteen properties of ten components |

`components` has these instances: a chain p, q, p with one retry at each level
and two lists of retryable statuses (requests per entry are bounded); a stream of
four frames of two choices through a channel of one
(a clean end is earned, the provider is let go); three requests, two of them equal and
one in conflict by fingerprint or beside them by key, with a cache of two entries of
the least size
(replays are faithful, both caches account exactly); one request of each kind with a
body of up to four bytes cut into chunks of one (bodies end honestly, permits come
back); two callers and three tokens (sources are asked only when they must be);
three processes and three grants (no refresh token is spent twice, no login or
logout undone); three calls and four connections (the cached connection is the
sound one); three calls of one or two choices in six wire forms (assembled as sent,
progress is honest); two processes, two keys, one with a legacy file, two puts,
compaction after two records, room for two files or two bytes (the last stored
receipt is served, every file is accounted for); two attempts, priced or not, in three windows, an index of two or
three places and one unit spent by older replicas (admissions stay within the fleet's cap).

**Bounds.** Two jobs are needed for counters and queue order to be shared, two
tokens for one delivery to be superseded by another; a third repeats the second.
Limits are chosen so that refusals happen. One fault suffices to reach every error
path; with one fault a late script, a crash or a lost subscription is met at every
point of a job's life. The dispatch limit of 1 with two deliveries makes the second
delivery the one that must not dispatch unless the marker has expired in between; the
theorem covers every limit and any number of expiries. A
threshold of 2 makes a trip take two failures; a window of 2 separates "just
expired" from "not yet". Three attempts are what a purge cut by its batch takes: two
of one window, and one that purges. In `scheduler` the second job meets the first in
the queue, in the dispatcher's hand and in its task. In `limiter` a burst is two
ticks' worth, so four ticks hold a burst, its refill and a second burst. Three tool
calls are the fewest in which a guess of "the last one" can be wrong twice; a third
process in `OAuthFile` acts between the look and the lock of another. Two puts
and three journals let an interrupted put meet a compaction by another process.
Symmetry is used over tokens, attempts and callers, in safety runs only.

**Deadlock** is checked in `breaker`, where somebody can always act. It is not
checked where a system may rightly stop: all jobs answered and forgotten, all tokens
used, all attempts over, or the clock at its bound.

**Fairness.** `Lifecycle!FairSpec`: time passes, and the reaper loop, which every
gateway process runs on a timer, comes to each member; nothing is asked of origins
and workers, which may crash. `FairGateway`: weak fairness of an origin's own calls
and deadline timer and of a worker's heartbeat and completion, which are polled
futures and timers with timeouts on each call; nothing is asked of callers,
providers, the bus or the reaper. `Scheduler!FairSpec`: time passes, the dispatcher
task and the spawned tasks are polled, and a caller's own timers fire; nothing is
asked of provider, limiter or reader. `EagerStream`: time passes, the producer task
is polled and a callback that does not answer times out. `Ingress`: time passes and
the pump task and the two timers run; handler, source and client may do nothing.

## 4. Proofs

All theorems hold for any finite set of jobs, attempts or callers and all values
of the bounds that meet the modules' ASSUMEs: durations, sizes, limits and counts are
natural numbers, positive where the code refuses zero; a cap is exactly
representable; a cancellation notice fits into the terminal headroom; and the marks
`"none"`, `"nobody"` and the like name no process, call, key or number; receipt keys
are finitely many, as digests are; and a layout of tool calls is a sequence of choice
numbers.

**Sums.** A sum is defined in `Units` by counting: a member worth n contributes n
units, and the sum is the number of units. Its laws (`SumSplit`, `SumChange`,
`SumParts`, `SumMonotonic`) are then laws of cardinalities, and nothing about balances
needs an induction over a set. Where an induction over numbers would be expected, the
proofs take a least counterexample (`LeastNat`), and greatest members of finite sets
come from the same lemma (`FiniteMax`, `FiniteMin`).

**Folds.** The library's induction theorems take an operator as a parameter, which the
installed provers cannot instantiate, but they can instantiate a set: `Induct` says
that a set of numbers that contains 0 and the successor of each member below m contains
all of 0..m. What a recursive function computes is then proved by naming the set of
arguments where it computes that: the states of an SSE boundary over the bytes of a
frame (`IsObserved`), the index over the records of a journal (`IsTrace`), the
parts over the updates of a tool-call frame (`PieceResult`) and over the items that a
completed response repeats (`RepeatedAll`).

- **`DistributedQueueProofs`, the store.** `TypeCorrect`. `IndexesAgree` and `NothingLost` come from
  one invariant, `Indexes`: the two support each other, because a fresh member is in
  no index only if it holds no reservation, and need two more facts (`Remnants`):
  reservations belong to issued members, and absent metadata leaves neither mark nor
  charge. `JobsCountedHolds` adds the counter and `BytesConservedHolds` the bytes,
  which change by what the one member's charge changes. `StaleWorkersSilent`, that nothing is
  published under a superseded token, rests on "the owner is the latest token". `StoreImplementsVerdict` is the refinement: each
  script maps to one step of `JobVerdict` or a stutter. `HeardInvariant`: what was
  published as a verdict is the verdict, and stays so when the terminal expires.
- **`DistributedQueueProofs`, the gateway.** A lemma, `GatewayImplementsStore`, says that
  every step of the composition is a store step or leaves it alone, given that pending
  late calls name real jobs and tokens (`CallsNamed`); it is how the store's invariants
  and `GatewayOneVerdict` come to hold of the gateway. `ResultIsVerdictHolds`: an answer is read from the
  terminal or from the bus, which carries only what was published (`AnswerOk`), and
  that is the verdict by `HeardInvariant`. `GuardCoversHolds` ties every place of an origin
  to the state of its guard (`GuardOk`) and uses that a settled job stays settled.
  `StreamWholeHolds`: the invariant (`StreamOk`) is about positions on the bus: a result
  lies behind the chunk of its own delivery, since nothing is published after a verdict.
  `NothingMissedHolds`: before the subscription nothing has been reserved, by the origin or
  by a late call of its own, so nothing has been published (`Unheard`); from then on a
  message leaves the bus only by being relayed (`Kept`).
  `DispatchesBoundedHolds` is not inductive alone: deliveries that have counted an
  attempt and not yet dispatched are added to the calls made, and each expiry of the
  marker adds `max_attempts` to what may be made (`AttemptsInv`).
- **`BreakerProofs`.** `CooldownHolds`, `ProbesCooledHolds`, and `HalfOpenProbedHolds`: a
  half-open circuit has a probe on its way unless its own probe ended unobserved, which
  the history `strayed` records. `TripsInTimeHolds`: a closed circuit's window and
  the history of its failures are compared from their newest ends (`Back`); the window
  has every entry of the history that is still fresh (`Covers`) and is below the
  threshold. `FleetTripsInTimeHolds` says the same of the shared window and adds that the
  marker is no older than the last failure of a full window (`Marked`). Both needed
  `Trimmed` to drop a stale prefix, as the code does, where the model had filtered.
- **`LedgerProofs`.** `LedgerInv` = shapes, exact reference counts
  (`WindowsReferenced`), `SettledByBill`, and "an unpriced attempt holds no
  terminal estimate" (`UnpricedOpen`), without which an unpriced attempt could be
  thought to settle on the catalog. From it: `WindowsReferencedHolds`,
  `SettledByBillHolds`, `ReservationKeptHolds`, `LateSettlementHolds`,
  `FreezeIrreversibleHolds`. `BalanceInv` adds the money: a retained window's total is
  the sum of its liabilities, and at least that once a purge may have begun; the parts of
  liabilities that were reserved stay within the cap; only settlements release part
  of a reservation. From it `LedgerBalancesHolds`, `CapHoldsHolds` and the whole
  of `TypeCorrect`. `PermitsLiveHolds` has an invariant of its own.
- **`RateLimitProofs`.** `LocalRateHolds`, for every interval of ticks. Whatever was
  admitted since a tick t, plus what is left in the bucket, was in it or was filled in
  during the time since the earliest clock that a caller served at t can have read
  (`Paid`, `Span`); intervals that are over keep their rate (`Kept`). `DenialHolds`:
  a bucket is full a minute after it was last touched (`FillsUp`). The attempt showed
  that "a minute" is wrong for a penalty longer than that, which
  `LLMSHIM_PENALTY_SECS` allows; the property says so now.
- **`SchedulerProofs`.** `NoLostWakeupHolds`: the invariant begins where the dispatcher
  finds the queue empty, before it waits. `StreamEndHonestHolds`. `LaneInvariant`: jobs
  are where their state says, and an earlier number is younger by no more than its caller
  was held up (`ByArrival`). From it `StarvationBoundedHolds`: the front of a tier is its
  longest waiting job but for that, a front that loses does so by a whole step of
  priority, a step is worth `AgingStep`, and a front that loses to less than the cap has
  not reached the cap itself.
- **`ComponentsProofs`.** A section per component, each with an invariant that is
  inductive for its own steps and trivially kept by the others'.
  - `SendsBoundedHolds`: each finished try and round is charged with the requests it
    may have made (`ClientCharged`); a refresh uses up an attempt like any other
    retry, which is why it does not appear in the bound.
  - `RefreshExclusiveHolds`: who is past the lock holds it; what an exchange was begun
    with is still on file (`OnFile`); neither the file's token nor a login's is spent
    (`FileFresh`, `LoginFresh`).
  - `SoundOneCachedHolds`: only the holder of the creation mutex connects, and only
    while nothing is cached (`OneConnects`).
  - `CleanEndEarnedHolds`: where the producer can be only with a whole answer
    (`EndsWhole`), that at most one end has reported (`OneReport`), and what a closed
    channel means (`CleanEnd`).
  - `SourceCallsJustifiedHolds`: the cached token is the newest, or there is none and the
    newest was rejected (`TokenInv`).
  - `ReplayFaithfulHolds`: every entry and pointer is what a finished request stored
    (`Kept`); a finished request is never moved again, so this stays.
  - `CacheAccountedHolds`: one entry, one place in the index and one charge per key
    (`LocalInv`, `RedisInv`); a store replaces before it adds.
  - `FleetCapHoldsAlways`: a window's total covers its liabilities and the floor that was
    applied to it, unless it is frozen; and the floor covers all that was read of older
    replicas' spending, or admission is halted beyond the window's end
    (`WindowCovered`). A window does not expire before it ends (`WindowEnds`).
  - `BodyEndsHonestHolds`: the three flags of the boundary are tied to the last bytes of
    all that was delivered (`Describes`), carried through a frame byte by byte, and shown
    to say exactly that these are whole events (`BoundaryExact`); and the source's bytes
    are, in order, delivered, in the channel or still to be sent (`BytesInOrder`).
  - `ServesLastStoredHolds`, `FilesAccountedHolds`: one invariant, `RecInv`. There is an
    index i of the whole journal and every cached index is that of a beginning of it
    (`Journaled`), so a refresh from anywhere gives i, and a compacted journal gives
    the same entries and shadows. With the files and the scratch file, i tells what was
    last stored (`TruthKept`), which files there are (`FilesKnown`), that what is pending
    fits (`PendingSound`) and that the limits hold (`Within`); the holder of the lock
    has i and knows how far it is (`Working`).
- **`ToolStreamProofs`.** `AssembledAsSentHolds` and `ProgressHonestHolds` come from one
  invariant, `ToolInv`. The parts of choices not completed are exactly those of the calls
  begun in them, at their keys, with their own name, id and text so far (`Assembly`);
  calls of a choice begin in order, so that the next part's index is the number of
  parts (`Downward`); the maps of the Gemini parser point at the right parts and go with
  their choice (`Placed`, `Gone`); what was completed is what was written (`OutAs`); and
  the reader of progress events has the visible text of what is open (`Progress`). What
  a list of updates does to one part is proved once (`PieceResult`); then each wire is
  shown to address the part of the call its frame is about: by position
  (`FrameStep`), by id or by the index guessed for a piece without one (`GuessedRight`),
  by the Gemini maps (`GeminiAt`), or item by item (`RepeatedAll`).

`NothingUnindexed`, `JobsCounted`, `CooldownFromLastFailure`, `ProbesCooled`,
`HalfOpenProbed`, `PermitsLive`, `LateSettlement`, `FreezeIrreversible` and the type
invariants are proved and not part of a run.

Only model-checked: the liveness properties `ReservationsReleased`,
`EveryoneAnswered`, `WastedWorkStops`, `EveryCallerAnswered`, `SourceReleased` and
`PermitsReturned`, since fairness and ENABLED are out of the prover's reach. Every
invariant and every other action property of a passing run is stated by a theorem.

## 5. Findings

1. **A reaped orphan is never released** (`lifecycle_outage`). `REAP_LUA` marks
   `cancel_requested` before it compares the generation. On a member whose metadata
   has hard-expired this creates a fresh hash without a lifetime, and `CLEANUP_LUA`
   then postpones the member for ever, although `docs/src/proxy/scaling.md:395` says
   the reservation indexes release counters "even after payload and metadata hard
   expiry".
2. **The shared bucket refills twice** (`limiter_shared`). `load_bucket` of
   `RATE_LIMIT_LUA` keeps the caller's timestamp as the time of the last refill even
   when it is earlier than the stored one, so a request served with an earlier clock
   sets the bucket back and the next one refills the same time again;
   `src/proxy/ratelimit.rs:543` says that one shared bucket "gives a true global limit".
   The in-process bucket keeps the later time (`LocalRateHeld`).
3. **An uncounted failure clears the fleet's window** (`breaker_fleet`). `observe` tells
   the store that a target is healthy for every failure that does not count, a 400 or a
   429, and the store then deletes the failure window, the open marker and the probe
   slot, although `src/breaker.rs:280` says that "only health-relevant failures move the
   shared window" and the local breaker (line 203) takes care that such a probe "is not
   mistaken for recovery". `FleetTripsInTime` therefore speaks of the failures since the
   store was last told of health, however it came to be told.

Also seen while modelling, without a run of their own:

- Breaker. Local failures, timeouts, policy refusals and dropped futures report
  nothing (`src/client.rs:312`), so a half-open circuit may be left without a probe,
  although `src/breaker.rs:178` obliges the caller to report; `HalfOpenProbedHolds`
  shows that nothing but the probe's own unobserved end leaves it so. An uncounted failure of a caller admitted
  before the trip returns a half-open circuit to open with its old opening time
  (`src/breaker.rs:212`), and a second probe may start beside the first.
- Gateway. `max_attempts` is said to bound the deliveries of a poison request
  (`src/gateway/mod.rs:503`) and the attempts marker to be "long enough to outlast
  redelivery" (`src/gateway/distributed.rs:1587`). Its lifetime follows the lease alone:
  a delivery that heartbeats for longer than that, or a job that waits longer, is
  counted from one again, which is why `DispatchesBounded` counts the marker's lives.
- Ledger. In `LocalAttemptRates::finish` the branch for a bill above the liability
  is never taken, because `observe_usage` has raised the liability to every amount
  a bill can be made of.
- Scheduler. `src/gateway/mod.rs:95` says that an abandoned job "will never burn a token";
  one abandoned while the limiter is awaited has. `max_boost` is said to bound the
  worst starvation to about the tier gap times the step (`src/gateway/mod.rs:491`), but
  once boosts are capped a higher tier overtakes for ever: with a gap as large as
  `max_boost`, or a backlog that itself waits that long, nothing rescues the lower tier.
  `StarvationBounded` therefore claims nothing where the wait of the job taken and the
  gap are together worth the cap. A caller preempted between its number and its clock
  (lines 648, 662) is in front of its tier with a shorter wait than those behind it.
- Limiter. The tenant quota's `Bucket::refill` sets its time back as the Redis script
  does. `PENALTY_LUA` may shorten a penalty and does not begin the time of an unused
  bucket. A request larger than the burst gets a retry hint that never succeeds.
- Idempotency. Two equal requests in flight both execute and the last store wins; the
  handler's comment speaks of the first result. A pointer may outlive its terminal,
  which reads as a miss.
- Streams. A body finished exactly at its deadline may get the timeout event
  appended. The name in a tool call's first progress event may differ from the
  completed one.
- Receipts. A torn journal line makes every later operation fail until it is removed.

## 6. Plan

1. A common abstract ledger that `SpendLedger` and `RedisLedger` both implement; the
   request and token buckets inside the Redis admission script.
2. Composition of `ClientCall` with `Breaker` and `SpendLedger`, which it leaves
   open today, and of `EagerStream` with `ToolStream`, of which it sees a frame's
   class only.
3. Proofs: that both ledgers implement the abstract one of item 1.
4. The schema memo's eviction and walk budget; the usage merge as a pure operator
   against a reference definition; the bounded restoration of receipts.

Not modelled: provider adapters apart from their credentials, wire conversion,
schema rewriting, router and catalog tables, CLI and server start-up,
authentication and metrics. They are pure translation, table lookup or I/O with no
protocol state, and they and the unit tests inside the source files are most of
the repository's lines. Clock skew between replicas, message contents, redelivered
chunks of a stream (documented as at-least-once) and the bounds on what one
request may restore from receipts are outside the models as well.
