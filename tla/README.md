# Verification of eunox

eunox is a gateway between MCP hosts (agents) and MCP servers (tools). Every
tool call crosses it: the gateway authenticates the caller, decides the call
against a capability manifest and the state earlier calls left behind (quotas,
call history, flow labels), writes a signed audit record, and forwards or
refuses. This directory holds TLA+ modules of the parts of that program whose
correctness depends on interleaving, failure or order, TLC runs over small
instances, and TLAPS proofs for every instance. Paths are relative to the
repository root; `PROJECT.json` maps every definition to the lines it models.

Reading order: section 1 is the inventory of the system, 2 the plan, 3 how each
module corresponds to the code, 4 the runs, 5 fairness, 6 the proofs, 7 where
the model and the repository's own words disagree, 8 what is left out.

## 1. Inventory

### 1.1 Parts that carry state, and what makes them hard

| Part | Code | State | Operations | What is hard |
|---|---|---|---|---|
| Circuit breaker | `pkg/circuitbreaker` | state, failure streak, cooldown start, half-open slots, successes and generation | `Do`: `allow`, then success, failure or abandon | outcomes arrive after the breaker has moved on; a cancelled probe must give its slot back |
| Kill switch | `pkg/killswitch` | Redis keys (durable), a cache per replica, refresh bookkeeping, pub/sub | kill, revive, reset, `Start`, `Stop`, refresh, message handling, `ShouldBlock` | a refresh scan races kills; events are lost or late; replicas crash or are cut off; staleness must fail closed |
| Call counter, memory | `pkg/callcounter/memory.go` | entries of timestamps and weights under one mutex | `AdmitAll`, `IncrementAndGet`, `Peek`, `Cleanup` | all-or-nothing over several buckets, storage ceilings, a two-phase cleanup |
| Call counter, Redis | `pkg/callcounter/redis.go` | sorted sets with a TTL | one script, one transaction, `Peek` | replica clocks differ, requests overtake each other, a lost reply runs the script twice |
| Decision turn, stdio | `internal/transport/serialize.go`, `keyed_registry.go` | ticket queues per state anchor, pins | take a ticket, wait (bounded for sampling), decide, end | abandoned tickets, queues dropped and rebuilt while tickets are out, missed wake-ups |
| Decision turn, HTTP | `internal/transport/anchor_gate.go`, `session_gate_cache.go`, `http_session.go` | reference-counted gates, per-session pin and cache | acquire, take, release, shed, retire, tear down | reference lost or returned twice while a session ends under its requests |
| Policy decision | `internal/pdp/pdp.go`, `pkg/enforcement` | flow labels, sequence markers and quota per anchor | peek, conditions, ceiling, quota commit, record, roll back, downgrade, release | each store call may fail before or after it took effect; instances share stores but not turns |
| Audit sink, queue | `internal/audit/audit.go` | channel, byte reservation, drop counter and buckets, sync batching | `Record`, drain, drop marker, batch fsync, `Close` | producers race the drainer and `Close`; drops must be reported exactly once |
| Audit sink, chain | `internal/audit/audit.go`, `rotate.go`, `resume.go` | files, directory, seq and prev_hmac, rotation state | write, rotate, prune, recover, resume | power loss between any two file-system calls, failed renames, opens and syncs |
| Audit verifier | `internal/audit/verify.go` | none (reads files) | verify a log, snapshot and re-check | reads a live, rotating log without a lock |
| HTTP sessions | `internal/transport/http_session.go`, `first_request_session.go` | session table, reservations, in-flight counts, kill generation | create, adopt, route, reap, kill-sweep, tear down | cap at its limit, concurrent first requests, state released by id while another object has that id |
| Server-initiated requests | `internal/transport/server_request_unblock.go`, `server_request_pool.go`, `jsonrpc.go` | tracker, worker pool | track, displace, answer, block | displacement at the limit, answers for requests already displaced |
| Messages | `internal/transport/dispatch.go`, `forward.go`, `translate.go`, `revision.go` | the host's pinned revision, calls under nonces | negotiate, gate, decide, record, translate, call, answer | gates read before a wait, ids reused while in use, cancellations that overtake |
| stdio proxy and upstreams | `internal/transport/stdio.go`, `drift_probe.go`, `upstream_open.go` | a child process, its pipes, a reader, a kill timer | start, list and compare tools, serve, signal, tear down | bounded and unbounded waits, descendants that hold pipes open, release against running decisions |
| JWKS cache | `pkg/capability/jwkscache.go` | keys, fetch generation, budget, negative cache | get, refresh, single flight | late fetch overwriting a newer one; thundering refreshes |
| JWT decision point | `internal/pdp/jwt.go`, `jwt_cache.go` | memoised refusals | decide, filter a list, cancel | a token may only restrict what the inner point decides, in every posture |
| Flow-label store | `pkg/flowlabelstore` | labels per key with idle TTL | add, get, remove, clear, cleanup | key ceiling, expiry under use |
| Surface pins and drift | `internal/pdp/surface_pin.go`, `internal/drift` | per-session baseline | pin, compare, release | baseline outliving or missing its session |
| Refusal limiter, notices, health | `internal/transport/record_limiter.go`, `notice.go`, `health.go` | token buckets, latches | admit, report | saturation latch and its release |

Stateless parts (redaction, configuration, encoding, the registry, receipts,
most of the command line) are listed in `PROJECT.json` with the reason they are
not modelled.

### 1.2 How the parts interact

A request arrives at a transport and takes the **decision turn** of its state
anchor (its session, or its task when the route anchors on tasks). Under the
turn the **policy decision** asks the **kill switch** cache, reads and writes
the **flow-label store** and the **call counter**, and gives its turn back
before the call is forwarded. The decision is recorded through the **audit
queue**, whose single drainer appends to the **audit chain**. The kill switch
calls observers when its cache gains a kill; the HTTP transport sweeps its
sessions on that call. Token keys come from the **JWKS cache**, whose fetches
go through a **circuit breaker**. Several gateway processes may share one
Redis: they share stores and the kill keyspace, never a turn.

### 1.3 What makes each modelled part correct

* Breaker: it opens and closes only on outcomes of calls admitted since its
  last transition; no half-open slot leaks; the cooldown runs from the trip;
  after recovery it closes for good.
* Kill switch: a refresh never erases a kill it raced, every kill a cache gains
  is announced, a durable kill reaches every replica within the staleness
  budget, and caches converge once faults end.
* Counters: admission is one atomic decision over all its buckets and is never
  granted over a limit; recorded history stays visible for its window; the
  retry-after of a denial is enough.
* Turns: one decision at a time per anchor, in receipt order on stdio; no
  ticket is waited for that nobody will use; no gate reference is lost or
  returned twice; every admitted request decides.
* Decision: a sink sees the labels of every source forwarded before it; a
  sequence gate sees every antecedent; refused calls pay no quota and leave no
  labels; what is forwarded is on record.
* Audit queue: reservations are exact and bounded, nothing is sent on the
  closed channel, every drop is counted in a marker before the next record,
  `Close` reports success only for a complete log.
* Audit chain: through crashes and failed operations the tape is one chain whose
  breaks are announced wherever the announcement could be written, no record is fused to a fragment, and what an fsync
  covered survives. The verifier accuses nobody of what a rotation did, and
  accepts nothing but what was written.
* Keys: a withdrawn key is believed for a TTL and a fetch at most, a slow fetch
  never undoes a later one, and a rotation reaches the cache after an outage.
* Sessions: workers coming up count against the cap, nobody is served on a worker
  that was not checked or was killed, the cleanup of one worker spares the state
  of its successor, waiters are woken and shutdown leaves no upstream.
* Decision points: pins hold in every posture, a forward carries the redactions and
  labels owed for it, a token only restricts (sampling under observation excepted,
  section 7), lists agree with decisions.
* Messages: whatever reaches the upstream or the host was asked for at the gates after
  its last wait, is on the tape and speaks the peer's revision; an answer reaches the request it is for;
  every initiator of a server request is answered once; suppressed refusals are
  counted.
* Stores: no sweep forgets what is in use; a kill issued from the command line
  outlives the sessions it is for, and its exit says whether it landed.
* stdio life: what is served was reviewed against a whole listing, state is
  released after the decisions on it, no child is left, `Start` returns.

## 2. Plan

Order: what a wrong interleaving or a crash would break worst comes first.

1. **Done.** `CircuitBreaker`, `KillSwitchRedis`,
   `QuotaBuckets`/`CallLedger`/`CallCounterMemory`/`CallCounterRedis`,
   `DecisionTurn`/`TicketQueue`/`AnchorGates`,
   `PolicyDecision`, `AuditQueue`, `AuditChain`.
2. **Done.** `HttpSessions`; `KeyFetch`, which composes the JWKS cache with
   `CircuitBreaker`; `DecisionPoints`; `RefusalRecords`, `HostMessages` and
   `ServerRequests`, each extending the one before; `AuditVerify` over `AuditChain`;
   `FlowLabelStore` and `SessionKillTTL`; `ManifestDrift` and `StdioLifecycle`.
3. **Left to model.** Remote HTTP upstreams (`stdio_http_upstream.go`,
   `http_remote.go`); the cache of verified tokens; `StartCleanup`'s goroutine in
   the call counter (the label store's is modelled); the strict-audit gate as a
   composition with `AuditQueue` rather than as an event.
4. **Proved** (section 6): the breaker, the JWKS cache on top of it, the kill switch,
   the ticket queue, the HTTP gates and the refinement of both, the stdio life, the policy
   decision and the decision points before it, the HTTP sessions, the label store, the
   Redis counter, the kill command's lifetimes, the audit queue, the audit chain, and the
   messages both ways.
5. **Left to prove.** `VerifierIsRight` and `MemoryCounterIsALedger`, whose folds over
   sequences the prover has no induction for.

Abstract specifications: `DecisionTurn`, implemented by both transports, and
`CallLedger`, implemented by the in-memory counter.

## 3. Modules and the code they model

Every action is one atomic step of the code: a section under one mutex, one
atomic operation, one channel operation, one call to a store or to the file
system. Wherever another goroutine, process or fault can come in between, the
model has two steps.

* **`CircuitBreaker`** is `Breaker` and `Do`. `Allow` is `allow()` (three
  disjuncts for the three states), `Succeed`, `Fail` and `Drop` are the three
  outcomes `Do` reports, each carrying the half-open generation it was admitted
  under. `sinceFailure` is `now - lastFailureTime`, saturated at the cooldown.
  History variables (`epoch`, `proved`, `streak`, `sinceTrip`) recount evidence
  independently of the code's counters.
* **`KillSwitchRedis`** is `*Redis`. A management operation is its durable
  write, cache update and publish, in that order, each a step; `Reset` sweeps
  dimension by dimension; a refresh scans key by key, retries when the cache
  generation moved, and on its last attempt commits the union (`Snapshot`).
  `AllClear` is `ShouldBlock` answering "not blocked". External: Redis and
  pub/sub (in order, at most once, lost at any time), partitions, crashes.
* **`QuotaBuckets`** holds what both counters share (windows, weights).
  **`CallLedger`** is the promise of `capability.CallCounter`.
  **`CallCounterMemory`** is the mutex-protected map with its weighted entries,
  its ceilings and the two-phase `Cleanup`. **`CallCounterRedis`** is the script
  and the transaction; a request is sent with the replica's own timestamp and
  executed later, possibly twice.
* **`DecisionTurn`** says that decisions on one anchor exclude each other.
  **`TicketQueue`** is the stdio transport's queue: `Take` by the single reader,
  `Begin`/`Wake`/`End` by the request's goroutine, the timer and the abandonment of
  a sampling request, pins, and the reaping and rebuilding of queues.
  **`AnchorGates`** is the HTTP transport's: registry, session pin and cache as
  three ways to a gate, the one-slot channel, shedding and retirement of cache
  entries, `close` with its bounded drain and the goroutine that drops a
  timed-out session's pin.
* **`PolicyDecision`** follows one decision through `pdp.go` and `engine.go`: the
  refusals before the engine, the label peek, the pure conditions, the ceiling,
  the quota commit, the writes of labels and of the alias and canonical
  markers, the rollback, the observing downgrade with its second recording
  path, and `ClearSessionLabels`. Whether a condition holds is an input
  (`Calls`), and each request is any member of that set.
* **`AuditQueue`** is `enqueue`, `drain`, `flushDropMarker`, the sync batching and
  `Close` of `audit.go`, with the file reduced to writes and fsyncs that succeed or
  fail. **`AuditChain`** is the file side: `writeRecord`, `rotate`, `prunePass`, `Open`
  and the resume. Files are sequences of lines with an optional torn fragment; the
  directory is a sequence of states since the last durable one; a crash keeps
  any prefix of unsynced lines and any of those directory states.

* **`KeyFetch`** extends `CircuitBreaker`: the breaker's callers are the cache's
  forced and background fetches, which any number of verifications join.
  `ValidateToken` and the steps after it are `VerifyWithKeyRotation`: look in the
  cache, refresh when it is stale, force a fetch for an unknown key id or a bad
  signature within the shared budget, remember the id that was not found. Fetch
  tickets are kept by rank. A behaviour is about the cache or about the breaker
  alone with callers of every kind (`library`).
* **`HttpSessions`** is the session table: an attempt reserves, opens, registers,
  checks for drift and serves, or joins the worker of another attempt; around it
  the kill handler, the sweeper with `reapGen`, the reaper, DELETE, exits of
  upstreams, the cleanup goroutine with its last-owner check, and shutdown.
* **`DecisionPoints`** is what stands before the engine: the choice of the governing
  entry, the manifest's refusals and their obligations, the JWT layer around it,
  the pins, the baseline of a session (`Observe`), list filtering and
  cancellation. A decision is a function of a question (target, token, kill,
  what the engine would say); state changes as listings pass.
* **`HostMessages`** follows a host's message: revision (`resolveHostRevision`),
  headers, session gates, the pool, `Decide`, the strict-audit gate, the record,
  translation, `awaitNonced` and every way a call ends, and notifications with
  the wait that keeps a cancellation behind its request. **`ServerRequests`** adds
  the server's own requests: entry, pool, gates, tracker and displacement,
  delivery, replies, `unblock`. **`RefusalRecords`** is the token bucket and the
  saturation gate both put their refusals to.
* **`AuditVerify`** extends `AuditChain` with the verifier as a second process: it
  pins the chain, reads file by file while the sink goes on, classifies each line,
  checks links and seqs and gives a verdict only if `CheckUnchanged` holds. `Rings`
  are the keys it was given. That no edit passes is checked by verifying, for every
  log that was accepted, each of its edits (`Edited`: lines removed, moved, repeated
  or rewritten without the key).
* **`FlowLabelStore`** and **`SessionKillTTL`** are the in-memory label store and the
  lifetime a proxy advertises for session kills, with the kill command that
  adopts it.
* **`ManifestDrift`** is the comparison of a manifest with a listing;
  **`StdioLifecycle`** is `StdioProxy.Start` around it: connect, opener, probe page by
  page, drift check, serving, signals, the drains, the kill timer, `Wait`, release.

Abstractions to know when reading: in `PolicyDecision` a bucket per anchor stands for
all quotas (windows expire in the counter modules), a sequence gate names at
most one target (so it is one `Peek`), and the label store's idle TTL is left out.
In `AnchorGates` which cache entry is shed and when a bounded waiter gives up are
nondeterministic. In `AuditChain` sizes are counted in lines; of a file that cannot be read at a
restart the sink knows the bytes, which are one for each line and up to `MaxSlack`
more. A failed fsync changes nothing and may succeed later, a truncation lasts, and
nobody else writes the files; `Close` is covered by `SyncTail` followed by a crash.
Every write may fail, the marker of a chain reset included, which `Open` writes once
and does not ask after; `lost` remembers such a marker until the next line, whose own
field then says that it stands where the marker should (`MarkerAt`).

## 4. Runs

`tlc -workers 2 -config <cfg> <module>` in this directory; each takes between one
and four minutes on two cores. Deadlock is checked except where the system really
may stop (the stores and the kill switch, where every operation is optional and
bounded, and the log, whose lines and crashes are bounded). Some MC modules hold
several components that share no state: a behaviour is about one of them, chosen
in its initial state, and the others stand still.

| Run | Module | Properties | Instance, and why it is enough |
|---|---|---|---|
| `key_fetch` | `MCKeyFetch` | `WithdrawnKeysExpire`, `CompletionCannotUndoStart`, `BreakerIsSound`, `RecoveryIsComplete` | 3 callers, threshold 2, 2 probes, cooldown 2, 4 half-open windows: two calls can be stale across two windows while a third probes. Behind it 2 verifications, a forced and a background fetch that overlap, 1 rotation, TTLs and timeout of 1 tick |
| `kill_switch` | `MCKillSwitchRedis` | `KillsArrive`, `RefreshNeverErasesKill`, `CachesConverge` | a serving replica and one that only issues (as `eunox kill` does), 2 refresh attempts. Without a clock: the global key and a session key that expires, 2 operations, 1 fault, so a scan can pass one key, be overtaken on the other, retry, and commit the union. With one: one key, staleness 1, scans of up to 1 tick, two operations that race or one that meets two faults |
| `stores` | `MCStores` | `RedisQuotaAndHistory`, `TaintOutlivesSweeps`, `KillCommandIsHonest`, `MemoryCounterIsALedger` | Redis counter: 2 replicas a tick apart, a counted, a weighted and a history key, 3 members alive. Memory counter: ceilings of 2 keys and 2 weighted entries, overlapping batches, a cleanup in progress. Labels: 3 anchors under a ceiling of 2, TTL 2. Kill lifetimes: 2 proxies with 3 flags, 2 starts, 1 command |
| `stdio` | `MCStdio` | `OrderWithoutHoles`, `StartIsVetted`, `ImplementsTurn`, `SamplingKeepsItsTurn`, `TurnsEnd`, `TeardownIsComplete`, `StartReturns` | tickets: 1 anchor (anchors share nothing but the mutex), 2 host and 2 sampling requests, 1 pin, 5 queues, as many as these can build. Gates: one HTTP session, a sampling request against a host request while another splits the session. Life: 18 upstreams for the teardown (heeds EOF or signals or neither, descendants in and out of the group, broken output), every answer to the opener, 8 manifests against listings of up to 3 pages at the limits of pages, tools and bytes |
| `turn_http` | `MCAnchorGates` | `GatesAreHeld`, `ImplementsTurn` | 2 sessions that share an anchor by pin and by cache, 3 requests, one of them sampling the server starts on the second session, a third anchor so that the cache of 1 sheds, teardown at any time, 6 gates |
| `decision` | `MCDecision` | `SinkSeesEarlierTaint`, `SequenceGateHolds`, `ForwardedIsOnRecord`, `StateIsOfTheForwarded`, `SurfaceIsEnforced`, `ForwardsCarryTheirDuties`, `TokenRestricts` | engine: 3 requests, each any of 10 calls on a session or of 7 around a task that 2 instances serve (sources, sinks, gates, aliases, quotas, malformed, unmatched, barred and anchorless ones in each posture), 1 teardown, a fault at every store call; source, faulting call and sink are the 3 a wrong rollback needs. Points: every composition, 24 manifests of overlapping entries, 7 tokens, listings that rotate, duplicate, hide and garble, a baseline of 2 of 3 tools |
| `audit_queue` | `MCAuditQueue` | `QueueAccounts`, `CleanCloseIsComplete`, `TailIsSynced` | 4 `Record` calls of two sizes and two targets, queue of 1, budget 2, 1 bucket (so the overflow bucket is used), fsync every 2, 1 failed write or fsync |
| `audit_chain` | `MCAuditChain` | `ChainSurvives`, `VerifierIsRight` | files of 2 lines, 1 sibling kept, 5 lines, 2 crashes, 2 failed operations, an fsync that does not commit the directory, a marker among the writes that may fail, an unread file whose bytes over-estimate its lines by up to 2: two rotations, a prune, a fallback onto a sibling, a restart on what they left; a verifier that starts at any time on a log with at most 1 fault or crash, a key change, a full and a partial key ring |
| `http_sessions` | `MCHttpSessions` | `CapCoversStarting`, `OnlyFitWorkersServe`, `ReleaseSparesSuccessors`, `NobodyIsStranded` | 2 attempts, each a handshake or a first request of one caller, under a cap of 1 and under a cap of 2 (`Caps`), 1 kill and its revival; the second attempt can be the successor, the joiner or the one past the cap |
| `messages` | `MCMessages` | `GatesGuardBothWays`, `TapeIsTrue`, `AnswersAreAccounted`, `WireIsOrderly` | every message alone at 12 proxies; pairs on one id, on two, with a cancellation, with a full pool and with a pinned revision; 3 server requests that reuse an id, pass the tracker's limit of 1 or carry an id too long, a stream of buffer 1 that fails and ends; buckets of 1 token; a revocation, its revival and a lost record at any moment of a message's way |
| `decision_shared_session` | `MCDecision`, `MCDecisionShared.cfg` | `SinkSeesEarlierTaint` (violated) | 2 instances, one session id: section 7 |
| `stdio_daemon` | `MCStdio`, `MCStdioDaemon.cfg` | `StartReturns` (violated) | an upstream that ignores EOF and writes a line that is no message: section 7 |

`BreakerIsSound`, `QueueAccounts`, `ChainSurvives` and their like are conjunctions of
named parts; each part is stated and commented on its own in its module. The
modules whose `TypeOK` no run lists use it as documentation of the state; it is
part of the inductive invariant where the module is proved about. Every bound is a
named constant (`Max...`) that only limits how much happens, or `TimedBound`. MC
modules give constants their values and change no definition. Every property is
also shown to depend on the code: `PROJECT.json` lists for each a mutated
definition (a dropped guard, a missing reset, a swapped order) under which TLC
finds it violated.

`RefreshNeverErasesKill`, `CompletionCannotUndoStart`, `SamplingKeepsItsTurn`, `BreakerIsSound` and a part
of `MemoryCounterIsALedger` are action properties; `ImplementsTurn`
and the ledger part of `MemoryCounterIsALedger` are refinements; `RecoveryIsComplete`,
`CachesConverge`, `TurnsEnd`, `StartReturns` and `TailIsSynced` are liveness properties.

## 5. Fairness

* Breaker and keys: the clock advances; `Do` reports every call it admitted (its
  deferred failure covers a panic) and a fetch has a timeout; clients keep calling
  and keep presenting tokens of the newest key; the provider recovers at last.
  Without the last two nothing closes a breaker or asks for a key.
* Kill switch: weak fairness of the steps of a running process, of the reconcile
  ticker (`BeginRefresh`), of starting a dead process and of healing a partition.
  None for operators, crashes, partitions or message loss.
* Ticket queue: weak fairness of timers, of `Begin`, `Wake` and `End`; a decision
  ends because its backend calls have timeouts. None for the arrival of requests.
* Gates: weak fairness of a request's own steps and of the teardown steps once
  begun; strong fairness of `take`, because Go serves the senders blocked on a
  channel in order. Nothing makes a session end.
* stdio life: weak fairness of `Start`'s own steps, of a reader at the end of its
  input, of a host handler that is to return, and of the exit of a child that heeds
  what it was told (EOF or a signal). None for signals, the host, a child that heeds
  nothing, a descendant, or a server handler.
* Audit queue: weak fairness of a `Record` call once begun, of the drainer, of the
  timer and of a `Close` once called.

A request, a session and a start pass once in a model, so "whoever is admitted is
answered" is written `<>[](...)`: from some point on nobody is waiting.

## 6. Proofs

`tlapm <module>.tla` checks each proof module; all obligations are proved, for
every value of the constants allowed by the named `ASSUME`s, which TLC evaluates on
the instances above: thresholds, limits and intervals are numbers (`ConfigAssumption`,
`KeyAssumption`, `RefusalAssumption`), a scenario's messages are messages and not more
than its bound (`HostAssumption`, `ServerAssumption`), the attempts of a session table
are finitely many (`SessionAssumption`), the lifetimes a command may be given are
integers and "forever" is longer than an advertised value lives
(`LifetimeAssumption`), `TicketAssumption`, and `PolicyDecision`'s on calls; requests and
sessions that share gates are finitely many and sampling is decided under its session's
anchor (`GateAssumption`); a listing's pages and limits are what the protocol allows and
an exact match of a tool's name scores above every pattern (`LifeAssumption`, as
`internal/drift` scores them); a file of the log takes a line, and bounds are numbers
(`ChainAssumption`). No theorem assumes anything of the order of steps.

* **`KeyFetchProofs`.** First the breaker. `SlotAccounting` is not inductive alone: a stale
  outcome must be known to be stale. `IInv` adds `NotAhead` (no call carries a
  generation or an epoch from the future), `GenTracksEpoch` (calls of the current
  generation were admitted since the last transition) and `CountsAreFresh` (the
  code's counters equal the recounted evidence). One lemma per action, then
  `TypeCorrect`, `NoSlotLeak`, `OpenKeepsThreshold`, `CooldownFromTrip`, and the
  action properties `ClosingNeedsFreshEvidence` and `TrippingNeedsFreshFailures`;
  `BreakerSound` puts together what the run checks as `BreakerIsSound`.
  Then the cache. `WithdrawnKeysAreForgotten` rests on two ages
  (`FetchIsRecent`, `CacheIsRecent`): what a fetch was served is withdrawn no longer than
  the fetch is old, what is installed no longer than that and the cache's age.
  `StartOrderPrevails` (the action property `CompletionCannotUndoStart`) rests on the
  tickets: their order is the order of what the provider served when the fetches
  began (`TicketsAreOrdered`, `FloorsAreServed`). `CacheIsACaller`: `KeySpec` implies the
  breaker's `Spec`, so the theorems above hold behind the cache.
* **`KillSwitchRedisProofs`.** `KillsArrive` is a bound on time, so `IInv` is about ages: a
  kill that counts as firm is durable and no removal has passed it (`Clean`); a refresh
  cannot miss a kill that was firm before its attempt began (`ScanCovers`); a cache
  confirmed some ticks ago by a scan of some ticks holds every kill firm for longer than
  both (`CacheCovers`); and a replica that never confirmed its cache knows that it did not
  (`Confirmed`). `NoRefreshErasesKill` rests on `ScanJustified`: what a scan that nothing
  raced has passed and not found was missing from Redis since it was applied. Both hold
  with and without a clock.
* **`TicketQueueProofs`.** Exclusion rests on `Filed` (an outstanding ticket is on
  the one queue filed under its anchor) and `Covered` (every ticket from the
  one served on is abandoned or has its request), which keep a queue from being
  reaped under a ticket. Proved: `TypeCorrect`, `NoTicketIsAHole`,
  `DecidesInReceiptOrder` (together `OrderHasNoHoles`), and `ImplementsDecisionTurn`,
  that `TicketQueue` refines `DecisionTurn`. The second part is the life of the proxy, with
  an invariant (`LifeIInv`) for each thing `Start` has to account for: the pages read so far
  are the beginning of the listing (`PagesAreRead`), a baseline is of a probe that ended
  (`BaselineIsProbed`), serving began after the check (`StartIsChecked`), the child and the
  reader have somebody who will end them (`ChildIsTended`, `ReaderIsTended`), and who passed
  a drain found nobody or gave up (`HandlersAreDrained`). `StartIsAlwaysVetted` also needs
  that a comparison which finds nothing has met every pin in the listing (`DriftIsCaught`);
  `TeardownIsAlwaysComplete` follows from the parts on the child and the handlers.
* **`PolicyDecisionProofs`.** `IInv` says per request that what it wrote is in the
  stores, that its snapshot covers the sources forwarded on its session (so a
  rollback takes nothing of theirs), and that what was due when it took its turn
  is still there until it reads it. `TypeCorrect` holds outright;
  `ForwardedStaysOnRecord`, `NoSinkMissesTaint` and `SequenceGateNeverMisses` assume
  `SessionsPrivate`: the calls of one session key come from one instance. The
  run `decision_shared_session` shows that the flow theorems need it. A second
  invariant, `LIInv`, adds the ledgers: what an anchor was charged lies between the
  calls that surely paid and those that may have (a charge may or may not have landed
  when the store failed), and every label and marker has an owner.
  `SharedStateIsHonest` follows, under the same assumption.
  The decision points have few states and large functions: the only invariant is what
  the pins and baselines of a session may be (`PinsRecorded`), and the work is a normal
  form. Every decision is one of four (allowed, observed, refused, hard), each layer maps
  these to these, and what is owed depends on the matching entries alone.
  `SurfaceStaysEnforced`, `DutiesFollowForwards` and `TokensOnlyRestrict` are the run's
  three properties, for any manifests, tokens, routes and listings (`PointsAssumption`:
  the targets are distinct, and what the loader validates of a manifest). `TokensOnlyRestrict`
  goes by two lemmas, for calls (the composition with the inner verdicts) and for
  sampling (delegated unless the claims deny it themselves, which section 7 is about).
* **`HttpSessionsProofs`.** An attempt is recorded three times: as the stage of its
  request, in the table, and as the life of its upstream. `Shape` ties the three
  together (who holds the establishing window, that a registered worker is of the
  current kill generation, that a killed one is known to a handler, the sweeper or the
  end of its window), `SlotsFit` counts reservations. `CapHolds`, `ServersAreFit`,
  `CleanupSparesSuccessors` and `NoneStranded` are the four properties of the run.
  For `AnchorGates`, `GatesIInv` counts: the references of a gate are the pins, cache
  entries, requests in transit and turns that are on it (`EveryReferenceOwned`), each owner
  is on the gate filed under its anchor (`OwnersAreFiled`), and the users of a cache entry
  are the requests that came by it (`UsersCounted`). A gate somebody needs then has a
  reference and cannot be reclaimed, so two requests of one anchor meet on one gate:
  `GatesAreAlwaysHeld` and the refinement `GatesImplementTurn`.
  `SamplingAlwaysKeepsItsTurn` adds that a request which spans anchors has marked its
  session before it reaches for the second (`SplitIsNoted`).
* **`StoresProofs`.** `TaintIsExact`: the store's clock of an entry and the history's
  agree up to the TTL (`ClocksAgree`), so whatever a sweep or a reclaim may take, the
  history has forgotten. `KillCommandStaysHonest`: an advertised lifetime that will lapse
  has an advertiser that stopped serving, or changed its lifetime, less long ago than
  the value has still to live (`AdvertIsRecent`). `RedisQuotaHolds`: a quota bucket holds
  every granted call of the window (`GrantedIsStored`), so the room a script finds is
  there; a history is trimmed, and holds a call at least as new as any granted one
  (`HistoryIsCovered`), because a repeated delivery carries the score of the first
  (`MembersAreTheirCalls`); and a key expires after its members left the window on every
  clock (`ExpiryIsLate`). The theorem's hypothesis `OneAccountingPerKey` is how keys are
  built: quotas by count, quotas by weight and histories have namespaces of their own.
  `RedisAssumption` says that skews are within `MaxSkew`, that a history keeps at least
  one call, and that ages are counted far enough (`OldestAge`).
* **`AuditQueueProofs`.** Four strands: `Phases` (the channel's closing is all by which
  `Close` and the drainer learn of each other), `Orderly` and `ByteCount` (a record is in one
  place, so the byte counter is a sum over a set), `Drops` (what the drainer has loaded
  lies between what is marked and what was dropped), `TailCounts` and `Traces` (what is
  not safe yet is in the drainer's hands or has left a trace). The sum is a recursive
  function over finite sets; that it does not depend on the order is proved from a
  smallest set for which it would, by well-foundedness of the subset order.
  `QueueAccountsAlways` and `CleanCloseLosesNothing` are the run's two invariants.
  For the log, `ChainSurvives` says something of the current directory only, and a crash
  may go back to an earlier one with shorter files. `ChainIInv` is therefore about every
  directory state a crash may leave: in each, the files follow each other, every file
  before the last one with lines is durable whole, and what was kept is there under an
  fsync or was pruned (`StatesAreSound`); in each that has the live file, it is the last
  (`LiveIsLast`). `HeadIsRight` ties the sink to the disk: the seq and MAC in memory
  continue what ends each of those states, or the next line is a marker that announces the
  break. `FragmentIsKnown`, `RotatedIsDurable`, `NamesAreRight`, `DownIsQuiet` and
  `MarkersAreDue` say when these may be relied on. That maxima of ordinals and seqs exist
  goes by a least counterexample. `ChainAlwaysSurvives` has no hypothesis on markers: one
  that could not be written is carried in `lost` to the line that follows, so `HeadIsRight`
  also speaks of a break that a lost marker would have announced, and `ChainHolds`
  excepts it by name (section 7). `ChainSurvivesVerification` carries it over to the specification the run checks, where a
  verifier reads the log meanwhile.
* **`MessagesProofs`.** `Counted` is about the refusal records. `HInv` is about the host's
  messages: per message, what its phase says of its records, answers and revision
  (`Mine`) and of the gates it passed (`Gated`); that a nonce is of one pending call
  (`Nonces`); and that every line on the wire is backed by a message that passed
  (`Lines`). `SInv` is about the server's requests: what the tracker holds (`Entries`),
  where a request that was sent on is (`Placed`), what is known about it (`Asker`), and,
  under each id, two counts: requests started are answers, losses, requests not yet
  tracked and the entry (`Account`); ALLOW records and forwards under way are no more
  than the requests replied to, drops and the entry (`Allowed`). Ids are matched and
  not requests, so the counts are of what is left under an id when an entry is taken,
  displaced or overwritten, and the proof is that each of those steps moves one unit
  from one side to the other. The gates are asked past the waits: `live` and `armed` are
  histories that start over when a message's last wait ends (`Waits`), so a kill switch
  or a strict-audit gate asked before the wait does not satisfy `GatesGuardBothWays`.
  What the code does not stop is outside it, and the comments say so: a revocation after
  the kill switch was last asked, and notifications of a strict proxy. `WireStaysOrderly`, `BothWaysStayGated`, `TapeStaysTrue` and
  `AskersStayAccounted` are the run's four properties.

The inductive invariants were checked by TLC on the runs' instances before they were
proved. Five attempts failed for a reason in the model. `ReleaseSparesSuccessors` did
not follow while a release took every exposure of its id off the history although
another release of that id was still under way (`ReleasedElsewhere`). And
`StandingAllowsAreReal` excepted too little: a host that replies twice to one request
takes the entry of another request under that id, whose ALLOW then stands for nothing
the tape corrects, so the exception is two replies to one request; the tracker
became a map of entries with their requests for that. In `DecisionPoints` two arms of
a `CASE` in `recordForwardedRefusal` overlapped, so that which one was meant was TLC's
choice; it is an `IF` in the code's order. And the quota is stated with the limit that
admitted (`WithinLimit`): the loader refuses two limits on one window within a
capability (`validateQuotaBucketsDistinct`), not across capabilities that match one target. In
`AuditChain` an unread file counted exactly one byte for each line, which made the seed
after it exact; with bytes that over-estimate, `SeqsIncrease` failed where two markers of
lost tails follow each other, and the property now says so (`SeqMayRecur`, section 7).

Only model-checked: `MemoryCounterIsALedger` and `VerifierIsRight`, whose trims, sums and
folds are recursions over sequences the prover has no induction for; and all liveness
(temporal reasoning under fairness and `ENABLED` are beyond the prover).

## 7. Disagreements with the repository's own words

**`decision_shared_session`** (a run and a finding). The rollback of a faulted call
removes its labels for every session-keyed request
(`pkg/enforcement/flowlabel.go:454`). The session id of a declaring HTTP peer is
derived from the caller's identity
(`internal/transport/first_request_session.go:79`), so two instances on one Redis can
serve one session key with independent turns, and the rollback of one removes the
label of a source the other forwards. The comment at `flowlabel.go:441` names this
hazard for task keys and says other keys do not have it.

**`stdio_daemon`** (a run and a finding). `readUpstream` returns on a line that is no
message while the child still runs. `awaitUpstreamDrain` then returns at once and
does not kill, the fallback timer is stopped under the comment "Upstream has exited"
(`internal/transport/stdio.go:534`), and `waitUpstream`
(`internal/transport/stdio.go:541`) waits without a bound for a child that ignores the
end of its input, where `internal/transport/stdio.go:722-724` says that such an
upstream must not "hang Start forever". The passing run has every other combination
of heeding and ignoring, and there `Start` returns.

Met while modelling, reproducible by adding the named property to a cfg:

* `IssuerObservesItsKill` (`KillSwitchRedis`, 2 replicas, 1 key, 2 operations, no
  fault). `pkg/killswitch/redis.go:1046` says a `ShouldBlock` between the write
  and the publish "must already observe the kill"; the late event of another
  replica's earlier revive, handled in that window, takes it out of the issuer's
  cache until its own event or a refresh restores it.
* `OverCeilingNeverRuns` (`PolicyDecision`, one observing call that is gated and over
  the ceiling, one source before it). `docs/threat-model-mcp.md:590` says a route
  running `--audit` cannot turn "needs human approval" into "performed anyway,
  logged"; a condition that refuses first (`pkg/enforcement/engine.go:1371`) returns
  a downgradable denial before the ceiling is consulted.
* `RestartLeavesNoFragment` and `FragmentIsNotCorruption` (`AuditChain`, files of one
  line, 4 lines, 1 crash, no fault). `internal/audit/rotate.go:477` makes the
  rename durable before the data; a crash in between can leave a fragment at the
  end of, or as all of, a sibling. `Open` repairs the base only, and takes a
  sibling that is one fragment for a corrupt tail, where
  `docs/threat-model-mcp.md:358` promises truncation and no `tail_parse_failure`.
* `ResetsAreAnnounced` (`AuditChain`, under the run's own cfg).
  `internal/audit/audit.go:751` writes the marker of a chain reset once and ignores
  its failure (`writeIntegrityMarker`, `audit.go:917-928`); `docs/threat-model-mcp.md:352`
  says the reset is "never silent". `ChainHolds` and `SeqsIncrease` except exactly the
  lines that follow such a failed write.
* `TokenOnlyRestricts` without its conjunct `~ClaimsDenySampling(q)` (`DecisionPoints`).
  For a token with a capability list, `JWTPDP.DecideSampling` answers with a plain deny
  (`internal/pdp/jwt.go:1143-1146`) that is not composed with the inner point's verdicts.
  It may be observed, so an `--audit` route forwards the sampling request where the manifest alone
  refuses outright (over its effect ceiling, or an entry sampling cannot honour);
  `jwt.go:1208-1213` gives "a JWT may only restrict" as what the composition of
  the other denies is for.
* `SyncedRecordsSurvive` counts a record only once its file's directory entry is
  durable: `Open` (`internal/audit/audit.go:557`) creates the base and syncs no
  directory, so on a file system whose fsync does not commit the entry a power
  cut in the first run can lose the file with its fsynced records.

* `SeedIsPastDisk` (`AuditChain`, files of 2 lines, 1 sibling kept, 5 lines, 2 faults, 2
  crashes, `MaxSlack` 2). `internal/audit/resume.go:612-613` says of the seed after an
  unreadable tail that it is "past the true max whenever ANY file in the chain is
  readable". The first such seed leaves a gap of as many seqs as the unread file had bytes.
  When the file that begins after the gap cannot be read at a later restart, its bytes
  are added to the highest seq before the gap, and may fall short of the seqs in it. The
  break is announced; `SeqsIncrease` excepts a marker that follows a marker.

* `internal/transport/stdio.go:586-588` says that past the end of the reader a count of
  handlers only falls; on the path where the drain gave up on a reader that is still
  running it can rise. `ReleaseSparesDecisions` excepts that path (`gaveUp`).

## 8. What is not modelled

What is left to model is in section 2. Left out for good: parsing, formatting,
encoding and signing (JSON-RPC, receipts, HMAC computation: a MAC is a number
nobody else has), predicates of conditions and argument schemas (inputs of
`PolicyDecision`), redaction of documents (that it is owed is `DecisionPoints`'),
configuration, the registry, most of the command line, sockets, Redis topology
probes, dashboards and health reports. The seq ceiling is left out of `AuditChain`,
and nobody tampers with the files: edits are put to the verifier only.

Per module: `KeyFetch` leaves out refusals for a token's claims, which touch no
shared state, and the 30 s cache of verified tokens. `HostMessages` leaves out the
notification pool, which is the request pool's code with another size, failed
writes to the host, and remote HTTP upstreams; finding the session is
`HttpSessions`', waiting for a turn `TicketQueue`'s and `AnchorGates`'; methods stand
for their class. `StdioLifecycle` leaves out the bridge to an HTTP upstream, lets a
SIGKILL take effect at once and kills leader and group in one step
(`subprocess_env.go:122`); of drift, the warnings that never decide the verdict, with the
advisory `required` of an argument schema (`drift.go:766-768`), and tools listed twice,
which the code counts twice against the limit of tools (`drift.go:870`). In
`KillSwitchRedis` a replica notifies its observers in the step that changes its cache; the
code does so in the same call, after the release of the lock. `DecisionPoints` records of an
unmatched forward its labels and not that a sequence condition may query it
(`pdp.go:1452`): markers are `PolicyDecision`'s. Real
time appears as ticks where the code compares times, and as nondeterminism elsewhere.
