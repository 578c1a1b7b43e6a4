# TLA+ models of OptionChain-Simulator

This directory holds TLA+ specifications of the parts of the simulator that are
hard to test: requests racing for one simulation on several replicas, single
flight builds that a disconnect interrupts, a bounded queue shared by threads,
caches that outlive what they cache, a price series selected query by query from a
table that grows, an export that reads a warehouse while it is written, walks and
tapes that are validated at one time and built at another, expirations that roll
across clock changes and month ends. TLC checks them on small instances. TLAPS
proves the main results about both session lifecycles, the Redis stores, the tape
builds, the warehouse queue, the export, and the bounds of the snapshots and their
cache for every instance.

Paths below are relative to the repository's `src/`.

## 1. Inventory

| part | code | state | operations | interacts with |
|---|---|---|---|---|
| v2 lifecycle | `session/manager_v2.rs`, `session/model_v2.rs` | nothing of its own; one document per simulation in the store (revision, cursor, state, immutable parameters) | create, advance, peek, delete, cleanup | store, snapshot cache, tape builds, warehouse queue |
| v2 handlers | `api/rest/handlers_v2.rs` | none | POST, advance (with `expected_step`), peek, DELETE, replay | manager |
| v2 parameters | `api/rest/requests_v2.rs`, `session/model_v2.rs`, `api/rest/models.rs` | none (functions) | convert and validate a request; validate a stored document | handlers, settings, planner, walks |
| tape builds | `manager_v2.rs`: `tape_for` ... `cache_tape` | builds map (simulation to broadcast sender), LRU tape cache | join or own a build, publish, file, evict | blocking pool, handlers' futures |
| warehouse queue | `manager_v2.rs`: `with_warehouse`, `file_snapshot` | row counter, bounded channel, writer task | file, write, release | advance, snapshot repository |
| v1 lifecycle | `session/manager.rs`, `session/model.rs`, `session/state_handler.rs` | one document per session, with mutable parameters | create, advance, peek, PATCH, PUT, DELETE, cleanup | store, walk cache |
| v1 walk cache | `domain/simulator.rs` | LRU cache of walks with the resolved method | probe, build, serve, remove | v1 manager, historical repository |
| historical repository | `infrastructure/clickhouse/*`, `infrastructure/repositories/historical_repo.rs` | the `ohlcv` table, which others write | symbols, date range, bars of a time frame | v1 walk cache |
| v1 handlers | `api/rest/handlers.rs`, `api/rest/patch.rs` | none | the `expected_step` check, the PATCH merge | v1 manager |
| stores | `session/store/*` | documents; in Redis also `:ver` keys, TTLs and the v2 index | create, get, save_cas, delete, cleanup | managers |
| factor tape, walks | `domain/factors.rs`, `domain/walker.rs` | none (functions) | build a tape or a walk from parameters | tape builds, v1 walk cache |
| expiry planner | `domain/expiry.rs` | none (a function) | plan the live expirations of a step | factor tape, series |
| snapshot cache | `domain/series.rs` | LRU map with a contract budget | get, insert, evict | v2 manager |
| snapshot repository | `infrastructure/repositories/snapshot_repo.rs`, `infrastructure/clickhouse/snapshots/*` | quote rows and completion markers | persist, get, read_range, contract_series | warehouse writer, replay, export |
| export | `api/rest/export.rs` | prefetch window, loaded records, bounded channel | range resolution, window load, fallback to replay, streaming | snapshot repository, blocking pool |
| settings | `infrastructure/config/*` | the caps, read once at start-up | parse, bound, compare | parameters, caches, warehouse |
| sweeper | `main.rs` | none | a periodic v2 cleanup in each replica | v2 manager |
| clients, telemetry, responses | the rest | connections, counters | I/O, formatting, logging | everything |

What is hard in it, and what has to be true nevertheless:

* **Racing requests** (v1 and v2). Every operation reads the document, awaits,
  and writes with a compare-and-swap. A step must be consumed once, a success
  must be one's own, a 409 must mean somebody else's progress, and a removed
  document must stay removed.
* **Checks ahead of a second read.** `expected_step` and the PATCH merge look at
  the document before the manager reads it again.
* **Caches across removals and changes.** Snapshots and walks stay cached per
  replica while the document is deleted, swept or re-parameterised elsewhere.
* **A table that grows between queries.** A v1 historical series is selected by
  up to three queries; what they say together must be one series, replayed to the
  end of the tape.
* **Dropped futures.** Actix drops a handler at its await on a disconnect, and
  nothing in `tape_for` runs on drop.
* **A queue with a weight budget.** Two atomics and a channel, used in separate
  steps by several threads, and a writer whose inserts may fail.
* **Validation far from use.** Parameters are checked when they are created and on
  every load, under the caps of the day, and used when a tape is built: what is
  accepted should not fail for ever afterwards.
* **Look-ahead.** A step must be priced from what was known at it, although a tape
  is built as a whole.
* **Crashes**, which lose a replica's caches and its queue and keep the store.

`PROJECT.json` lists each of these hazards at its line, with the properties that
cover it or the reason none does.

## 2. Modules

| module | models | role |
|---|---|---|
| `SimulationCursor` | what the v2 service promises | abstract specification |
| `SimulationV2` | v2 requests, store, sweeper, caches, replicas | implements `SimulationCursor` |
| `RestartableCursor` | what the v1 service promises | abstract specification |
| `SessionV1` | v1 requests, store, walk caches, the fetch of a series | implements `RestartableCursor` |
| `PriceHistory` | the queries on the price table and the seeded selection | used by `SessionV1` |
| `TapeBuilds` | the single flight and the tape cache of one replica | |
| `Warehouse` | the queue and writer of one replica | |
| `Totals` | sums of natural numbers over finite sets | used by `Warehouse` and `ExpiryPlanner` |
| `ExpiryPlanner` | schedules, their validation, and the expirations alive at an instant | used by `Parameters` |
| `Decimals` | fixed-point arithmetic and the functions of the decimal library | used by the next three |
| `Parameters` | a request, its conversion, and the validation of parameters | used by `FactorTape` |
| `Walks` | the ten walk models, by the draws of a seeded stream | used by `FactorTape` |
| `FactorTape` | the spot and volatility of each step, and what has no tape | used by `SnapshotSeries` |
| `Settings` | the environment, and the start-ups it allows | used by `SnapshotSeries` |
| `SnapshotSeries` | the life of parameters, snapshots and the snapshot cache in one replica | combines the six above |
| `ReplayedExport` | what an export promises its client | abstract specification |
| `SnapshotTape` | the warehouse tables of one simulation, their writers, retention and range reads | used by `Export` |
| `Export` | the export's producer, channel and body | implements `ReplayedExport` |
| `StoredRecords` | a snapshot's record, its columns and rows, and the record and the export rows made of those | used by `StoredExport` |
| `StoredExport` | `Export` with the values its rows stand for | |
| `DocumentStore` | what the managers are promised by a store; the in-memory stores | abstract specification |
| `Redis` | keys that expire, and the server's clock | used by the two below |
| `RedisSimulationStore`, `RedisSessionStore` | the keys of a v2 and of a v1 document, and the commands on them | combined by `RedisStores` |
| `RedisStores` | both on the server they share | implements `DocumentStore` |
| `*_proofs` | the theorems about `SimulationV2`, `SessionV1`, `TapeBuilds`, `Warehouse`, `Export`, `RedisStores`, `SnapshotSeries` and `Totals` | TLAPS |
| `MC*` | the values the runs give to the constants | TLC |

### SimulationV2

A request is a program counter with the document it read. Its labels are the
awaits of the code:

    check -> read -> lookup -> build -> commit -> evict -> done

`Check` is the handler's `expected_step` read, `Read` the manager's read and
`reject_terminal`, `Lookup` the snapshot cache, `Build` or `BuildFails` the
pricing, `Commit` the compare-and-swap and what follows from it, `Delete` the
store's delete, `Evict` the eviction of the cached state. `Sweep`
is the cleanup script and `EvictSwept` the manager's loop over its answer;
`Lapse` is Redis expiring a document by itself; `Drop` is the snapshot cache
giving up an entry; `Cancel` is a disconnect and `Crash` the death of a replica
with all its requests and its cache. Each store operation is one action, as each
is one lock section in memory or one script in Redis.

A tape is a function of the immutable parameters (`FactorTape`), so a snapshot is
represented by its simulation and step. `served`, `call.start` and `call.arrival`
are ghosts: they record the commits in order and what a request found on arrival.
A client that gives up and retries is two request slots. The `Error` state is never
written in v2, and a document carrying it is refused by `validate_state`; the
model has no such state. With the in-memory store, a crash also loses every
document, which is `Lapse` of each of them.

### TapeBuilds

`Ask` is the cache probe, `Subscribe` and `Own` the decision under the builds
lock, `TaskEnds` the end of the blocking task (which files the tape itself),
`Publish` the owner removing its entry and broadcasting, `Cancel` a dropped
future, after which the task runs on as `detached`. The removal and the send of
`Publish` are one step: a caller that comes between them finds neither the entry
nor anything else that differs from the state after the send, except for a waiter
whose message arrives a moment later. The wait's `Err(_)` branch has no action:
the sender leaves the map only in order to send, so no receiver sees its channel
closed (`WaiterHasEntry` is what this rests on). A waiter on a build that failed
gets `Internal` (500) where the owner got the `Validation` (400) that says why.

### Warehouse

`file_snapshot` is four steps (`Load`, `Reserve`, `Send`, `Undo`) because other
threads run between its atomics; the writer is `Receive`, `Persist`, `Release`.
The cursor is the number of commits of a simulation. `Persist` may fail with or
without having written. A panic of the writer is not modelled.

### PriceHistory and SessionV1

`PriceHistory` is the `ohlcv` table, a set of rows by symbol and tick, and its
queries: `SymbolsIn`, `DateRange` (the epoch of a symbol without rows, where the
code means to answer "No date range found") and `Bars`, the closes of the bars of a
time frame from an instant on. `ChosenSymbols` and `Starts` are the selections of
the seed's stream: the symbol, if it was left open, with the first draw, and how
many whole days into the range the walk starts with the next.

`SessionV1` has one session, since sessions meet only in the walk cache, where one
can push another's walk out (`Drop`). Its labels are again the awaits:

    (check ->) read -> probe -> (build ->) serve -> save -> (forget ->) done
    build:  build -> ((symbols ->) range -> prices)

`Check` and `Merge` are the handlers' early reads; `Probe`, `Build` and `Serve` the
sections of `simulate_next_step` around its locks; `SelectSymbol`, `SelectStart` and
`FetchPrices` the queries of a historical walk, between which rows may be added
(`Grow`); `Save` the compare-and-swap; `Forget` the removal of the walk of a
completed or deleted session. A walk is the parameters it was asked for with and
the ones it was built from; the resolved method is written back to the session by
`Serve` and stored by the write of an advance. `Serve` takes the steps that a walk was
asked for as its length, where the code asks the walk (`simulator.rs:288`): the library's
generator is given that size, and a shorter walk is not modelled. `log` is a ghost: the effective
writes, each with its request and the walk served. `load` is chosen at the start
and says what the clients of a behaviour do, so that one run has behaviours of two
racing requests and behaviours of one request at a time. `Lapse` covers the expiry
of the Redis keys and the in-memory cleanup, which `main.rs` does not schedule for v1.

The bars of a symbol with gaps, and of a `Month`, whose bars span 31 days where a
step counts 30, may still be forming when they are fetched; `SeriesIsSettled` says
that those of a symbol without gaps are not, provided that rows come in the order of their ticks,
that a step is no shorter than a bar and that clients send no prices of their own
(`SeriesAreSelected`, which TLC evaluates for the tables and loads of the runs). Two replicas that each build a walk
before the first advance has saved a series can serve one tape from two of them
(`AloneTapeIsOneSeries` is about one replica). A close below zero panics in
`pos_or_panic`, which fails the request (`FailToBuild`).

### Decimals, Walks and FactorTape

Numbers are fixed-point integers, hundredths in the run; `Exp`, `Log` and `Root` are
constants, and `Mul` rounds where the code has 28 digits. What the models keep is
which inputs every number depends on, in which order the samples are drawn, where
values are clamped at zero, and what is refused.

`Walks` has an operator per kernel of `walker.rs`: a fold of its move over the steps,
whose record carries the level, the model's memory (the last return, the variance,
the regime) and the number of samples drawn so far. The clones of a walker share
one stream, so `Custom`, which draws its volatility path first, starts the moves
at a sample that depends on the horizon: the prefix of such a walk is not
the walk of a shorter horizon. `Telegraph` asks for a "uniform random
sample" and uses (|z|+1)/2 of a normal one, which is never below a half.
An autocorrelation or a multiplier that is omitted is 0 or 1; the model has them as
values.

`FactorTape` is `FactorTape::build`: the checks of the resolved method
(`MethodMatches`, `SeriesIsUsable`, `VolatilityAgrees`, `Priceable`), the kernel's own
refusals (`KernelRefuses`), the base volatility and the volatility of each step.
A refusal is `"validation"` or `"internal"`, as the handlers answer it.
`ExpandingWindow` backfills its first two points with the third one's estimate,
where the doc of a row's volatility says "up to and including this step". The chains
priced from a row, sub-second starts and a spot of zero are left out.

### Parameters, Settings and SnapshotSeries

`Parameters` is the way from a request to the stored parameters: `Readable` is what
`TryFrom<CreateSimulationRequest>` checks of each field, `Resolved` what it makes of
them (the start and seed it draws, the interval it derives from the time frame, the
normalised rules), `ValidMethod` the conversion of the walk model, `ValidParameters`
the validation under the caps. A `Custom` frame's required duration ignores the
number of steps, and a frame that v1 cannot query fails only at the query.

`Settings` is how those caps come from the environment: `Limit` and `Value` are the
lenient and the strict parser, `StartsUp` what stops the process, among it
`BoundsAgree`, which asks for batches as large as the largest snapshot when
snapshots are filed.

`SnapshotSeries` is what becomes of it in one replica. `Boot` starts it with an
environment and `Stop` ends it; `Create` validates a request under the caps of the
running replica; `Advance` moves the cursor; `Lookup` and `File` are the two lock
sections of `snapshot_at` with the build between them; `Advance` and `Delete` end a
simulation on this replica or on another. Every load validates the document again
(`Loadable`), by the caps of the day: a replica that starts with lower caps cannot read
live simulations that another one accepted (`model_v2.rs:291`), neither to advance nor
to peek at them; they stay until they expire or are deleted. The cache is its entries by
key, with their contracts and the place of their last access among the others'
(`accessed`, 1 for the least recent one: the code compares instants, of which only the
order matters), and the running total the code keeps. `Removed`, `EvictTo`,
`EvictToContracts` and `Inserted` are its methods; each loop that removes the least
recent entry until a bound is met is the removal of the smallest number of oldest
entries that meets it. The number of contracts of a chain is the number of strikes asked
for; upstream may build fewer. The commit and the eviction that follows it are one step:
a request that files between them is one that files afterwards or whose entry goes as
well.

`ExpiryPlanner` is `domain/expiry.rs` as operators, with no state: `FieldsFit`, `Rule`,
`ValidRule` and `ValidSchedule` are what a schedule goes through before it is accepted,
`ProjectRule` the scan of one rule over `Candidate` dates, which goes on until it has
`Found` enough or its `ScanBudget` is spent (`Stops`), `InstantFor` the resolution of a
local time, `ActiveAt` the merged inventory. Time is in ticks, and a zone has one
transition. The calendar is a constant, `FirstOf`, so the operators are not tied to the
years a run uses; `CalendarAssumption` says what a calendar is, and `HorizonAssumption`
that it goes on for as long as the steps of the accepted simulations look ahead (the
code fails a step beyond the last date of `chrono` with a projection error). The order
that rules and weekdays are normalised to is left out, as are overflows at the ends of
the representable calendar and the syntax of rule ids.

The properties compare with definitions of their own. `InventoryIsComplete` reads
the inventory off the calendar by quantifiers: a date is the last Friday of its month
if the Friday after it is in another month, and a local time is reached at the first
instant whose local time is not before it. `RowsIgnoreTheFuture` builds the tapes of
other horizons and of other later prices, and compares their rows.

### The Redis stores

`SimulationV2` and `SessionV1` use a store whose operations are atomic.
`RedisStores` shows how far the Redis stores are one. In `RedisSimulationStore` a
simulation is a document key, a `:ver` key and a score in the index, and each
operation is one script: `CreateSimulation`, `SaveSimulation`, `DeleteSimulation`,
`Cleanup`. In `RedisSessionStore` a session is two keys; `SaveSession` is a script,
while create and delete are two commands (`CreateSession` and `SeedVersion`,
`DeleteSession` and `DeleteVersion`) that others come between and that may be
abandoned after the first (`AbandonCreate`, `AbandonDelete`). `Tick` advances the
server's clock and drops the keys whose time is up.

A document is its revision, with the time its key expires. Reads and refused
writes change nothing and have no action; a save may be called with any revision
the document has had. A reply that is lost matters in one place, the cleanup,
where it loses the ids with it: `fate` records it as `unheard`, and the caches of
that simulation then wait for their own eviction (`EndsAreReported` sets such ids apart
and does not say that they come back). Since `ZADD` scores whole
seconds and `EX` counts from the instant of the write, a cleanup can remove a
document less than a second before it would have expired; `DocumentStore` has the
tolerance `Early` for this, one tick less than a second. The comments on
the cleanup (`v2_redis.rs:23`, `:74`) call what it removes expired.

Both managers draw ids at random (`Session::with_random_id`, `SessionV2::new`), so
an id is created once, and a client learns it when create has succeeded. This is
what makes the v1 store's two-command create and delete safe. `v2_redis.rs:118`
speaks of ids that repeat, which they no longer do.

### SnapshotTape and Export

`SnapshotTape` holds the quote rows and the completion markers of one
simulation. `Take`, `WriteQuotes` and `WriteMarker` are `persist` with its
completion protocol: rows first, then the marker, each insert failing before,
after or, for the rows, halfway. A snapshot is determined by its step, so a row is
the pair of its step and index and a marker is its step. `Retire` is the TTL of
either table. `MarkersIn`, `QuotesIn`, `OverBudget` and `Assemble` are the two
queries of `read_range` and what it makes of their answers. `get` and
`contract_series` read the same tables and change nothing.

`Export` is `produce` on its blocking thread, with the state of `StoredSteps`:

    build -> row -> (metas -> quotes ->) row -> send -> row ... -> ended

`Load` finds the next step beyond the window; `ReadMetas` and `ReadQuotes` are the
two queries of one read, with writers and retention between them. `Refused` is a
window refused as too wide, which is halved and asked for again, and `Degrade` any
other failure, after which the export replays every step. `Row` takes a step from
the window or replays it, `Send` is `blocking_send` on the bounded channel,
`Receive`, `StreamEnds` and `Disconnect` are the response body. A deployment with
persistence switched off exports like one whose first read fails. A panic of the
producer is not modelled.

`StoredRecords` is what a row stands for: `RecordOf` is the manager's
`snapshot_record`, `Storable` what `persist` refuses before it writes anything
(a record out of order, an instant or a value that does not fit its column),
`MetaRow` and `QuoteRows` the rows written, `InStorageOrder` the order the store
returns them in, `RecordFromRows` the record made of them, `Rendered` the rows of an
export. A decimal is a mantissa and a scale. A column has one scale for all, in
a wider integer (`ToStorageDecimal`), and what is read is stripped of its zeros
(`FromStorageDecimal`), as the scaled number need not be a decimal: it may have more
digits than a mantissa holds. A quote that upstream priced on one side only lacks
the other side's fields, and lacks them after the way there and back.

`StoredExport` extends `Export` by this, with no state of its own: each step has a
set of snapshots it may have been priced as, and the records that `Export` has loaded
must render, for each of them, the rows of a replay (`ServedAsPriced`). Rows
agree by value; that `to_f64` gives one number for two forms of one decimal is the
library's to keep. Identities, symbols and the encoding of the rows are left out.

## 3. What the runs check

| run | instance | states | question |
|---|---|---|---|
| `replicas` | 1 simulation of 2 steps, 2 replicas, 2 requests | 573 735 | do all the v2 safety properties hold, and does the service implement the cursor? |
| `expected_step` | the same on one replica | violation | can an advance consume a step other than the one it expected? |
| `tape_builds` | 3 simulations, 2 callers, 2 tapes | 52 071 | single flight, LRU bound and orphans, with disconnects anywhere; does every caller come out? |
| `tape_hang` | 1 simulation, 2 callers | violation | may a waiter hang? |
| `warehouse` | 2 simulations of 2 steps, 2 advances, 2 places, 3 rows | 40 331 | counter, budget, commit-before-file, draining |
| `v1_races` | 1 replica; 2 requests that race, or 1 at a time with every kind of update while the table grows | 583 947 | the v1 safety properties and the abstract cursor; walk cache, merge, `expected_step` and series without a race |
| `v1_stale_walk` | 2 replicas | violation | may a replica serve a walk of old parameters? |
| `v1_lost_patch` | 2 requests | violation | may a PATCH overwrite another one's field? |
| `v1_drift` | 2 requests on a historical session, a table that grows | violation | may a rebuilt walk replay another series? |
| `export` | 5 steps of 2, 1 and 0 rows, too many and unstorable ones; window 4, reads of 1 row, channel of 1 | 263 144 | is every export what a replay would give, value for value, whatever the warehouse does? |
| `rolling` | 2 simulations, 132 creation requests, 8 environments, 2 requests, 2 entries, 14 contracts | 465 622 | are accepted parameters served to their end: complete inventories, work within the caps, rows without look-ahead, no unforeseen failure, an exact cache? |
| `redis_keys` | 2 simulations, 1 session, 3 revisions, keys of 2 s, a clock of 8 half seconds | 72 866 | are the Redis stores the atomic stores the managers rely on? |

The properties, and the code they are about, are stated above each of them in
the modules. Each property of a passing run comes with a *mutant* in
`PROJECT.json`: a definition of the model changed the way a plausible bug would
change the code (operators with a comment `Bug:`), on which the property fails.

### Bounds

* **Two steps** are the shortest life with a first step, a last step and a
  document in `InProgress`; a race needs only the cursor to be at or before the
  end. Revisions need no bound in v2: the cursor bounds them.
* **Two requests and two replicas**: every v2 safety property relates one request
  to the document and the history; a second request stands for all rivals. The
  theorems below remove this bound.
* **`Loads`** (v1) bounds what clients do: the requests in flight (`width`), the
  parameters of creates and PUTs, the PATCHes, the `expected_step` values, and the
  revision up to which updates are sent, as each of them starts the tape anew.
  Rivals may each update the session while it is new (in `v1_lost_patch` and
  `v1_stale_walk` also once it has changed), and advances follow freely; one at a time
  there are updates of length, seed and method, up to two in a row, with expectations
  right and wrong. The theorems below remove this bound.
* **Two tables, two symbols** (v1): the first symbol trades at every tick, the
  second one in bursts; rows of both are added once, at any moment. Seed 1 draws
  the first symbol and the last start, seed 2 the last symbol and the first start.
* **Two callers and three simulations**: an owner and a waiter, either of which may
  leave and come back while its abandoned task runs on, and one more simulation
  than the cache has room for.
* **Depth 2, three rows, records of one and two rows**: both the depth and the
  budget are reached, separately and together, and the overshoot happens.
* **Five steps, a window of four and reads of one row** (`export`): the window is
  halved twice and then given up, holds several steps or just one, straddles the
  steps that are persisted, half persisted and expired; a step without rows and a
  step too large to persist are in the range, and one whose values do not fit. A channel of one chunk makes the
  producer wait. One writer suffices, since writers share only the tables and a
  step is persisted once.
* **Decimals of three digits, two of them after the point** (`export`), in columns of
  four, where the library has 29 and 28, and 39 in a column. A mantissa ends at 792
  and a column at 1701, the first digits of 2^96 and of 2^127, so that the largest
  prices do not fit and some that fit cannot be read verbatim. Each snapshot comes
  with every price in every scale, with quotes of both sides, of one and of none, and
  with expirations that have no quote.
* **Quarter days, the calendar of 2024 to 2030** (`rolling`): a quarter is as coarse
  as lets a transition skip or repeat the time of an expiration. The zones are one
  ahead of UTC, one with a gap, one with a fold and one that misses a day, all on the
  last Friday of a leap year's February; the simulations start around it and two
  days before the year ends. Expirations are at midnight, where a missing day makes
  two dates coincide, and in the evening. The schedules have all kinds of rules.
* **132 requests** (`rolling`): 48 for the calendar (around the transitions, 24 of
  them at midnight), one for each walk model, historical series of which one is
  flat, one jumps out of range and one is short, and one or more for each check of a
  field, a rule, a walk model or a cap. 91 sets of parameters are accepted by
  the default caps and 19 by the lowered ones.
* **Hundredths, five prices, 16 samples per seed** (`rolling`): a sample is one of
  five normal and of ten uniform values, so jumps happen and do not, regimes change
  and stay, variances and prices reach zero and are clamped. Horizons of up to five
  steps are compared.
* **Eight environments** (`rolling`): two that the replica starts with, in either
  order and again and again, and one for each check that stops it. Two entries and 14
  contracts let either bound evict, and snapshots of 15 contracts are never cached
  (which ADR 0001 has otherwise, see the disagreements).
* **Half seconds, keys of two seconds, batches of one** (`redis_keys`): writes fall
  within a second, two simulations can be due while a pass takes one, a document
  can be written again just before its deadline, and the clock runs for two lives.

Symmetry is used only in runs without liveness properties. Deadlock is checked
everywhere: a request slot can always be used again, and a replica stopped.

### Fairness

Safety specifications assume none. `TapeBuilds` assumes that a future that is not
dropped is polled when it can go on (tokio's scheduling) and that blocking tasks
end (a build is a bounded loop over steps). `Warehouse` assumes the same of an
advance that awaits the store and of the writer, whose inserts are cut off by
the repository client's timeouts. `Export` assumes that the producer's blocking
thread runs. No fairness is assumed of clients, of the
sweeper, of the warehouse's writers under an export or of disconnects, and
`tape_hang` is a counterexample under exactly these assumptions.

### Disagreements between comments and code

1. **A waiter hangs** (`tape_hang`). `manager_v2.rs:528` says that if the owner
   died without publishing, the waiter builds the tape itself "rather than hang".
   A dropped owner leaves its sender in the builds map, so the channel never
   closes, and the waiter waits for ever. So do later callers, until the detached
   task files the tape; if it fails, every later caller of that simulation hangs
   until the process restarts. Removing the entry in a drop guard that outlives
   the task, or filing and publishing from the task itself, would do; a guard that
   removes it on disconnect alone starts a second build (`CancelGivingUpEntry`).
2. **`expected_step` is checked, not enforced** (`expected_step`).
   `handlers_v2.rs:12` says that a retry after a lost response cannot
   double-advance and that of two advances that both pass the precondition one
   gets `409`. The check reads the document once and `advance` reads it again, so
   both can succeed in sequence. Passing the expected step into the manager and
   comparing it with the document whose revision the save compares would close it.
3. **A stale walk** (`v1_stale_walk`). `simulator.rs:274` says a cache hit implies
   the parameters still describe the walk. It does for requests that come one at a
   time to one replica (`AloneWalkIsCurrent` in `v1_races`); another replica that
   never saw `Reinitialized` keeps its walk.
4. **A lost PATCH** (`v1_lost_patch`). `manager.rs:299` says a PATCH cannot
   clobber a newer revision. The merge uses parameters read before the read that
   the compare-and-swap protects.
5. **A series that drifts** (`v1_drift`). `simulator.rs:98` says an evicted
   historical walk "rebuilds the identical tape" and `:187` that a rebuild "reloads
   the identical series". The seed is replayed, but over the symbols and the date
   range that the table has at the time of the build: once rows were added, the
   same draws select another start. This goes on until an advance has saved
   the series.

Others were met while modelling and have no run:

* ADR 0001 (`doc/adr/0001-v2-rolling-simulation-contract.md:658`, section 9.3) says that a
  snapshot heavier than the whole contract budget "is still cached", since
  refusing it would leave a large but legal configuration with "a permanently cold
  cache". `SnapshotCache::insert` (`series.rs:426`) serves it without caching it, as
  `.env.example:108` and a unit test of `series.rs` say. `CacheIsExact` follows the
  code: in `rolling`, with snapshots of 15 contracts and a budget of 14, it is checked
  that the budget is never passed, which the ADR's rule would violate at once. By the
  code each request for such a step prices it again, the cost that the ADR names.
* The check of `expected_step` in v1 (`handlers.rs:370`) is apart from the manager's read
  as in v2 (disagreement 2), so two advances that expect the same step can consume
  two there as well. `AloneUpdatesAreHonoured` is about one request at a time.
* `manager_v2.rs:136` says steps reach the warehouse in the order they were served,
  but `file_snapshot` runs after the commit with no lock, so two advances may queue
  their steps in either order. The range reads sort by step.
* The conversion of the walk model says that rejecting invalid domains there "keeps
  invalid model domains from being stored and failing later inside the
  simulation". The domain of a jump diffusion, whose intensity times `dt` must be
  less than 1, is checked by the kernel alone: such a simulation is created, and
  every peek and advance of it fails with 500. `RefusalsAreForeseen` says that it is
  the only such model.
* `clickhouse/snapshots/model.rs` says that prices above ten billion are rejected;
  the 128-bit check accepts about seventeen.
* `clickhouse/snapshots/record.rs:271` says that a round-trip yields exactly what was
  written. An expiration without quotes has no row and is not there afterwards. No
  row of an export is missing for it, and the manager's chains have quotes.
* `telemetry/collector.rs:19` says that the `active_sessions` gauge (v1) never goes
  negative and counts only the deletions of sessions that this process created. A create
  raises the process's own count before the gauge, so a delete that comes between lowers
  the gauge first; and a delete of a session that another process created is
  counted against one that this process did.

## 4. What is proved

All theorems are about every value of the constants, from the named assumptions of
the modules alone, which TLC evaluates in the runs. They follow one pattern: the properties are not inductive by
themselves, so `InductiveInvariant` adds what each program counter implies; one
lemma per action shows it preserved, `Invariance` concludes, and the theorems
named after the properties follow from it. `Implementation` maps each step of the
detailed specification to a step or a stutter of the abstract one.

### The v2 lifecycle: `SimulationV2_proofs`

For any set of simulations, replicas and requests and any `Steps`, from
`ParameterAssumption` (every simulation has at least one step; the model's markers
are not values). That a winning advance records its own commit follows only if the
document it holds was read, at the revision it compares, while the simulation
existed. `InductiveInvariant` is

* `WellFormed`: the types, and revision = cursor = number of commits, from which the
  state follows; this turns equality of revisions into equality of documents;
* `EachStepConsumedOnce`: the i-th commit consumed step i - 1;
* `UnissuedIsBlank`: nothing exists of an id before it is issued;
* `RequestsConsistent`: between its read and its answer a request holds a
  document the simulation had after the request arrived (`HoldsDocument`), and
  after a successful commit that commit is its own (`OwnsCommit`).

`CommitStep` splits into the refused and the winning write, and `Removal` is
shared by the delete, the expiry and the sweep.

| theorem | says |
|---|---|
| `Invariance` | the inductive invariant always holds |
| `AlwaysWellFormed` | the stored document agrees with the commits |
| `StepsConsumedOnce` | no step is consumed twice, and none is skipped |
| `AdvancesPassValidation` | no advance fails its own validation |
| `AnswersAreOwnCommits` | a success is one's own commit |
| `ConflictsMeanProgress` | a 409 means somebody else's commit |
| `AnswersAreCurrent` | an answer shows a step the simulation was at during the request |
| `RemovedIsNotServed` | a removed simulation is not served from the caches |
| `RemovedStaysRemoved` | no step brings a removed simulation back |
| `Implementation` | `SimulationV2` implements `SimulationCursor` |

### The v1 lifecycle: `SessionV1_proofs`

For any replicas, requests, loads, price tables and draws, from `SessionAssumption`.
The revision does not determine the document here, since updates write arbitrary
parameters; what it determines is the place in `log`. `InductiveInvariant` is
`SessionMatchesHistory`; `HistoryIsTape`, that `log` starts with the create and that
the cursor never passes the horizon; and `RequestConsistent`: a request that has
read holds the session of some revision (`HoldsSession`), one that is about to
save holds what follows from it (`HoldsWrite`), one that succeeded owns the write
(`HoldsAnswer`). A winning save therefore holds a copy of the very revision that is
stored, and appends one entry to the log.

Requests that come one at a time to one replica (`OneAtATime`) keep what races break,
and that is proved separately: `AloneInvariant` is preserved together with
`InductiveInvariant`. It says that at most one request is in flight; that a cached walk
was built from what it was asked for (`WellBuilt`) and is the stored session's
(`Describes`), except that a reinitialized or completed session may still have the walk
of its past, which `Probe` drops before it can be served; that a session in progress has
its series saved, so that no rebuild selects another; and what the request has read,
is about to write (`AloneRead`, `AloneAdvance`) or has been answered with. The last part
is what makes the series of a tape one: an advance logs the walk whose resolved
parameters it writes.

`SeriesSettle` needs no such restriction: any number of requests may race, walks be
evicted and tables grow between the queries. It assumes `Selecting`, that is
`SeriesAreSelected` and draws that are in their range. `SettledInvariant` says that every
method in the session, in a copy, in an update and in a walk has either no prices or a
series that is settled, and that a request about to fetch has a start with room: a row at
or before it, and one as much later as the bars it asks for take (`HasRoom`), in the table
that it read the range from. The rest is about the queries: in the table at the time
of the fetch, as in the last one, every tick from the start to the end of the last bar has
its row, so the bars asked for are consecutive ones (`BarsOfRun`), and a row of one of
these bars that was added later would have come before the last row that was there
(`BarsAreSettled`).

| theorem | says |
|---|---|
| `Invariance` | the inductive invariant always holds |
| `SessionsMatchHistory` | the stored session is the one the writes lead to |
| `AnswersAreOwnWrites` | a success is one's own write |
| `ConflictsMeanProgress` | a 409 means that another write took effect |
| `Implementation` | `SessionV1` implements `RestartableCursor` |
| `AloneInvariance` | the invariant of requests one at a time |
| `AloneWalksAreCurrent` | without a race, a walk is served for the parameters it was asked for with |
| `AloneUpdatesHonoured` | without a race, a PATCH changes only what it names and an advance takes the step it expects |
| `AloneTapesAreOneSeries` | without a race, a tape replays one series, however the table grows |
| `SeriesSettle` | whatever races, no bar is replayed that was still forming when it was fetched |

### Tape builds: `TapeBuilds_proofs`

For any simulations, callers and capacity. A caller's state says whether
the map must hold an entry, whether a task must run and whose it is:
`CallersConsistent` and `DetachedConsistent` say so of the live and of the abandoned
owners, `WaiterHasEntry` of the waiters.

| theorem | says |
|---|---|
| `Invariance` | the inductive invariant always holds |
| `SingleFlight` | at most one task builds the tape of a simulation, abandoned ones included, while the entry of its owner is there |
| `WaitersHaveEntries` | the sender a waiter listens to is still in the map |
| `OrphansAreDisconnected` | only a disconnect leaves an entry that nobody will remove |
| `FiledTapesAreKept` | filing a tape keeps it and evicts older ones |

### The warehouse queue: `Warehouse_proofs`

For any simulations, advances, depth, budget and weights. The invariant is the
types, `AdvancesHoldRecords` (an advance past its commit holds the record of that
commit, which is in no other hand), that what is written was taken by the writer, and the two
properties of what is sent.

The counter needs them too: its value is a sum over *sets* of records, so a record that
was queued twice, or held by two advances, would be counted once. `CounterInvariant` is
the sum and a bound on what may still come: `Pending` are the advances that will
reserve because the budget they loaded was enough, and the counter with all their
records stays within `Slack`, the budget and one record of the largest size for each
other advance. An advance becomes pending only when the counter has room for its own
record, and then each of the others adds at most one.

| theorem | says |
|---|---|
| `Invariance` | the inductive invariant always holds |
| `OnlyCommittedIsFiled` | nothing reaches the queue or the tables that was not committed |
| `StepsSentOnce` | each step is sent once |
| `CounterInvariance` | the counter's invariant always holds |
| `CounterExact` | the counter is exactly what is queued, held and being written |
| `OvershootBounded` | the budget is passed by at most one record per rival |

### Sums without induction: `Totals_proofs`

The installed provers cannot use the library's induction rules, so a sum is not a
recursive function here but the size of a set of units (`Total`): the laws of sums
then follow from the library's facts about cardinalities. `SmallestExists` gets the
smallest element of a set of numbers from the library's theorem that strict inclusion
among finite sets is well-founded, and takes the place of induction over the naturals: a
counterexample would have a smallest one (`PowerOfTwo`, `ProductsGrow`).
`LargestExists` is its counterpart for finite sets. That a recursive function is what its
definition says needs a function that satisfies it; `StepwiseExists` has one, for any
first value and any step to the next, since there is no smallest length without.

| theorem | says |
|---|---|
| `SmallestExists` | a non-empty set of naturals has a smallest element |
| `LargestExists` | a non-empty finite set of integers has a largest element |
| `TotalAdds` | adding an element adds its weight |
| `StepwiseExists` | a function on `0..n` may go on from each value to the next by any moves |
| `UnionIsBounded` | a union has at most as many elements as its parts add up to |

### The export: `Export_proofs`

For any range, weights, window, capacity, batch and read limits, and any number of
writers, from `TapeAssumption` and `ExportAssumption`. `WindowHoldsWholeSteps` and
`ImplementsReplay` are not inductive: what the client receives was decided when it
was sent, and what is sent when it was loaded. `InductiveInvariant` is `TypeOK`;
`BatchesLanded`, that a writer at its marker has its rows in; `WindowConsistent`, that
the window holds whole snapshots of steps from the next one up to where it was read
(which bounds it by `Window`); and, while the export is open, `ChunksConsistent`: the
chunks in the body and the channel, taken together, go on from one another (`Starts`,
`Follows`) up to the one in the producer's hand (`HandConsistent`). `FailuresBounded`
has an invariant of its own (`FailuresCounted`): each failure has halved the window, so
2 to the failures times the window is within what the export began with.

`ExportsAsPriced` is about `StoredExport`. That a step which is read was storable is an
invariant of the warehouse (`OnlyStorable`), and that all of its rows are read is
`WindowConsistent`. What is left is about values, from `DecimalAssumption`
(the constants are numbers) and `SnapshotAssumption`: a record has the types of the code
(`IsRecord`: a quote has its strike, a number is a decimal, and a `Positive` is not
negative), as many rows as the tape counts, and is storable if its step is. The
argument follows the rows there and back:

* *A value.* `TenToAdds` is the law of exponents for the recursive powers of ten. From it,
  `StoredAndBack` says that a column read back is a decimal of the value that was
  written: the zeros that are stripped include those that the scaling appended, so the
  mantissa is no larger than the first one. `StorageAscends` says that columns
  are in the order of the decimals, though a decimal's mantissa alone is not.
* *The order.* `WrittenInOrder` goes from `validate`, which compares neighbours, to the
  order of all rows. `AscendingOnce` says that a set has no more than one
  enumeration in the order of the key, as no row precedes itself
  (`PrecedesOneWay`), so what the store returns is what was written (`StoredInOrder`).
* *The places.* `Placement` says where the elements of joined sequences come from, and
  that sequences of parts with the same lengths are joined alike; hence the
  k-th row that is written and the k-th that a replay renders are of one quote
  (`WrittenAsRendered`).
* *The groups.* `TakenOnce` and `TakenKeeps` say that a row is one more rendered row
  whether it opens an expiration or joins the last one, if the days and labels of
  that one are its own. `Regrouped` follows: what is rebuilt renders what was read,
  row by row. `validate` has the expirations at different instants, without which two of
  them would be read as one.

| theorem | says |
|---|---|
| `Invariance` | the inductive invariant always holds |
| `WindowsHoldWholeSteps` | a step served from the warehouse is the whole snapshot |
| `FailuresBounded` | an export fails no more often than halving its window allows |
| `MarkersFollowRows` | a marker is written after all rows of its step |
| `Implementation` | `Export` implements `ReplayedExport` |
| `StoredAndBack` | a decimal that is stored and read has the value it had |
| `ExportsAsPriced` | what is read back of an accepted step renders what a replay renders |

### The Redis stores: `RedisStores_proofs`

For any simulations and sessions, any retention, time to live and batch, any
fineness of the clock and any bounds, from `RedisAssumption` and
`SimulationStoreAssumption`, `SessionStoreAssumption` (the constants are numbers,
the times to live positive, as Redis accepts no other; `Absent` is none of the model's values)
and `PrefixAssumption` (no key belongs to both stores).

`KeysAgree` is inductive for the simulations, whose scripts write all keys, but it
does not say who may save: `SimulationInvariant` adds that the index lists exactly
the simulations that have not ended as far as the managers know, so that a save,
which writes an index entry, never revives one that was reported. It is not inductive for the sessions:
a session that is not known yet may have no revision key, and one that is being
deleted is about to lose it. `SessionInvariant` adds that the first has its document
at 0, which is what the second command of create will write, and that the second
has no document any more and, since ids are drawn once, never will.

`SurvivingType` says what the clock does to a key, `DeadlineIsExpiry` that a score
is the second of the expiry, and `SecondsAreEarly` that a second that has begun is
less than a second early, the tolerance `Early` of `DocumentStore`. Commands on a
revision key alone, and deletes of what has ended, are stutters there.

| theorem | says |
|---|---|
| `Invariance` | the inductive invariant always holds |
| `TypeCorrect` | `TypeOK`: no key outlives its time to live |
| `KeysNeverTorn` | the keys behind a document agree |
| `EndsReported` | what ended unasked is in the index until a cleanup has answered with it |
| `StoresImplement` | `RedisStores` implements `DocumentStore` |

### Snapshots and their cache: `SnapshotSeries_proofs`

For any environments, offered requests, schedules, calendar, zones, samples and library
functions, from the assumptions of the six modules below it: the constants are numbers,
and a request or an environment has the types that the code gives it (`IsRequest`,
`IsEnvironment`, `IsWire`, `IsZone`: an offset is no more than a day). Two are about the
calendar: years follow one another, months come in order and have four weeks or more
(`CalendarAssumption`), and there are as many as the accepted simulations look ahead
(`HorizonAssumption`). The state's invariant, `SeriesInvariant`, is small (types,
`Bounded(cache)` and what a request may hold); the work is in the functions.

* *What is checked is enough.* `ContractsAreBounded` goes from the check of
  `validate_snapshot_work`, a product of the strikes and the *counts* of the rules, to
  what is priced, a chain for each *instant*: a scan stops at the count
  (`ScanIsBounded`, since a place adds at most one instant) and merging only loses
  instants (`UnionIsBounded`). Since `Loadable` repeats the checks under the caps of
  the day, `WorkBounded` needs no memory of the caps at creation, and
  `RowsFit` follows from `BoundsAgree` at start-up.
* *What is refused.* `RefusalsForeseen` goes through the walk models: `InternalErrors`
  says which of a tape's errors are internal, `KernelsAccept` that no kernel
  refuses what `ValidMethod` accepts, apart from the jump diffusion.
* *The expirations.* `InventoryComplete` is about the planner alone: a scan, which stops
  by count and starts at a local date, against the definition by quantifiers.
  `ReachedIsResolved` says that the two readings of a local time, or none, give the
  first instant not before it, so `ExpiriesInOrder`: a later date never expires earlier,
  though two dates may expire together (a day that a zone skips), and three days later
  always later. `FoundAreNearest` is the core: if each date a scan saw is one the rule
  expires on, and each date that it did not see comes after those, what it found is the
  nearest. What is left is arithmetic: for rules by days 8 places for each expiration
  have one of the weekday at least (`DayRulesAreNearest`); for rules by months and years
  `MonthIs` and `MonthExists` place every date in its month from the order of the
  months, `LastIs` has the last weekday alone in its last week, and since every place
  after the first is three weeks past the start, one place more than the count is
  enough, of the two that `PERIOD_SCAN_SLACK` allows (`PeriodRulesAreNearest`). That the
  inventory's labels are the rules' own is where the distinct rule ids are needed
  (`Labelled`).
* *The past of a tape.* Each point of a walk is a move from the one before
  (`Walked`), and the moves are operators of their own that no proof unfolds:
  `RowsCausal` holds for any moves. What matters is where a kernel starts
  (`BrownianStarts` to `TelegraphStarts`, `WalkStarts`) and that neither the start nor a
  move depends on the size, so a longer walk goes on from the shorter
  (`LongerWalk`). A replayed series has no moves: `SameHistory`, `ShortHistories` and
  `LongerHistory` say that an estimate reads the prices seen so far. That the factor of an
  accepted time frame is a number is `FactorAssumption`.
* *The cache.* `RemovedIsExact` says that a removal takes the weight of what goes
  off the total, whichever keys go. `KeptAreNumbered` says that the accesses are always
  numbered from 1 on; hence exactly `count` entries are the oldest `count`, evicting all
  of them is always enough, and both loops end within their bounds (`EvictToFits`,
  `EvictToContractsFits`).

| theorem | says |
|---|---|
| `SeriesInvariance` | the inductive invariant always holds |
| `CacheExact` | the running total is the sum, and neither bound is passed, since what is heavier than the budget is not cached |
| `WorkBounded` | no snapshot served is beyond the cap of the day |
| `RowsFit` | every snapshot served fits a batch of a replica that files |
| `InventoryComplete` | no step is ever short, and what it carries is the nearest |
| `RefusalsForeseen` | only a jump diffusion may fail internally after creation |
| `RowsCausal` | no row of a tape depends on its horizon, `Custom` walks apart, or on later prices |

### Only model-checked

Every invariant and action property of the passing runs, and every refinement, has a theorem.
Left to TLC:

* Liveness (`CallersAreAnswered`, `QueueDrains`, `DisconnectStopsProducer`) and
  anything stated with `ENABLED`.
* The violations, which are counterexamples.

## 5. Not modelled

* The values of prices: Greeks, chains and the digits of a walk. The models have
  fixed-point numbers and the functions of the library as constants.
* Formatting of responses, the OpenAPI document, telemetry and the Mongo event log:
  nothing reads them back.
* The connections to Redis, Mongo and ClickHouse and their settings, strings with
  defaults.
* Reads that change nothing and decide nothing: the v1 and v2 GET of a session, and the
  snapshot repository's `get` and `contract_series`.
* `InRedisSessionStore::save` and its in-memory twin, the blind upsert, and the
  historical repository's look-up of single prices: nothing calls them.
* Poisoned locks and panics of the warehouse writer and of an export's producer.
* Overflow at the ends of the representable calendar and of the decimals.

About half of the lines of the source files are tests and comments.

## 6. Plan

Done, in this order: the v2 lifecycle with its abstract cursor; tape builds and
the warehouse queue; the v1 lifecycle; the export over the warehouse tables; the Redis
stores; schedules and snapshots; parameters, walks and tapes, settings and start-up; the
selection of price series; stored records; and the proofs of section 4.

What could come next: the snapshot repository's `contract_series`, which reads the same
tables by contract.
