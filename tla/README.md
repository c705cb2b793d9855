# Snapshot service: TLA+ models and proofs

The service takes snapshots of cryptocurrency portfolios. Jobs are rows of the
PostgreSQL table `snapshot_runs`; an internal API and a scheduler insert them,
and worker loops, one per process and any number of processes, claim them,
collect the balances of one wallet after another from RPC endpoints, and write
them below the row. This directory holds models of that behaviour, the TLC runs
that check them on small instances, and TLAPS proofs for every value of their
constants.

## 1. The system

Paths are relative to `src/app/`.

| Component | State it keeps | Operations | Interacts through |
|---|---|---|---|
| Job creation, `services/job_service.py`, `api/internal_jobs.py` | none of its own | `create_job`, `create_retry_failed_job`, `get_job` | rows of `snapshot_runs`; transaction-scoped advisory locks |
| Claims, `worker/claim.py` | `status`, `worker_id`, `lease_expires_at`, `started_at` of a run | recover stale runs, claim the oldest pending run, renew a lease | rows locked `FOR UPDATE SKIP LOCKED` |
| Worker loop, `worker/loop.py` | `worker_id`; the two collectors | claim, process, fail the run after an exception, log and retry after a database error | the session it hands to the processor |
| Snapshot processor, `services/snapshot_processor.py` | the open transaction of a wallet | renew, load wallets, one transaction per wallet, final verdict | collectors, price history, claims |
| Wallet loader, `services/wallet_loader.py` | none | wallets of a scope or of a parent's failed chains, without duplicate addresses | tables of py_wallet |
| EVM and Solana collectors | cooldown of each endpoint; validated chain ids, token decimals | collect a chain from the first endpoint that answers | JSON-RPC endpoints, price service |
| Manual collector | none | balances entered by the user | price service |
| Price service, `services/price_service.py` | cache of prices, stamped by the wall clock | prices by ticker and by contract from two providers; development prices | HTTP; the collectors |
| Price history, `services/price_history.py` | assets recorded for the job in hand | one observation per asset and job | savepoint in the wallet's transaction; tables shared with py_wallet |
| Scheduler, `scheduler/loop.py` | none | a tick creates one job per user with active wallets | `create_job` |
| Metrics | counters | first-snapshot outcome, gauges | everything |
| Process, `main.py`, `db.py` | two asyncio tasks, a connection pool | start, cancel on shutdown; sessions | one event loop for worker, scheduler and API; endpoints in threads |
| Configuration, migrations, health, debug, logging, retry policy | constant or none | read-only, or unused (`retry_policy.py`) | |

**What is hard here.** Several processes work on the same rows under READ
COMMITTED, so a check and the insert or update that relies on it are kept
together by locks of three kinds, or not at all. A lease is renewed only before
and after a wallet, a wallet may outlast it, and clocks of different hosts decide
whether it has run out. Any process may vanish between two commits. A wallet may
fail on some chains, and a retry rebuilds a snapshot from what its parent left.
Endpoints fail, ask for patience, and come back while a collection is under way.
Prices are cached under a clock that may be set, and recorded in the middle of a
transaction that must survive a failure to do so. And within one process, worker,
scheduler and HTTP server block each other: the first two call the database
synchronously on the event loop that the third needs to give its connections back.

**What makes each component correct.**

- Creation: one active run per scope, one active retry per parent, a retry only
  of what really failed.
- Claims and worker: a run is processed by one worker at a time; a worker writes
  only into a run it owns; a run that has ended is final; every run ends; the
  row's columns and what hangs below it agree.
- Processor and loader: a verdict fits the chains below it; no address is
  collected twice or forgotten; a retry carries successes unchanged and never
  looks newer than its oldest part; a success is complete.
- Collectors: an endpoint out of rotation is left alone, for as long as it asked;
  one healthy endpoint suffices; networks are never mixed up.
- Prices: no older than promised, named after their origin, never another
  network's; no development price in a secure environment.
- Price history: market prices only, one observation per asset and job, none
  forgotten after a failure, and no failure costs a wallet one of its balances.
- Process: nobody waits in a circle; every user with wallets is served; a run a
  live worker has claimed is settled; a shutdown ends and leaves nothing behind.

`PROJECT.json` lists the components with what is modelled of each, and the
hazards, each at the line where it bites with the properties that watch it.

## 2. Modules

| Module | Role |
|---|---|
| `JobLifecycle` | abstract specification: what creators of jobs may rely on |
| `RunRecords` | abstract specification: the rows queue and processor must agree on |
| `JobQueue` | creation, claims, leases, recovery, the worker's transactions |
| `JobQueueProofs` | types, locks, leases, uniqueness, ownership, finality of verdicts |
| `JobQueueAgreement` | verdicts, retries and counts agree; live workers keep their runs |
| `JobQueueRefinement` | proofs that `JobQueue` implements `JobLifecycle` and `RunRecords` |
| `SnapshotContents` | wallets and chains below a run; retries of retries |
| `SnapshotContentsProofs` | types, addresses, timestamps, carried successes, verdicts, loading; `RunRecords` implemented; what is committed stays; what successes lack and keep |
| `RpcFailover` | rotation of endpoints, cooldowns and caches |
| `RpcFailoverProofs` | types, networks, cooldowns, Retry-After, healthy endpoints |
| `ServiceProcess` | one process: event loop, threads, connection pool, tasks, shutdown |
| `ServiceProcessProofs` | types, no circular wait, a clean shutdown; one run per key; large pools |
| `PriceService` | cache, providers, fallbacks; what is worth recording |
| `PriceServiceProofs` | freshness, origin, market prices only |
| `PriceLedger` | abstract specification: what readers of recorded prices may rely on |
| `PriceHistory` | the recorder in the wallets' transactions of two workers |
| `PriceHistoryProofs` | one observation, nothing forgotten, no balance lost; `PriceLedger` implemented |
| `MCJobQueue`, `MCSnapshotContents`, `MCRpcFailover`, `MCPriceService`, `MCPriceHistory` | values and symmetries for TLC |

A definition next to the comment "Mutant" is not used by any specification: it is
a plausible mistake in the definition after it, and replacing the latter by it
must break a property (`mutants` in `PROJECT.json`).

### JobQueue

*State.* Columns of `snapshot_runs` are functions of the run's id, `status =
"absent"` meaning that no row has it yet. `wallets` and `failedChain` are what
the queue must know of committed wallet snapshots. Per creator, `req` is the
request between its check and its commit; per worker, `pc` is its next
statement, `job`, `todo`, `seen` are local variables, and `reading`, `stale` the
claim it has open. `since` is the real time of the renewal in force, which no
code reads; it only says how long a worker is taking.

*Steps.* One action per statement that locks, reads or commits shared rows:

| Action | Code |
|---|---|
| `CreateJob`, `RetryFailedJob` | advisory lock and the checks after it; a rejected or reused request changes nothing and is no step |
| `InsertRun`, `AbortCreate` | insert and commit; session closed before the commit |
| `BeginClaim` | `recover_stale_running_jobs`: rows selected, locked and changed in the session, metric counted |
| `PickPending` | the oldest pending row nobody has locked |
| `CommitClaim` | commit of both; an empty-handed worker sleeps and starts over |
| `Renew`, `LoseLease` | `renew_job_lease`, its UPDATE and commit, or `JobLeaseLostError` |
| `LoadWallets`, `NoWallets` | result of the loader; a run without wallets fails |
| `OpenWallet`, `CommitWallet` | flush of the wallet snapshot; its commit after the chains |
| `FailRun` | exception in a wallet: the loop commits the run as failed with what was flushed |
| `FailOutsideWallet` | exception anywhere else in `process`, such as a renewal that gets no connection: the same handler, which writes by primary key without asking whose the run is |
| `FinishRun`, `Observe` | final commit; then the first-snapshot metric |
| `Abandon` | crash, restart, cancelled task, or a database error that the handler's own commit runs into again, since a failed flush or commit leaves the transaction unusable: it is rolled back |
| `Tick` | real time |

*Locks.* `Locked` is `FOR UPDATE`; statements on a locked row wait, selections
skip it. `KeyShared` is `FOR KEY SHARE`, which PostgreSQL takes on the run when a
wallet snapshot with a foreign key to it is inserted. It conflicts with `FOR
UPDATE`, so a recovery passes over a run whose wallet is being collected, however
long that takes. This matters: with `StaleOpenRuns`, the recovery without this
conflict, the properties fail.

*Time.* A clock reading is anything within `MaxSkew` of real time. `MaxStall`
bounds what passes between the reading a lease was computed from and the next
renewal or flush of a live worker; `MaxWallet` bounds a wallet with the renewal
after it. Neither is a promise of the code, so the theorems name what they need.

*Abstractions.* The hash of a lock key has no collisions. The three queries of a
retry are one step, which is exact while verdicts are final. A target stands for
user, group and wallet id; the scopes all, group and wallet are one kind `"collect"`,
since which of them it is makes part of the target. `outcomes` counts for any run,
not only for those with an activation channel. Databases other than PostgreSQL, where
the code takes no locks, are not modelled.

### SnapshotContents

*State.* For each run and wallet, `snap` is the wallet snapshot: status, time, and a
function from the chains that have a row to whether the row is a success and the
reading of the clock it is stamped with. `active` is py_wallet's `is_active`,
`enabled` the `SNAPSHOT_ENABLED_CHAINS` of the deployment, `chains` what the
processor of a run was constructed with.

*Steps.* `Submit` and `Retry` create runs; `Start` is the loader
(`LoadForJob`, `Deduplicate`, `AddressKey`); `ProcessWallet` is `_process_wallet`
with `_retry_plan` (`RetryChains`, `Carried`), `_copy_chain_snapshot` (`Copy`) and
`_write_chain_result` (`Rows`); `FailWallet` is the exception path, see below;
`Abandon` is a recovery; `Finish` the verdict. `Toggle` and `Deploy` are the
surroundings. Interleavings within one wallet are `JobQueue`'s business, so a
wallet is one step here.

*Time.* There is no clock: each reading is any member of `Reading`. The processor
reads the clock once for each chain and once more for the wallet, hosts differ, and
clocks are set back, so that nothing is assumed about the order of two readings.
A wallet's `finished_at` is read after the stamps of the chains collected for it and
is as a rule later than these; only what is carried bounds it.

*Exceptions.* All chains of a wallet are collected before the first row is written,
and a flush that fails leaves nothing to commit. So `FailWallet` leaves (`Written`)
no new row, when a collector raised, or the rows up to a chain whose balances were
being recorded, which a failed chain does not have (a manual wallet apart, which
has its balances either way). The order is that of the settings (`Listed`) or, for
a retry, that of the names (`Named`); all deployments list the chains in one order.
The wallet stays marked running.

### RpcFailover

*State.* `cooling` and `asked` are the times left until an endpoint is back in
rotation, and until it wants to be asked again; `dated` holds the endpoints that
said so by a date; `validated` and `decimals` are
the caches, the latter remembering which network an answer came from; `chain`,
`queue` and `stage` are the collection under way, `queue` holding the places in
the chain's list that are left, like the indices in the code's `available`.

*Steps.* `Begin` fixes the endpoints to try, as `collect_chain` and `collect_wallet`
do. `Verify`, `Balance`, `Decimals`, `Token` are requests that succeed, in order;
Solana has no chain id and fixed decimals. `Fail` is every `RpcAttemptError`; `Heard`
is what the collector makes of its `Retry-After`: a number of seconds as it is, a
date by way of the host's clock and `int()`, which together may be up to `ClockError`
off, and, for Solana, no date at all. `WrongChain` is the wrong chain id. `Escape` is
an exception the collector does not catch: for EVM a JSON body that is no object, for
Solana, among the token accounts, a mint that is not hashable or digits that `int()`
refuses. `Tick` is time, which also passes during a request. Addresses, balances and
the startup check, made by a collector of its own, are left out. The lists of
endpoints have no duplicates.

### ServiceProcess

*State.* `loop` is who holds the event loop. `scheduler`, `left` and `worker`,
`run` are the two tasks; `queue` holds the pending runs, `abandoned` those left
running by a worker that has gone on. Per request, `request` is where it is and
`wants` the run it has yet to create. `pool` and `lock` are the holders of
connections and advisory locks, `signal` the shutdown.

*Steps.* `StartTick` and `StartClaim` take the loop, and only the sleeps
(`TickSleeps`, `WorkerSleeps`) give it back: everything between is synchronous.
A tick is `ReadUsers`, then `ScheduleReuse`, or `ScheduleCheck` and
`ScheduleInsert`, for each user in the order of ids, in one session that takes a
connection again after each commit (`TickConnects`), if only, after the last user's
insert, to refresh the new run. A claim that finds a run goes
on to it (`NextStatement`, `CommitPart`, `Settle`) and then to the next claim
without an await, as `worker/loop.py` does. A request runs in a thread: `Connect`,
`Reuse`, `Refuse` (an `HTTPException`, which leaves the transaction open), `Check`,
`Insert`; a request that only reads is done after `Connect`. `Close` is `get_db`'s
`finally`, which FastAPI reaches through the event loop. `...TimesOut`,
`MarkFailed` and `Abandon` are what becomes of the pool's timeout. `Drain` and
`Stop` are uvicorn's and `lifespan`'s part of a shutdown.

*Abstractions.* A run is known by what it is for; that keys are exclusive and
claims are safe is `JobQueue`'s business. The pool times out only while it is
exhausted. One process is modelled: other processes' runs are in nobody's way here.

### PriceService

*State.* `now` is real time, `shift` what the wall clock is ahead of it. `cache` is
`_cache`. `asking` is a lookup under way, with the stamp read before the first
provider is asked. `held` is the last balance priced and `row` the observation
made of it. A quote remembers its source, its subject, its time, and whether it is
positive, which is what the properties tell apart.

*Steps.* `Ask` is a collector: tokens by contract (`AskToken`), others by ticker
(`AskTicker`); `TakeManual` a manual balance with a price. `...Answered` and
`...Unanswered` are the providers in the code's order, with the collector's
fallback from the contract to the ticker in `TokenUnanswered`. `Record` is the
recorder's first test. `SetClock` sets the wall clock within `MaxShift`.

### PriceHistory

*State.* `assets` and `history` count committed rows, `ours` those of `assets` the
recorder has created, `unique` says whether py_wallet's table has a unique index,
which this repository does not tell. Per worker: the run, wallets left, balances
left and `written` in the open transaction, what the savepoint is about
(`current`, `found`), what the transaction has inserted, and `recorded`, the set
`_recorded_assets`.

*Steps.* `FindAsset` flushes the balance, begins the savepoint and queries;
`RecordPrice` inserts and releases it; `InsertDuplicate`, `BreakDeadlock` and
`StatementFails` go `BackToSavepoint`. `Skip` is a balance that needs no
observation, for any of the recorder's reasons. `CommitWallet`, `WalletRaises` (the
loop commits what there is) and `WalletLost` (a rollback) end the transaction. An
`INSERT` under a unique index waits for the transactions in `Before`.

## 3. Runs

| Run | Instance | Shows |
|---|---|---|
| `JobQueue_creation` | 3 ids, 2 creators, 1 worker | uniqueness of active runs and retries, retries of failures only, refinement of `JobLifecycle` and `RunRecords` |
| `JobQueue_crash` | 1 id, 2 workers, 2 crashes, runs of up to 2 wallets that may outlast the lease, clocks 1 apart, lease 3 | types; single processing, exceptions anywhere, writes go to owned runs, verdicts stand, counts beyond the first have a cause, columns and contents agree, with the smallest lease `Timely` allows |
| `JobQueue_liveness` | a legacy run, a crash, wallets shorter than the lease, fairness | runs stay with their owners as the README advises, and every run ends |
| `SnapshotContents_retry` | 3 generations of one run, 2 chains, two edits or deployments, readings of the clock in either order | what is carried, when it was observed, refinement of `RunRecords` |
| `SnapshotContents_addresses` | 5 wallets, EVM and Solana addresses that differ in case, one edit | one wallet per address, none left out, verdicts fit, types |
| `RpcFailover_rotation` | Solana and 2 EVM chains, 4 endpoints, one in two lists, cooldown 1, cap 2, asks of up to 2 in both forms, clocks 1 off, 1 unexpected answer | cooldowns, Retry-After, a healthy endpoint suffices but for an unexpected answer before it, networks |
| `ServiceProcess_shared` | 2 users, one of whom may lose the last wallet, 2 requests, one of them a reader, 2 connections, fairness | no circular wait, everyone served, a shutdown that ends clean |
| `PriceService_cache` | 1 contract on 2 platforms, 1 ticker, clock up to 1 ahead, time-to-live 2 | freshness, origin, market prices only |
| `PriceHistory_savepoint` | 2 workers, runs of 2 and 1 wallets, 1 contract in 2 spellings, a currency, 1 failure, fairness | observations, savepoints, refinement of `PriceLedger`, waits end |

Why the bounds are enough: a second worker is all it takes to recover what the first
one holds, and a third would only repeat that; creation needs two creators, and three
ids for a root, a retry and one that would be too many. A lease of 2 is the smallest
that can be renewed in time and run out. The clock stops at `MaxTime` except while a
lease has to expire, so that each run can be recovered at least once. A second crash
is needed for a recovery that fails itself. Three generations show what is carried
from a carried row; `MaxSubmits` leaves the other ids to retries. In `RpcFailover`,
an endpoint may ask for longer than the usual cooldown, up to the cap, and a date may
be misjudged by as much as the cooldown. In `ServiceProcess`, two connections are as
many as the requests can keep between them, so that the pool is exhausted and
recovers; two users give a tick an order, and two requests a wait. In `PriceService`,
a time-to-live of 2 and four units of time let an entry expire with the clock set
either way. In `PriceHistory`, the two workers process different runs at the same
time and insert the same assets in either order. Where a bound can end the behaviour,
`CHECK_DEADLOCK FALSE` is stated: in `SnapshotContents` the service is idle when all
ids have been used.

A process that has been stopped does nothing, the clock of `PriceService` stops,
and there are only so many runs in `PriceHistory`. Symmetry is used for workers
and creators of `JobQueue`, which are interchangeable, and not in runs that check
liveness.

**Fairness** (`FairSpec`): `Tick` and each worker's steps are weakly fair. The
loop of `worker/loop.py` catches every exception, a process that dies is
restarted by its deployment, and statements that wait for a row lock wait for a
transaction that ends. Nothing forces creators. `Abandon` is bounded, since
nothing ends if every attempt is interrupted.

In `ServiceProcess` whoever holds the loop goes on (weak fairness). What is ready
for the loop, and what waits for an advisory lock, gets its turn although others
have it in between (strong fairness): asyncio runs callbacks in the order they
became ready, and PostgreSQL queues waiters. A run has finitely many wallets
(`Settle`), and leases end (`Claim` of nothing abandoned). No fairness says that
the pool becomes free; `EveryUserServed` assumes it where it says so. In
`PriceHistory` a worker with an open wallet goes on, and PostgreSQL breaks
deadlocks (weak fairness); nothing says that it begins a run.

### Disagreements with the documentation

Each is a run of its own that TLC must find violated.

| Run | What happens |
|---|---|
| `JobQueue_stall` | A worker renews for the last time, stalls past its lease, is recovered, and commits its verdict over the recovery's `failed`: the final UPDATE has no condition on status or worker. |
| `SnapshotContents_exception` | Of three chains the first fails and the balances of the second raise an exception, which commits both rows and the failed run; the retry knows only these two and succeeds without the third. |
| `ServiceProcess_pool` | Endpoints that have finished keep the pool's connections until the loop closes their sessions; the worker holds the loop and waits for a connection. After the pool's timeout its run is left `running`, as if the worker had vanished. SQLAlchemy's default pool has 15 connections, FastAPI's thread pool 40 threads. |

For each, a theorem says under which condition the promise does hold, or what
alone can break it: `RecoveriesStand` (a stall shorter than the lease less twice
the clocks' difference), `OnlyExceptionsLoseChains` (an exception, or a worker
lost in the middle of a wallet), and `LargePoolSettles` (a connection more than
there are requests in flight).

Two more are visible in a single definition and have no run: a retry's child holds
only the wallets with a failed chain (`FailedWallets`), not the "complete readable
portfolio" of README.md:356-359; and an answer of an unexpected form escapes
the collectors (`Escape`), with no cooldown for its endpoint and no failover,
against README.md:243-244. `OneHealthyEndpointSuffices` therefore admits an exception
where an endpoint listed before the healthy one is not healthy.

Some properties hold only with a restriction, which the hazards in `PROJECT.json`
name. `OutcomeCountedOnce` allows a further count for each interruption, since the
metric is counted inside the transaction that may be rolled back, and one for the
handler of an exception, which counts a run that a recovery has counted before it.
For the same reason `TerminalIsFinal` lets the error of a recovered run be replaced
once: a wallet has outlasted the lease, and the renewal after it, which would have
found the run taken, gets no connection. `RetryAfterHonored` lets an endpoint be
asked earlier than a date by the clocks' error, leaves out Solana, whose collector
does not read that form, and fails beyond an hour (`MaxAsk > Cap`).
`ConservativeTimestamps` speaks of the chains a wallet carries, not of those
collected for it. `NoAddressLeftOut` is about the loading of users' and groups'
wallets: a retry collects an address only as long as the wallet it was collected
under is active. `NoCircularWait` is about the locks of users, which the scheduler
takes while it holds the loop; nobody who holds the loop takes the lock of a retry.
`CoolingIsLeftAlone` fails for a list that names an endpoint twice.
`EveryUserServed` is about processes whose pool is not exhausted for ever.

## 4. Proofs

All theorems hold for any values of the constants, under the assumptions each
module states about them: any sets of jobs, workers, creators, wallets, chains,
requests, tokens, and any times.

### Queue

*Without any assumption about time:*

- `TypeCorrect`: `TypeOK`, with `WalletsLeft`, which `TypeOK` needs to keep
  `todo` a natural number.
- `RowLocksHold`: the invariant `RowLocks`. A claim's rows are disjoint from every
  other claim's, still running and still expired at its reading, and none has an
  open wallet. It is what makes the unguarded UPDATEs of `CommitClaim` safe: every
  other action that could change such a row asks `Locked`.
- `OneWorker`: a run is picked while it is pending, under a lock, and a
  processed run is not pending.
- `OneActive`: from `CreationLocks`, that an advisory lock has one holder and that
  what its check found still holds. No step of a worker makes a run active that
  was not, and insertions under another key do not disturb the check.
  The same theorem states it for the active retry of a parent.
- `LeasesMatchStatus`: whatever ends a run releases it, and what a claim recovers
  or takes it locks first. A handler that writes to a run a recovery has ended finds
  it released and leaves it so.

*Under* `Timely == MaxStall + 2 * MaxSkew < Lease`:

- `OwnWrites` and `VerdictsStand`, from `PromptWorkers` and `Ownership`: while a
  worker is outside a wallet, its lease ends later than any clock can read; inside a
  wallet the foreign key's lock keeps recoveries away. Only the renewal after a
  wallet can find the run taken, and it asks. The handler of an exception raised
  there does not: it replaces the recovery's error, and nothing else (`Taken`). Hence
  the time a wallet takes, `MaxWallet`, appears nowhere in the assumption. The factor
  two is needed: the owner's clock may be slow and the recovering worker's fast.
  `JobQueue_stall` shows that without the assumption the theorems fail.
- `RecoveriesStand`: what a recovery has failed stays failed, a consequence of
  `VerdictsStand`.
- `RetriesAreOfFailures`: from `RequestsFollowFailure`, that what a creator has
  checked of a parent still holds. No lock keeps it; what does is that verdicts
  stand and committed wallets stay.
- `VerdictsAreTrue`: from `Contents`, which relates what a worker has seen and has
  left to do to the wallets committed below its run, and relies on `Ownership` for
  nobody else writing there.
- `OneOutcome`: `CountsAreOwed` follows a count from the statement that makes it to
  the commit or the interruption that undoes it, and to the one handler that may
  count a recovered run again.
- `Refinement`: `JobQueue` implements `JobLifecycle`. A run's key is its scope, or
  its parent for a retry; `KeyFree` says that no active run has the key of a
  pending request, whatever the request's kind.
- `QueueKeepsRecords`: `JobQueue` implements `RunRecords`, see below.

*Under* `Timely` *and* `ShortWallets == MaxWallet + 2 * MaxSkew < Lease`, the
README's advice that a lease outlast a wallet: `LiveOwners`, from
`HeldThroughout`, which extends `Ownership` to the time inside a wallet.

### Contents

`SnapshotContentsProofs`: every step changes every run in one of six ways (`Change`),
and an ended run not at all (`EndedStays`). Hence what a retry reads of its parent
stays as it is while the retry loads, collects and ends: `Lineage` says that a
retry's parent has ended and that its wallets failed there, and that no two loaded
wallets share an address. `Contents` says that each wallet snapshot is well-formed:
its status that of its chains, at least one chain, and no unfinished wallet in a
running run. `CarriedOver` computes the rows `_process_wallet` writes. The theorems
follow; `AllAddressesAreLoaded` needs besides that every set of ids has a least one
(`OldestIsKept`). `TimestampsAreConservative` compares a wallet with the run that
collected a chain, however many retries ago: each retry hands on what it carries as
it found it and is dated no later (`Handing`), and all runs a chain has come through
(`Trail`) show one observation.

`CommittedStands` says what a reader may rely on: nothing below a run changes that
has been committed, and an ended run not at all. `OnlyExceptionsLoseChains` goes up
a line of retries (`Line`, the least set of runs closed under `parent`): the first
run shows all chains its processor was constructed with (`FirstIsComplete`), and
each retry shows those of its parent, unless a wallet on the way was left running.
Since `Line` is a set and not a recursive function, no induction over the line is
needed: the runs that show as many chains as the last one form a closed set, so
that they hold the line. `SuccessesOutliveRetries` goes up the line in the same way and
needs no such condition: what is carried is written before anything is
collected, so that also an unfinished wallet has every success of its parent
(`RetryHolds`, stronger than `RetryCarriesTheRest` there).

### Queue and contents together

`JobQueue` abstracts from what a wallet holds, `SnapshotContents` from leases, clocks
and transactions. Both see `status` and `parent`, whether anything is committed below
a run, and whether a chain has failed there; `RunRecords` says how these may change.
`QueueKeepsRecords` (under `Timely`) and `ProcessorKeepsRecords` prove that both
modules implement it, each with its own mapping: the first knows of a run the number
of its committed wallets and `failedChain`, the second computes both from `snap`. So
what each module assumes of the other, that a retry is of an ended run with a failed
chain, that only a running run is filled, that a verdict fits and stands, is what the
other one's steps do. The recovery of one run, and the start of another, which
`JobQueue` commits together, are one step of `RunRecords`.

### Endpoints

`RpcFailoverProofs` names in each theorem what it needs of the configuration.
`NetworksStayApart` needs nothing: an endpoint counts as validated only for the
chain it serves, whatever the lists say, and past the first request of a
collection it is validated. `CoolingIsRespected` needs `Distinct`, that no list
names an endpoint twice: then the failure of the endpoint being tried leaves the
rest of the queue in rotation (`QueueInRotation`). `AskedIsHonored` needs besides
`ShortAsks`, since a cooldown is cut to an hour, and `SolanaApart`, since
`SolanaCollector` may put an endpoint back too early for an EVM chain; the
invariant is that nobody is back in rotation before the time it asked for, or before
a date by more than `ClockError`. `HealthySuffices` says of every endpoint before a
healthy one that has raised an exception no more than that it is not healthy, and
needs `HealthyKnown`: a healthy endpoint listed for a second
chain goes out of rotation there for reporting the wrong id, and takes the first
chain with it.

### Process

`ServiceProcessProofs`, for any users, requests and pool. The inductive invariant
says who may hold what at which point of their code: a connection belongs to a
request between its `Connect` and its commit or `Close`, or to the task that holds
the loop; a lock under a user's scope belongs to an unfinished request or to the
scheduler between check and insert; whoever does not hold the loop is asleep.
`LoopNeverWaitsForItself` follows from the second part: a request that is finished
may keep the lock of a retry, which the scheduler never takes. `ShutdownIsClean`
follows from all three, since the tasks are cancelled while they sleep and the
requests have been answered.

`LargePoolSettles` is about `LargePool == Cardinality(Requests) < Connections`. A
worker that waits for a connection holds the loop and none itself, and the scheduler
is asleep; so the pool is in the hands of requests alone, and one is left.
`OneUnsettledRun` adds to the invariant that what a creator has found under its lock
stays true up to its insert (`CheckStands`), although the worker takes runs from the
queue and may leave them behind meanwhile.

### Prices

`PriceServiceProofs`: an entry of the cache shows who gave its price, is a price of
what its key names, and is stamped at most `MaxShift` after its quote; a lookup's
stamp is at most `MaxShift` after it began. The bound of `InTime` follows for a
price from the cache, and from the length of a lookup for one just fetched. No
assumption relates the constants: a time-to-live of 0 is covered as well.

`PriceHistoryProofs`: a run belongs to one worker, and outside a savepoint the worker
remembers exactly the assets that have a row for its run, in the open transaction
or committed. A rollback breaks that, which is why it matters that it ends the
run and that the next one begins with an empty set. The theorems hold with and
without the unique index, and whatever other workers insert.
`RecorderImplementsLedger` shows that each commit is one step of `PriceLedger` and
that nothing else is seen by readers: a transaction's rows are of assets without a
row for its run, and with the unique index an asset it has created is in no other
open transaction and not committed by anyone (`IndexHolds`), since an `INSERT` waits
for the former and fails for the latter.

### What is only model-checked

Liveness, which is out of the prover's reach under fairness: `EveryRunEnds`,
`EveryUserServed`, `ShutdownCompletes`, `EveryWalletEnds`. Every invariant and
every action property of a passing run is proved.

## 5. Not modelled

Amounts and totals; parsing of addresses, settings and RPC answers; what the
read-only endpoints answer, authentication, logging, metrics other than the
first-snapshot outcome; migrations beyond the legacy rows they leave;
`retry_policy.py`, which nothing calls. For each component `PROJECT.json` says why.

## 6. Plan

Done: the queue with its abstract specification, the contents of snapshots, the
rotation of endpoints, the process, prices and their history. What is left:

1. Several processes in `ServiceProcess`, which keep each other's queue filled: a
   worker that never runs out of pending runs never lets the server answer.
2. Queue and contents in one model, where a worker that has stalled past its lease
   writes below a run that was recovered and retried. `Timely` excludes it, and
   `RunRecords` relates the two modules only where it holds.
