# Wallet platform: specification, model checking and proofs

The repository is a NestJS service that keeps wallets in MongoDB, caches their
balances in Redis and settles transfers asynchronously: a transfer debits its
sender and stages an event in an outbox in one MongoDB transaction, a relay
publishes the event to RabbitMQ, a consumer credits the receiver, and a sweep
refunds the transfers that are still pending after a timeout. All of it runs in
every process of the service. The TLA+ modules here model that machinery and the
parts beside it, TLC checks them on small instances, and TLAPS proves the most
important theorems for every value of the constants.

Paths are relative to the repository root (`src/wallets/...` is the source
directory `src`).

## 1. Inventory

| Component | Source | State | Operations | Correct when |
|---|---|---|---|---|
| Wallet operations | `src/wallets/wallets.service.ts` | wallet, transfer, transaction, ledger and outbox documents | `createWallet`, `deposit`, `withdraw`, `transfer`, `getWallet`, `getDashboard`, `reconcile`, `getAuditTrail` | no balance below zero; each movement is recorded once in balance, transaction and ledger; a key buys one transfer; currencies do not mix; reports are off by no more than what is committed while they read |
| Ledger, transactions | `src/ledger`, `src/transactions` | append-only documents | `recordDebit`, `recordCredit`, `create`, sums, listings | the trail of a wallet is a chain that ends in its balance; paging skips nothing that has a `createdAt` of its own |
| Outbox | `src/outbox` | events, PENDING or PUBLISHED, in creation order | `enqueue`, `findPending`, `markPublished` | an event is staged iff its movement is committed, and eventually published |
| Outbox relay | `src/workers/outbox-relay.worker.ts` | `running` flag, the batch | one timer per process | nothing is marked that was not sent; surplus sends are only owed to faults and rival processes |
| RabbitMQ | `src/queue/rabbitmq.service.ts` | topic exchange, durable queue on `transfer.*`, dead-letter queue | `publish` | a published transfer event stays until acked |
| Transfer consumer | `src/queue/transfer-events.consumer.ts` | deliveries in progress, `inbox_messages` | `handleMessage`, `completeTransfer` | credits the receiver at most once, and only a pending transfer |
| Pending transfer sweep | `src/workers/pending-transfer.worker.ts` | ids it has read | one timer per process, no guard against overlap | refunds only overdue transfers, once, never a completed one |
| Balance cache | `src/redis/redis.service.ts` | `wallet:balance:<id>` with TTL | get, set (`invalidateBalance` is called by nothing) | holds a balance the wallet had (it may be an old one: see findings) |
| Wallet events | `src/workers/wallet-events.worker.ts` | change stream, Redis channel | subscribe, watch, publish a snapshot of each balance change | every change is heard by who subscribes while a process watches; the last heard is the last made |
| Money | `src/wallets/dto/*.ts`, `$inc` | a balance is a double | add, subtract, compare | rounding is bounded and makes nobody money |
| Process | `src/main.ts`, `src/app.module.ts` | up or down | start, crash, death by unhandled rejection | restart resumes everything from the store |
| Health probe | `src/health/health.controller.ts` | none of its own | one check per request | an outage that lasts is reported, and its end too |
| Seed script | `scripts/seed/seed.ts` | a demo database, balances in memory | its passes in order, rerun after a failure | every wallet reconciles; the incidents it plants are where it says |
| Auth, ownership guard, throttler, logging | `src/auth`, `src/common` | none that money depends on | | not modelled: section 7 |

**How they interact.** The store is shared by everything, in transactions. The
API handlers hand over to the relay through the outbox, the relay to the
consumer through the queue, and the consumer and the sweep meet on the status
of the transfer document. Redis is written from inside transactions, before
they commit, and by readers that missed. Processes share nothing else. The
wallet events, the probe, the seed script, paging clients and the arithmetic of
one balance only observe the store, or run when nothing else does.

**What is hard.** Several relays, consumers and sweeps run at once, in one
process and across processes. Publishing and marking are writes to two systems.
Every publication draws a new message id, so the inbox recognises redeliveries
but not republications. Committing and acking are two steps. A sweep works from
ids it read earlier. A message that always fails is requeued and holds a
prefetch slot. A handler that outlives its channel kills the process.
Transactions conflict and run again, and have told Redis before they commit.
Clients give up on answers and send again. Reports and pages are put together
from several queries while commits go on. All these are listed, with their
lines and the properties that watch them, under `hazards` in `PROJECT.json`.

## 2. Modules

```
Store ── WalletsService ─┬───────────────┐
  │         └─ ApiClients ─ Reports ─ MCApi
  ├──── Broker ── OutboxRelay ───────────┤
  │        └──── TransferConsumer ───────┼── Platform ── Books ──┐
  └──── PendingTransferWorker ───────────┘      │ └───── Claims ─┴─ MCPlatform
                                              Bank (Platform's Promise)
MongoSessions ── MCSessions
      │
    Bank (MongoSessions' Serial)

WalletEvents, Money, Seed, Health, Paging ── Sidelines ── MCSidelines

SumTheorems, Store     <- StoreProofs
StoreProofs, Platform  <- PlatformProofs
PlatformProofs, Books  <- SettlementProofs
StoreProofs, Reports   <- ApiProofs
MongoSessions          <- SessionProofs
Sidelines              <- SidelinesProofs
SumTheorems, Sidelines <- AmountProofs
```

| Module | Models |
|---|---|
| `Store` | the documents and the cache: `created`, `balance` (wallets), `transfer`, `ledger` (a transaction and its ledger entry are one record: they are only written together), `outbox` (index = rank by `createdAt`), `cache`; the helpers that write them, and the sums that are computed over a wallet's postings |
| `WalletsService` | the API's handlers, one action per request that changes state, in one step with its Redis SET; nothing here reads the cache |
| `Broker` | exchange, queue, dead-letter queue. `queue` is a set of copies of messages |
| `OutboxRelay` | `relay[i]`: the rest of the batch of process i and whether its first event was sent. `Running` is the flag |
| `TransferConsumer` | `handler[h]`: a delivery, its process, whether its channel is open, whether its transaction has ended; `inbox` |
| `PendingTransferWorker` | `aged`: the transfers older than the timeout; `stale[i]`: ids process i has read |
| `Platform` | the composition: which process runs what, faults, crash and restart, fairness; the properties |
| `Bank` | the abstract specification: what clients are promised |
| `Books` | `reconcile` and the dashboard's totals in one instant, and two invariants about the sums |
| `Claims` | statements of the repository's documents that the program does not meet |
| `MongoSessions` | the transactions statement by statement: `tx[s]` is session s with its job, the statements done, its snapshot and what was committed since; write conflicts, the driver's retries, the Redis SET before the commit, which may be sent again, aborts by the server; a GET's find, Redis GET and SET. `owned`: the cache entries whose last change was a transaction's SET. Implements `Bank` |
| `ApiClients` | clients around `WalletsService`: attempts sent, given up, still being served; answers lost; `effects` counts what was executed |
| `Reports` | `reconcile` and `getDashboard` query by query, while `ApiClients` goes on: `report[v]` is what a report has read so far |
| `WalletEvents` | the change streams and the Redis channel of several processes that die, start and connect again. `pending[p]`: the publishes without an answer, the first `executed[p]` of which Redis has executed on connection `conn[p]` |
| `Money` | one balance as a double of `Bits` bits, with round-half-even, beside the exact sums |
| `Seed` | the script, a pass of a loop at a time, with the balances it remembers and those it stores; then the platform's sweep over the result |
| `Health` | the three dependencies, what Mongoose believes of its connection, checks in progress |
| `Paging` | a list, newest first by `createdAt`, that grows anywhere while a client asks for page after page; documents with one `createdAt` come in an order that each query chooses anew |
| `Sidelines` | the five modules above together. They share no variable, so a behaviour is of one of them (`part`), and one run explores all |
| `MCPlatform`, `MCSessions`, `MCApi`, `MCSidelines` | values for the constants |

**Steps.** In `Platform`, `ApiClients` and `Reports` a MongoDB transaction is one
step. `MongoSessions` is why it may be: there a transaction is a snapshot,
writes that take their documents one by one, conflicts that start it again, a
SET, and a commit or an abort at any point; and it still implements `Bank`
(`CommitsAreSerial`), so every commit is one whole job done to the documents as
they are at that instant. A transaction that aborts has still done its Redis
SET (`DepositAborts`, `DebitAborts`, `CreditAborts` of the coarse modules). Between
transactions everything interleaves: read of the batch, publish, mark;
delivery, transaction, ack; the sweep's find and each of its refunds;
the queries of a report. `getWallet`'s find, GET and SET, and what may come
between a transaction's SET and its commit, are steps of `MongoSessions` only.

**What is external** (`"external": true` in the map) is taken from how the code
uses it: RabbitMQ keeps a message of a durable queue until it is acked or
nacked, and takes it back when the channel closes; order is not assumed. The
connection manager sends a message again, with the same id, if the connection
goes before the confirm. MongoDB gives a transaction one snapshot, aborts it on
a write conflict or a duplicate key, and `withTransaction` runs the callback
again until its time limit; a commit after the consumer's early return on a
duplicate key therefore fails, and `withTransaction` throws in the end. Redis
executes the commands of one connection in order and passes a published message
to who is subscribed at that moment; ioredis, with the defaults the code leaves
it (`src/redis/redis.service.ts:12`), sends the commands that had no answer again,
in order, when a connection is made anew, and it is assumed that what was sent
on the lost one is executed before that or never. MongoDB lists documents that
the sort does not tell apart in any order, and not in the same one twice. amqplib throws on ack or nack of a closed
channel; the callback of `consume` is an async function that nobody awaits, and
Node ends a process with an unhandled rejection.

**Not steps.** Requests that are refused before they reach a handler. In
`Platform`, where answers are not modelled, also refused and repeated requests
and every `getWallet`; `ApiClients` and `MongoSessions` have them.

## 3. Runs

Deadlock checking is off in all runs: with the bounds on requests, events and
faults used up an idle system has nothing left to do.

| Run | Module | Instance | Properties |
|---|---|---|---|
| `settlement` | `MCPlatform` | 1 transfer, 2 processes, 2 handlers, 2 faults (1,050,000 states under symmetry) | `ResolvedOnce`, `NoMessageLost`, `ClaimedMeansResolved`, `RefundsOnlyOverdue`, `DuplicatesBounded` |
| `transfers` | `MCPlatform` | 3 wallets, 2 currencies, one wallet opened in the run, amounts 1 and 2, a key, 3 requests, so up to 2 transfers in flight, 1 fault, one cached balance (914,000 under symmetry) | `TypeOK`, `AuditTrail`, `PayloadAgreement`, `BooksBalance`, `MoneyConserved`, `KeepsPromise` |
| `liveness` | `MCPlatform` | one foreign message of each kind, one of them poison, with prefetch 1; 2 events in a batch of 2, 1 fault (314,000) | `NoMessageLost`, `KeepsPromiseInTime`, `EveryEventPublished` |
| `sessions` | `MCSessions` | 3 sessions and jobs of all five kinds, 2 transfers, a key, a message, 1 abort by the server, one cached wallet and a GET (1,650,000 under symmetry) | `TypeOK`, `NoStandoff`, `CacheWasReal`, `LastCommitSetLast`, `CommitsAreSerial` |
| `api` | `MCApi` | 4 clients (2 transfers with keys, each sent twice, a withdrawal, a deposit), a report, dashboard limit 2 (950,000 under symmetry) | `PaidOnce`, `DifferencesExplained`, `ActivityComplete` |
| `sidelines` | `MCSidelines` | see below (161,000) | the 15 properties of the five modules |
| `stalecache`, `duplicate`, `poison`, `deposits`, `stalefill`, `refused` | `MCPlatform`, `MCApi`, `MCSessions` | smallest instance that shows it | each refutes one claim (section 5) |

The settlement of transfers (`Platform`):

- `ResolvedOnce`: a transfer has taken its amount from the sender exactly once;
  pending, it has paid nobody; completed, the receiver, once; failed, the
  sender, once. It relates ledger and transfer over all interleavings of
  consumers, sweeps, redeliveries and republications.
- `NoMessageLost`: an event of a pending transfer that is marked published has
  a copy that the broker will still deliver. This is what the order
  publish-then-mark, ack-after-commit and requeue-on-failure are for. `settlement`
  has it with two processes and two faults, `liveness` with messages that are
  dropped, requeued for ever or passed over in the same queue.
- `ClaimedMeansResolved`: a live message whose id is in the inbox belongs to a
  transfer that has ended.
- `RefundsOnlyOverdue`: the sweep's stale ids never make it refund early.
- `DuplicatesBounded`: messages published are at most one per event and process,
  plus one per fault. Without the running flag this fails.
- `AuditTrail`, `BooksBalance`, `MoneyConserved`: chain of postings; both ways
  of adding up give the balance; each currency's money, in wallets and in
  flight, is deposits less withdrawals.
- `PayloadAgreement`: the consumer credits what the *message* says and updates
  what the *document* says; they agree.
- `KeepsPromise`: `Platform` implements `Bank` under the identity on `created`,
  `balance` and `transfer`; `KeepsPromiseInTime` adds that transfers end.
- `EveryEventPublished`: each staged event is published in the end, also when a
  failed publish or mark, or a crash, abandons the rest of a batch.

Transactions (`MongoSessions`):

- `CommitsAreSerial`: the refinement of `Bank`. The balance a callback read is
  still the balance when its commit writes the new one, a consumer and a sweep
  never both take a transfer, a key is never taken twice.
- `NoStandoff`: of the transactions that hold documents one can always go on.
  The code sorts the wallets' ids for this, and the sort does nothing (section
  5); it holds because a transfer writes only one of its two wallets.
- `CacheWasReal`: until the server aborts a transaction of its own accord, a
  cached balance is one the wallet had or is getting; with aborts it is not so.
  Stale it may be: a GET can put an old balance back over a new one
  (`stalefill`).
- `LastCommitSetLast`: of the transactions on a wallet the one that commits last
  also made the last SET, although SET and commit are two steps, other
  transactions run in between and SETs are sent again. So until a GET fills the
  entry or the sweep, which makes no SET, refunds the wallet, Redis has the
  wallet's balance or the one that the holder of the wallet is about to commit.

Clients and reports (`ApiClients`, `Reports`):

- `PaidOnce`: however often a transfer with a key is sent and served and
  whichever answers are lost, there is one debit, and a client that was told of
  a transfer was told of that one, with the terms it asked for.
- `DifferencesExplained`: what `reconcile` says a wallet is off by, and what a
  dashboard's totals are off from its balance, is exactly the movements that
  were committed between the two queries. A wallet at rest is in sync.
- `ActivityComplete`: every transaction a dashboard lists comes with its ledger
  entry, and the list leaves out none of the last it has counted.

Beside the money's path (`Sidelines`; each instance is small because each part
is): wallet events with 2 changes and 2 processes, of which one is steady and
the other may die once and lose its connection to Redis once; 5 movements of
amounts 0.1, 0.3, 0.7, 1, 20 and 63 in 6-bit doubles; a seed script of 2
wallets, 1 movement each, 1 completed and 1 stuck transfer and both incidents;
2 health checks; 4 pages of 2 over a list of 4 documents that grows to 7, with
three documents of one `createdAt` and one made by a clock that is behind.

- `EventsTypeOK`: nothing is pending or heard but balance changes that the
  publisher's stream has delivered. `BackOnlyWhenSentAgain`: what a subscriber
  hears of one process goes forward on each of its connections, so a snapshot
  that is older than one before it, or repeats it, comes from another process or
  was sent again. `EveryChangeHeard`: a steady subscriber hears of a change from
  *any* process whose stream was open when it was committed, unless that process
  dies first; one that dies leaves it to the others. `LatestHeard`: if nobody
  dies, the last snapshot heard of a wallet is its last balance, although the
  processes publish past one another and repeat themselves.
- `DriftBounded`: after n movements a balance is off by at most n units in the
  last place of the highest balance there was; `NoMoneyMade`: while that is less
  than a tenth, nobody takes out more than was paid in; `WholeExact`: whole
  amounts are exact until the *balance* passes 2^53 (2^Bits here), while `@Max`
  bounds each *amount*.
- `Reconciles`: after every pass, and after the sweep that comes when the
  platform is started on the demo data, ledger and balance agree; `MemoryAgrees`:
  the balances in the script's memory, from which it computes `balanceAfter`,
  are the stored ones but for the sender of the failed transfer;
  `GapsAreForgotten`: where a `balanceAfter` does not go on from the one before,
  the wallet is that sender, and the gap is the debit the script forgot;
  `MoneyAccounted`: what the incidents created and destroyed is all that is off.
- `OutageReported`, `RecoveryReported`: a lasting outage of MongoDB or Redis makes
  every later check answer 503, and its lasting end 200.
- `NothingSkipped`: who pages to the end has been given every document that was
  there at the start and has a `createdAt` of its own, wherever new ones
  appeared and however each query lists the ties; `RepeatsBounded`: an insertion
  repeats at most one such document. Of documents with one `createdAt` some may
  be skipped and others repeated with nothing inserted at all.

**Bounds.** `MaxEvents` bounds the requests that write (each enqueues one
event); `MaxFaults` bounds crashes, lost channels, failed writes, unsure sends
and aborted transactions; `MaxMessages` bounds ids drawn, and
`DuplicatesBounded` shows it is never reached in these runs; `Handlers` bounds
deliveries in progress over all processes; `BatchLimit` and `SweepLimit` stand
for 50 and 100, `Prefetch` for 10; `CachedWallets` and, in `sessions`, `Readers` say
which cache entries and readers a run observes; `MaxReconnects` is how often a
process connects to Redis again: once, as each further time is like the first. They are enough because the races are
between at most two actors on one document: two handlers on copies of one
message, a handler and a sweep, two sweeps, two relays; one fault separates any
two writes, and a second one hits the recovery from the first. Two transfers
are needed for a message or an id to be confused with another's; two amounts
and three wallets for the sums to tell things apart. `MaxJobs` is the
transactions ever begun in `sessions`: three, so that a transaction can lose a
conflict, run again and meet a third, and a circle of three could form.
`MaxTries` bounds a client's attempts: two, as each further one is like the
second. `RecentLimit` 2 stands for 10: three postings overflow it.

Each passing property has a mutant (`mutants` in `PROJECT.json`): a variant of
an action or helper with a plausible mistake, defined just before it, that TLC
finds to violate the property.

## 4. Fairness

`Platform`'s `Fairness` is weak fairness of: the relay's and the sweep's timers
(`setInterval`), the steps of a batch or sweep that a process has begun (the
event loop), delivery to a process with a free prefetch slot, the handling of a
delivered message, the passing of time for a pending transfer, and the restart
of a dead process (the orchestrator; without it nothing can be promised).
Nothing is assumed of requests, faults and expiries, and faults are finitely
many. No strong fairness is used: in particular a transfer's message need not
win against a poison message that is delivered over and over. In `liveness` it
does starve, and `KeepsPromiseInTime` holds because the sweep refunds the
transfer: with `Overdue` broken, it fails.

`Sidelines` assumes weak fairness of a living process's next step (subscribing,
opening its stream, taking a change, publishing, over however many
connections), of Mongoose's heartbeat
(`Notices`) and of the end of a PING, which ioredis answers or, after its last
retry, rejects. Nothing is assumed of commits, deaths and outages.

## 5. Findings

Each of the first six is a run that TLC finds violated.

1. **Refunds leave the cache stale** (`stalecache`). The sweep never touches
   Redis (`src/workers/pending-transfer.worker.ts:64`), against `DESIGN.md:46`.
   Until the entry expires (an hour by default) the sender sees the debited
   balance.
2. **Redelivered messages loop** (`duplicate`). A message whose id is in the
   inbox is not acked but requeued (`src/queue/transfer-events.consumer.ts:82`),
   against `DESIGN.md:40`. No money moves twice; the message goes round, each
   time through the driver's retries, until its inbox entry is seven days old.
3. **Uncastable ids loop** (`poison`). A `CastError` is not recognised as fatal
   (`src/queue/transfer-events.consumer.ts:59`), against the comment above it.
   `test/integration/rabbitmq.integration-spec.ts` publishes such a message.
4. **A reference is no idempotency key** (`deposits`). The index on `reference`
   is not unique and nothing looks it up
   (`src/transactions/schemas/transaction.schema.ts:36`), against
   `src/wallets/dto/deposit.dto.ts:12`: a deposit sent again is made again.
5. **A GET leaves the cache stale** (`stalefill`). `getWallet` sets Redis to the
   balance it read before its GET missed (`src/wallets/wallets.service.ts:84`);
   the SET of a deposit that commits in between is overwritten, against the
   comment at `src/wallets/wallets.service.ts:125` and "immediate
   read-after-write accuracy" (`DESIGN.md:51`).
6. **A retry is refused** (`refused`). When the first attempt, or something after
   it, has emptied the wallet, a retry with its key is answered "Insufficient
   balance": the balance is checked before the key
   (`src/wallets/wallets.service.ts:215`), against
   `src/wallets/wallets.service.spec.ts:361` and `DESIGN.md:7`. No money moves.

Divergences met on the way that have no run of their own:

- "Lock both wallets" (`src/wallets/wallets.service.ts:201`, `DESIGN.md:6` and
  `:38`) is a find, which takes nothing. `NoStandoff` holds without it.
- The SET of a transaction that is then aborted leaves a balance that never was
  (`src/wallets/wallets.service.ts:125`; the hypothesis `faults = 0` of
  `CacheWasReal`).
- `reconcile` reports a wallet at work as out of sync
  (`src/wallets/wallets.service.ts:340`), by what `DifferencesExplained` says.
- `lastSweptAt` is set only together with FAILED
  (`src/workers/pending-transfer.worker.ts:56`), so the filter on it (`:38`)
  excludes nothing; `DESIGN.md:13` and `:41` credit it with the prevention of
  double refunds, which is the filter on PENDING.
- Amounts with cents are not protected from rounding by their bounds
  (`DESIGN.md:23`): 0.1 + 0.7 - 0.7 is not 0.1. `DriftBounded` is what holds.
- The seed takes `balanceAfter` from its memory (`scripts/seed/seed.ts:254`), which
  the failed transfer leaves behind, so that an entry after it need not go on
  from the one before, as `ARCHITECTURE.md:101` describes. `GapsAreForgotten`
  says how far that goes.
- Both lists are sorted by `createdAt` alone (`src/ledger/ledger.service.ts:127`,
  `src/transactions/transactions.service.ts:64`), so pages of documents with one
  `createdAt` can miss some of them.
- ioredis sends snapshots again (`src/redis/redis.service.ts:12`), so a subscriber
  may hear 1, 2, 1, 2 of one process; nothing here reads them but a log.
- `GET /health` asks whether RabbitMQ's channel wrapper exists
  (`src/health/health.controller.ts:34`), which it always does: an outage of the
  broker is not reported, against `DESIGN.md:25`.
- Correlation ids go into neither outbox nor messages
  (`src/outbox/outbox.service.ts:13`), against `DESIGN.md:21`.

## 6. Proofs

TLAPS proves, for all sets of wallets, transfers, processes, handlers, sessions
and clients, all amounts, limits and numbers of faults:

| Theorem | Statement |
|---|---|
| `PlatformProofs!TypeCorrect` | `Spec => []TypeOK`: in particular no balance below zero |
| `PlatformProofs!PayloadsAgree` | `Spec => []PayloadAgreement` |
| `PlatformProofs!PromiseKept` | `Spec => KeepsPromise`: `Platform` implements `Bank` |
| `PlatformProofs!ClaimsAreOfTheEnded` | `Spec => []ClaimedMeansResolved` |
| `PlatformProofs!NothingIsLost` | `Spec => []NoMessageLost` |
| `PlatformProofs!SurplusIsPaidFor` | `Spec => []DuplicatesBounded` |
| `SettlementProofs!TrailKept` | `Spec => []AuditTrail` |
| `SettlementProofs!OnlyOverdueRefunded` | `Spec => []RefundsOnlyOverdue` |
| `SettlementProofs!EachResolvedOnce` | `Spec => []ResolvedOnce` |
| `SettlementProofs!BooksAlwaysBalance` | `Spec => []BooksBalance` |
| `SettlementProofs!MoneyIsConserved` | `Spec => []MoneyConserved` |
| `SessionProofs!TransactionsIsolated` | `Spec => []Isolated` |
| `SessionProofs!SessionsTypeCorrect` | `Spec => []TypeOK` of `MongoSessions` |
| `SessionProofs!SessionsAreSerial` | `Spec => CommitsAreSerial`: `MongoSessions` implements `Bank` |
| `SessionProofs!NobodyStandsOff` | `Spec => []NoStandoff` |
| `SessionProofs!CacheIsReal` | `Spec => []CacheWasReal` |
| `SessionProofs!LastSetIsLastCommit` | `Spec => []LastCommitSetLast` |
| `ApiProofs!KeysPayOnce` | `ReportsSpec => []PaidOnce` |
| `ApiProofs!DashboardComplete` | `ReportsSpec => []ActivityComplete` |
| `ApiProofs!ReportsExplained` | `ReportsSpec => []DifferencesExplained` |
| `SidelinesProofs!EventsAreTyped` | `Spec => []EventsTypeOK` of `Sidelines` |
| `SidelinesProofs!SnapshotsGoForward` | `Spec => []BackOnlyWhenSentAgain` |
| `SidelinesProofs!NothingIsSkipped` | `Spec => []NothingSkipped` |
| `SidelinesProofs!RepeatsArePaid` | `Spec => []RepeatsBounded` |
| `AmountProofs!DriftIsBounded` | `Spec => []DriftBounded` |
| `AmountProofs!NoMoneyIsMade` | `Spec => []NoMoneyMade` |
| `AmountProofs!WholeIsExact` | `Spec => []WholeExact` |
| `AmountProofs!DemoReconciles` | `Spec => []Reconciles` |
| `AmountProofs!ScriptRemembers` | `Spec => []MemoryAgrees` |
| `AmountProofs!GapsExplained` | `Spec => []GapsAreForgotten` |
| `AmountProofs!DemoMoney` | `Spec => []MoneyAccounted` |

With these every safety property of a passing run, invariant, action property or
refinement, is a theorem.

Assumptions: those on the constants, each `ASSUME` in the module that declares
them (amounts are positive naturals, limits positive, `None`, `NoKey` and `Miss`
are not values of the sets they are told apart from, ids and keys of different
collections differ). `KeysAssumption` is one about clients: a key is sent with
one request only. The code does not compare a repeated key's request with the
stored transfer, so a client that reused a key would be answered an old
transfer with other terms. `BooksAssumption` has finitely many wallets and
transfers, without which their money has no sum; `MoneyAssumption` has amounts
of at most 2^Bits - 1, which is `@Max`. TLC evaluates all of them.

**Types and the promise.** `StoreProofs` has the types of the helpers: what a
posting, an enqueued event or a set of copies does to the documents.
`PlatformProofs` proves `TypeOK` inductive, one lemma per component. `TypeOK`
alone does not give the refinement: `CompleteTransfer` credits `m.to` with
`m.amount`, the Bank credits `transfer[t].to` with `transfer[t].amount`, so a
step of the one is a step of the other only where the message agrees with the
document. `PayloadAgreement` is that strengthening. `TypeOK /\
PayloadAgreement` is inductive because the parties and the amount of a transfer
never change (`TermsAreFixed`) and messages only come from events and the queue
(`MessagesInPlay`). `StepsAreBankSteps` then maps each step to a step of the
Bank or a stutter.

**Sums.** `SumTheorems` is about the folds of module `Functions`, with which the
models sum. Such a fold is a chosen function on the finite subsets of a set,
defined by its value at a smaller subset; that one exists, that it is unique and
what it is are proved from the least counterexample (`Least` for numbers,
`SmallestSubset` for sets), which is what an induction comes to when the
induction theorems cannot be instantiated. What is then cited: the sum of a
function that is changed at one argument (`WholeChanges`), has one argument more
(`WholeGrows`) or is the union of two (`SumUnion`).

**Settlement.** `WritingSteps` isolates the five kinds of step that write a
balance, so that `AuditTrail` (with `TypeOK` and `PayloadAgreement`) is proved
once for a recorded movement (`RecordKeepsTrail`). `RefundsOnlyOverdue` needs
that a sweep's ids are all aged, which is `OnlyOverdue`. `ResolvedOnce` is
inductive with `TypeOK` and `PayloadAgreement`: `LegsRight` restates it of one
transfer document and a ledger given as values, and a posting is then one of
another transfer (`ForeignPosting`), the debit of a new one (`DebitPosting`) or
the credit that ends a pending one (`CreditPosting`); the guard "status is
PENDING" in the transaction that posts is what the last rests on, and neither
the inbox nor the number of copies of a message appears in the argument.

**Books.** A step that records a movement appends one posting and changes one
balance by as much, so a sum over the postings of a wallet grows by what the
balance does: `BooksBalance` is inductive with `TypeOK` and `PayloadAgreement`.
`MoneyConserved` adds the transfers in flight: a transfer's debit becomes its own
flight, and settlement and refund end a flight with a credit of its amount in the
same currency, which the guard on the currencies in `transfer` is for.

**Delivery.** Two messages with one id are of one transfer, an id is drawn
before it is used, and foreign messages name no transfer (`MessagesKnown`).
With it: a claim in the inbox and the end of its transfer are one commit
(`ClaimedMeansResolved`). For `NoMessageLost` the invariant says what every
actor knows: a handler whose transaction has ended knows the transfer has
(`DoneMeansEnded`), a relay's batch names events there are (`RelayKnows`), and
an event that a relay has sent and is about to mark has a copy in the broker or
a transfer that has ended (`SentMeansCovered`). The broker drops no copy but of
messages that are settled (`BrokerKeeps`), so the mark finds what the send left.

**Sending.** `DuplicatesBounded` counts. A process spends a pair of itself and an
event when it sends the event (`Spent`), and gets it back only by a fault: it
drops an event it has sent only when the mark fails or the process dies. A
process also dies without a new fault, of a handler whose channel was lost, but
once for each loss (`Mourning`). `SentBounded` is the account: messages and deaths
to come are at most the queue's first messages, the faults and the pairs spent.
It needs finitely many processes (`StoreAssumption`).

**Sessions.** `Isolated` is the invariant of optimistic transactions: a document
has one holder (`HoldsAlone`), a holder's snapshot of what it has written is
not missed by a later commit (`HoldsCurrent`), and what a snapshot says of a
document that was not committed since is what is there (`SnapshotAgrees`). A
commit then writes what the Bank would, and all other steps stutter.
`NobodyStandsOff` finds the holder that can go on: one that has its last
statement behind it; else a transfer, whose document is new and whose key only
finished ones hold; else a consumer or sweep that needs its wallet, as then
nobody holds a wallet; else all are consumers that hold their messages.
`CacheIsReal` adds what is on its way to Redis (`RealCache`): a transaction that is
about to SET holds its wallet, so no commit comes between, and a balance that a
GET carries was committed once. `LastSetIsLastCommit` needs more of the same:
the SET of a transaction that goes on to commit was made while it held the
wallet, by one holder at a time (`OneWallet`), so no other transaction's SET lies
between it and the commit (`LatestCache`); `owned` forgets an entry when a GET, an
expiry or a refund makes it another's.

**Clients.** `Idempotent`: no two transfers have one key (`KeysUnique`), each has
one debit posting and each such posting is a transfer's (`DebitedOnce`,
`DebitsNamed`), a transfer has the terms of a client that asked (`AskedFor`) and
an answer names one with its client's terms (`Answered`). For the dashboard,
books only grow (`BooksGrow`), so the postings that were counted are among
those that are listed later (`AllViewed`), and the last k positions of a
sequence are as many as they should be (`LastOnes`). For the differences, what a
report has read is the sum of the postings up to where its ledger then ended,
and a sum up to one position less a sum up to another is the sum between.

**Wallet events.** What a process has published of the wallets on its connection
comes before what Redis has still to execute of what it has pending, and that
before what its stream has still to deliver, in the order of the commits
(`InOrder`). A new connection begins that order again with what is pending, which
is why what was heard is tagged with the connection. A process that starts again
opens its stream at the end, so it never publishes an older change after a newer
one. `EventsTypeOK` is a part of `InOrder`.

**Paging.** However a query lists ties, a document with a `createdAt` of its own is
among the first k exactly when fewer than k documents are newer (`PlaceOf`); so
the number of newer ones is its place, which decides the page it is on
(`PageOf`). An insertion moves a place by one at most, and only on (`Moves`);
`StillToCome` follows: a document of the beginning was given already, or its
place is on a page that was not read. `RepeatsPaid` is the account: documents that
were given twice, and those that were given and pushed to a page still to come,
are together at most as many as were inserted, since no two of them have one
place (`OnePlace`) and a page repeats only what was pushed there.

**Rounding.** Nothing here is about one significand or one amount. `Ulp` is
chosen among powers of two; the least that fits is one that can be chosen
(`UlpIs`), a larger number's is no smaller (`UlpGrows`), and the rounded number's
is no smaller than the number's (`Nearest`, by `UlpOfRounded`): rounding does not
fall out of the range it was done in. A movement rounds twice, the amount and
the sum, each by at most half a distance, and neither distance is more than that
of the highest balance after; so the drift grows by at most one of those
(`DriftAfter`). `Kept`, the invariant, also bounds the highest balance by the
number of movements, so that `Ulp` is always one of the powers it is chosen from
(`Tops`); and it says that while amounts are whole and the balance stays below
2^Bits, the balance is a multiple of One, which `Round` returns as it is (`Exact`).
`NoMoneyMade` and `WholeExact` follow.

**The seed script.** `Seeded` places the script: the passes left are those after
the ones done (`OnScript`), and the number of transfers is what those passes made.
With it, each pass posts what it stores (`FillPosts`, `BetweenPosts`, `SweepPosts`):
`Reconciles` is inductive. `MemoryAgrees` needs that the failed transfer is the
only pass that leaves memory behind, and stays failed (`StillFailed`).
`GapsAreForgotten` rests on `Chained`: a wallet's last `balanceAfter` is what is
stored of it, or more by what was forgotten (`Forgotten`), and so is an entry that
goes on from memory; two such differ by nothing or by that amount (`ChainMore`).
`MoneyAccounted` holds at the end only, so `Accounted` states it of every moment,
with an incident that is not yet made counted as nothing (`AmountAt`).

**Only model-checked.** Liveness under fairness (`KeepsPromiseInTime`,
`EveryEventPublished`, `EveryChangeHeard`, `LatestHeard`, `OutageReported`,
`RecoveryReported`), which is outside what the prover handles.

## 7. Not modelled, and why

- **Authentication and wallet ownership** (`src/auth`, the guard): stateless
  checks in front of a handler. A refused request reaches no handler, so it is
  a request that is not made; every property holds for any subset of requests.
- **Rate limiting**: in-memory counters of a library, likewise.
- **Request validation**, beyond which amounts pass it: ids are well formed, an
  amount is positive, a key is a nonempty string. The models start from there.
- **Logging, correlation ids, error filter, Swagger, dependency injection**: no
  state that anything reads (the finding about correlation ids is above).
- `wallet.version`, which only ever grows and which nothing reads; the free
  text of transfers and transactions; `getEntriesForWallet`,
  `computeBalanceFromLedger`, `invalidateBalance` and other functions that
  nothing calls.
- The total of a page listing, which is a second query and is compared with
  nothing; the filters, which only choose the list.
- MongoDB's and RabbitMQ's replication: they are taken to keep what they have
  confirmed.

## 8. Plan

Done: the money's path and its settlement (`Platform` and what it composes, with
`Bank`), transactions in steps (`MongoSessions`), retrying clients and torn reports
(`ApiClients`, `Reports`), and the parts beside (`Sidelines`); proofs of all safety
properties that a passing run checks.

Left, in the order of use:

1. The balance cache over longer histories: how long, and by how much, a cached
   balance can be behind when SETs of one wallet overtake one another between
   processes; `MongoSessions` has the order of SETs, its runs one observed wallet.
2. A bridge from `MongoSessions` to `Platform`'s ledger and outbox: the inserts
   that ride along with a write are part of that write here.
3. The safety half of the liveness properties as theorems: what is always still
   enabled of a pending transfer, of a staged event and of a change.
