# A TLA+ model of the Vibranium order book

The repository is a single-instrument exchange in Go: clients place and cancel
limit orders over HTTP, one goroutine matches them, and another moves the money
between wallets from the events the first one publishes. This directory models
that pipeline, checks it with TLC on small instances and proves its safety properties
with TLAPS for every instance.

## The system

| component | state | operations | talks to |
|---|---|---|---|
| order book (`domain/orderbook.go`, `order.go`, `trade.go`) | two sides (level map, sorted price slice, FIFO queues), order index, two counters | `Place`, `Cancel`, `Snapshot` | called by the engine only |
| wallet (`domain/wallet.go`) | available and locked COP and Vibranium | reserve, release, settle | held by the wallet store |
| trading service (`service/trading.go`) | none of its own | `PlaceOrder`, `CancelOrder`, `GetOrder` | wallet store, engine |
| wallet and market queries (`service/query.go`) | none | `Seed`, reads | wallet store, engine, trade store |
| matching engine (`matching/engine.go`) | the book, a bounded command channel, an event counter | `Place`, `Cancel`, `Depth`, the goroutine `Run` | event log, reply channels |
| event log (`memlog`, `kafkalog`) | events on their way | `Publish`, `Events`, `Close` | engine, settlement |
| settlement (`service/settlement.go`) | none of its own | the goroutine `Run` | journal, wallet, order and trade stores |
| stores (`memstore`, `postgres`, `rediscache`) | wallets, order projection, trade history, journal | upsert, atomic update, append, mark | - |
| reconciliation (`service/reconciliation.go`) | a baseline | periodic sample | wallet store |
| start-up and shutdown (`cmd`, `bootstrap`, `config`) | configuration, connections, goroutines and their contexts | waiting for services, wiring, signal handling | all |

REST, the telemetry instruments and the load test keep no state the others depend on.

What is hard here: the engine is single-threaded, but the reservation that precedes
an order and the settlement that follows it run concurrently with it and with each
other, over two bounded channels. A client may give up at any moment. A trade is
settled by two separate wallet updates. A durable log delivers events again. A
store fails, or the process ends, between any two writes of one event.
Correct means: price-time priority; money neither created nor destroyed; what is
locked is exactly what backs something; the projections catch up and never go back;
every call ends.

## The modules

| module | role |
|---|---|
| `OrderBook` | `orderbook.go`, in full. `Place` is split at the head of its loop into `PlaceBegin`, `MatchStep` and `PlaceFinish`, so invariants hold inside the loop too. `levels` and `prices` are separate as in the code: their agreement is a property, not an assumption. |
| `PriceTimeBook` | What an order book promises, without data structures: an incoming order trades with the resting order that is first by price, then by acceptance. |
| `MCOrderBook` | TLC instance of `OrderBook`. |
| `Summation` | The sum of a function over its domain, used by the models above and below. |
| `OrderBookProofs`, `PriceTimeProofs`, `ExchangeProofs`, `DurableExchangeProofs`, `WalletCacheProofs`, `KafkaLogProofs`, `StartupProofs` | Theorems about the module each is named after; `PriceTimeProofs` is the refinement of `PriceTimeBook` by `OrderBook`. |
| `SummationProofs` | Lemmas about sums. |
| `Wallet` | The wallet operations and the conditions under which they fail. |
| `Exchange` | Clients, engine, log and settlement around `OrderBook` and `Wallet`. |
| `MCExchange` | TLC instances of `Exchange`. |
| `DurableExchange`, `MCDurableExchange` | `Exchange` on Postgres and a durable log: restarts, redeliveries, stores that fail in the middle of an event, the order and trade stores with their conflict rules, and the reconciliation job. |
| `Startup`, `MCStartup` | Configuration, `bootstrap.Build` with the adapters' retry loops under one deadline, telemetry, and the order in which `main` closes things. |
| `WalletCache`, `MCWalletCache` | One wallet in Postgres behind the Redis cache: readers, writers, row lock, commit, fill, invalidation, expiry. |
| `KafkaLog`, `MCKafkaLog` | The durable log from `Publish` to the applied event, over crashes, shutdowns and restarts of the process. |

In `Exchange` an order identifier stands for the `PlaceOrder` call that drew it.
`call[id]` is the place in `Trading.PlaceOrder` and `Engine.Place` where that call
is; `in` is the engine's channel; `outbox` are the events of the command in hand
that `publish` has not yet sent; `log`, `pos` are all events and how far settlement
has received them, an event's position being its ID; `job` are the writes that
settlement still makes for the event in hand. Every action is one access to
something shared: one wallet update, one channel operation, one store write. An
error of a wallet operation leaves the wallet alone and, in settlement, the next
write goes ahead, as `applyTrade` does.

`WalletCache` follows `rediscache/wallet.go` around `postgres/wallet.go`: every step
between two requests to Redis or Postgres is an action. A statement may fail, a
commit may succeed with its answer lost, Redis may drop any request. Wallets are
independent of each other there, so one is enough; an update reserves one unit.

`KafkaLog` has one variable per place where an event can be: `in` and `out` (the two
channels), `buffered` (the client), `topic` (the partition), `hand` (settlement).
`fetched`, `position`, `marked` and `committed` are the consumer's offsets. `closing`
is the place in the shutdown sequence of `main.go` and `Close`. An event is a
number: its effect belongs to `Exchange`. The constant `Faults` says what may go
wrong in an instance. The broker is external: it appends in order, as franz-go's
idempotent producer and a single partition make it, or reports an error, or is silent.
The client buffers `BufferSize` records; `New` sets no limit, so franz-go's own of 10,000
holds, while `in` has room for 65,536. With the buffer full `client.Produce` waits, on a
context that never ends: the last event of `buffered` is then the one in that call
(`HeldBack`), and `produceLoop` takes no further one. That `client.Close` returns is
assumed.

`DurableExchange` extends `Exchange` and keeps its state. Wallets, `projection`, `trades`,
`journal` and `log` are what outlives a process; `Restart` resets the rest. Settlement's
order and trade writes go through the SQL of the Postgres stores (`PostgresUpsert`,
`PostgresAppend`). Six faults may happen, each again and again, and `MaxFaults` in all:
`Crash` at any step, with the log going on from the committed offset, which may be
behind or ahead of what settlement received and which never goes back (`resumed`);
`Rewind` to an earlier event that is not committed; `JournalFails`, with its row written or not; `WriteFails` for any single write
of settlement; `ReserveUnanswered`, a reservation whose commit is not answered;
`ReleaseFails`, the compensating release. `lost` is auxiliary: the writes of journalled
events that were never made. `Sample` is one run of the reconciliation: `List` is one
query, so it sees the wallets between two writes and never inside one. `DurableSpec`
has the job disabled (an interval of zero), `ReconciledSpec` enabled. Clients here wait
for their reply: a client that gives up breaks the money invariant without any fault.

`Startup` counts time in pauses of a retry loop. `stage` is the place in `Build` and
`main`, `deadline` the end of the wait of the adapter in hand, `Budget` the end of the
context that all adapters share, `open` what has to be closed. A service is down until
its moment and from then on answers within `PingTimeout`. Everything that has the
startup context takes its time out of it: a ping, answered or not, up to `PingTimeout`, a
pause one unit, the schema (`Migrate`) and the topic (`EnsureTopic`) any time that is
left. `Env` holds the driver names and the telemetry switch, set, empty or misspelt. The
three retry loops are the same code, so `Dial`, `Unusable`, `Connected` and `Retry` take
the service as a parameter and are mapped to the loop of `postgres.Connect`. An adapter
that fails closes its own client; what Build had opened before is closed by
`infra.Close` (`InfraClose`), which Build calls after every adapter but the first, and
which `main` defers.

Abstractions: times, symbols, names and error texts are left out; the four ways in
which `PlaceOrder` refuses a request end in one state; amounts are unbounded
integers (the code's `int64` wraps: see "Not modelled"); `sort.Search` is modelled by its
contract. A buffer of size zero cannot be configured (`NewEngine` and `memlog.New`
replace it), hence `BufferAssumption`. An event's identifier is its place in the log:
the code's is unique over restarts too, as it starts with a random producer ID.

Definitions introduced by a comment "Mutant of X" are deliberately wrong variants
of X. No specification uses them: each shows that a property can fail.

## The runs

| run | checks | result |
|---|---|---|
| `order_book` | the nine invariants of `OrderBook`, `OrdersOnlyAdvance`, and that `OrderBook` implements `PriceTimeBook` | holds, 490,913 states |
| `exchange` | money conservation, no overdraft, locked funds = obligations, no settlement write ever fails, the book is used as `OrderBookSpec` says, no deadlock | holds, 683,414 states |
| `durable` | with two faults: the supply is off by exactly the lost legs, obligations stay covered, trade history and projection are exact as far as they can be | holds, 1,213,129 states |
| `durable_liveness` | every reserved call ends; finished orders reach the projection; what persists in the samples of the supply is a lost leg and nothing else | holds, 147,658 states |
| `startup` | a start ends with the startup context, runs what was configured or refuses, gives up only on a service that is late for the wait it was left, and closes what it opened | holds, 1,090,735 states |
| `wallet_cache` | the row lock loses no update; answers were committed at some time; a stale entry does not last | holds, 241,266 states |
| `kafka_log` | order, at-most-once application, bounded loss, what `Close` keeps; every event that no crash or error took is applied if the broker answers; a shutdown ends unless the producer is held back for ever | holds, 381,123 states |
| `kafka_loss` | a crash loses no event that was committed | violated |
| `kafka_panic` | nobody publishes on the closed log | violated |
| `abandoned_call` | `MoneyConserved` when clients may give up waiting for the reply | violated |
| `trade_history` | a restart keeps the full trade history | violated |
| `stale_projection` | no update overwrites a newer state of an order with an older one | violated |

**Bounds.** `order_book`: four orders of one user over three prices and quantities 1
and 2, which gives two levels per side, queues of several orders, a taker that
crosses several makers and levels, partial fills of both kinds and cancels at the
front, middle and end. Users play no part in the book. Identifiers are symmetric.
`CHECK_DEADLOCK` is off there because the run ends when the identifiers are used up.
`exchange`: three calls, five commands (one invalid, one that its user cannot always
afford, two users who may trade with themselves), both channels of capacity one,
so that every sender waits at some time. Deadlock is checked: only `Idle`, which
requires that nothing at all is pending, keeps a finished run going. `durable`: a buy
of two that a sell of one fills in part and below its limit, so that one command
yields a trade, a price improvement, a remainder and a cancel; two faults, because a
fault shows its effect only when another one (a redelivery, a restart) meets it; two
events in the log, so that one can be committed and another one not.
`durable_liveness` has the same orders, a redelivery or a failed write, and no
symmetry. `trade_history` needs a trade before and one after a restart, hence four
orders; its constraint `Patient` leaves out clients who cancel or give up.
`startup`: a wait of 6, a slack of 3, a ping of up to 2, and services that come up at 0, 3,
5 or 10, that is at once, in time, late for an adapter that began at once but not for one
that began later, and after the context. An adapter may have its whole wait, may lose
the end of it to the context, or may find no more than a ping of the context left. Deadlock is off: a process that has stopped or refused stays so.
`wallet_cache`: three updates against a balance of two, so that one is refused, and
a reader who reads again and again. `kafka_log`: three events, channels and a client
buffer of capacity one and two lives; three events are needed to lose more than one life may lose, and
two lives for a redelivery. Deadlock is off in the runs of `KafkaLog`, because the
process may stay down.

**Fairness.** Weak fairness of the engine and settlement goroutines and of a client
inside a call, and of the reconciliation's ticker: the Go scheduler runs what is
runnable. No fault has to happen. A sender on a full channel
needs no more, since the calls are finitely many and Go queues senders in order.
Clients are never made to start, cancel or give up. In `WalletCache` only `Expire` is
fair: Redis honours the TTL that `Set` passes, and nothing else is needed. In
`KafkaLog` the goroutines are fair: producer, consumer, settlement, `Close`, and an engine
whose context has ended. Of the broker `FairSpec` assumes nothing. That it answers (`BrokerAnswers`)
is a hypothesis of `EventsSettle`, which is not to be had without it, and no part of
`ShutdownEnds`. In
`Startup` the steps of a start are fair, since each ends with the startup context; a
signal may never come.

**What a liveness property leaves open.** `Close` waits for `produceLoop` before any of the
calls that have a timeout (`kafkalog.go:288`). If the broker is silent and the client's
buffer full, `Produce` does not return and neither does `Close`: without the last
disjunct of `ShutdownEnds` TLC finds the shutdown that stays in `drain` for ever. The property
says that this is the only way in which a shutdown can hang. `GivesUpOnLateService` has
the bound that the code gives: a ping that began before the service came up may last
`PingTimeout`, and the ping after it may be cut short by the end of the wait. It is
measured on the wait the adapter had, which begins when the adapter does and
which the startup context may cut, and it has one exception. An adapter that begins
with at most a ping of the context left can run into its end on the first ping; it then
refuses a service that has been up all along. With `2 * PingTimeout - 1`, with the
adapter's deadline instead of the earlier of it and the context's end, or with
`> Budget - PingTimeout` in the exception, TLC finds a counterexample.

**What the violations show.**
* `abandoned_call`: `Engine.Place` returns when the context ends even after the
  command was sent. `PlaceOrder` then refunds the reservation, but the order is in
  the engine's queue or in the book. When it trades, its leg finds nothing locked
  and fails, the other leg applies, and value appears from nothing, against the
  README's money invariant. `Spec` leaves that step out and `AbandonSpec` adds it,
  so the passing runs say what holds for clients that wait.
* `trade_history`: a trade's identifier is the symbol and `tradeSeq`, which starts at
  zero in every process. After a restart the identifiers repeat, and `ON CONFLICT (id)
  DO NOTHING` drops the new trades; their wallets are settled. `TradeHistoryExact` says
  what holds within one life. (`Recent` also orders by that sequence, so trades of two
  lives would be mixed even with other identifiers.)
* `stale_projection`: the guard of `OrderStore.Upsert` compares `sequence`, the number
  the book gave the order on acceptance, which all its snapshots share. It stops
  nothing. What keeps the projection monotonic is the journal: `ProjectionOnlyAdvances`
  holds as long as the journal answers. If it fails for an update, which is then
  skipped, and the log delivers that update again after a newer one, the older
  snapshot wins: an order that was cancelled and refunded is shown as open.
* `kafka_loss`: `consumeLoop` marks a record when the channel has it. Up to 1024 events
  wait there; a commit and a crash later they are neither settled nor delivered
  again. `LossBounded` gives the bound: the channel and the event in hand, for each
  life. The event in hand is lost because the journal is marked before it applies.
* `kafka_panic`: `stopEngine` cancels a context and does not wait. An engine that is
  still busy, with a command whose client has gone, sends on a closed channel.

Behaviour and comments that disagree, met on the way and not given a run of their own:
`Wallets.Seed` replaces a wallet, so that seeding twice takes away earnings and cover
(the README lists the lost cover as a known gap, while it says of the supply that
seeding can only raise it); `rediscache` says that a stale balance is never written
back, while a `Get` that read the row before an update fills the cache after that
update's invalidation, until the TTL (`StalenessEnds` bounds it); settlement counts a
trade of which a leg failed as applied, so the alert `SettlementFailures` cannot see
it, and only the supply gauge does (`DiscrepancyPersistsIfReal`), with one warning in
the log, since the baseline moves; the README says that funds are never stranded in
`locked`, while a compensating release that fails, or a reservation whose commit is
not answered, strands them (`ObligationsCovered` shows that this is the only direction
in which faults err); it says that every adapter retries until `INFRA_WAIT_TIMEOUT`,
while all share a context of that plus 30 seconds, which pings, schema and topic spend
too, so the last of three late services may get less, down to nothing; an unknown `CACHE_DRIVER` means none and a Boolean, number or duration
that does not parse means its default, where an unknown store or log driver refuses
to start, without closing the pool if it is a store's. `event.go` announces `ORDER_ACCEPTED` events, which nothing emits,
and says that releases come on terminal updates, while a partly filled buy gets its
price improvement at once on a `PARTIALLY_FILLED` update; `memlog.New` says that the
engine is never blocked by a slow consumer, while it waits once settlement is a whole
buffer behind; and `Close` of the Kafka log promises to settle what is produced
during shutdown in the same run, while it stops the consumer right after the flush,
so that these records wait for the next start, and it bounds the flush and the
commit by a timeout but not its wait for the producer, which a silent broker can make
endless.

## The proofs

Every theorem holds for any values of the constants that satisfy the named `ASSUME`s
of its modules, and TLC evaluates these on its runs. Each of them says what the code
takes for granted: prices and quantities that `Validate` lets through are positive,
buffers hold at least one element, users and orders of a behaviour are finitely many,
`None` is none of the values it stands in for, the startup context outlasts one wait (`Slack > 0`).

### The order book

`OrderBookProofs` proves `OrderBookSpec => []BookInv` (`BookInvariant`) and from it
`TypeCorrect`, `PricesStaySorted`, `LevelsAreExact`, `IndexIsExact`, `QueuesKeepTime`,
`NeverCrossed` and `StatusIsRight`; on top of it `OrdersAdvance`,
`TakerIsAccountedFor` and `SnapshotIsTrue`.

`BookInv` is the conjunction of seven invariants of the `order_book` run and
`SequencesUnique`; none is inductive alone. `MatchStep` takes `Head(levels[Best])`: that this exists needs
`LevelsMatchPrices`; that it is an indexed order at that price, `IndexMatchesQueues`;
that it has something left, `StatusMatchesFill`. Removing it keeps the slices sorted
and the queues in time order only because both were. `PlaceFinish` keeps the book
uncrossed because the best price does not cross (the loop ended) and, by
`PricesSorted`, no other price does; it keeps time order because the taker has the
largest sequence number (`SequencesUnique`). The lemmas follow that argument: first
slices (`InsertPriceOK`, `RemovePriceOK`), then book sides (`AddOK`, `ShrinkLevelOK`),
then the three ways in which a step can treat the structure (`StructureKept`,
`OrderRemoved`, `OrderRested`), then one lemma per operation.

`PriceTimePriority` (`PriceTimeProofs`) shows that the book implements
`PriceTimeBook`, step by step: `BookInv` makes the head of the best level the resting
order that is first by price and then by acceptance.

### Sums

`FillsAccountForTaker`, `SnapshotShowsRestingOrders`, `LockedBacksObligations` and
`MoneyConserved` are about sums. The prover has no induction over data, so
`SummationProofs` shows without one what `Total` is: the function that counts the units
`{<<x, n>> : n < f[x]}` satisfies the recursion that defines `Total`, and this recursion
has one solution (`StepIsUnique`: two would differ on a minimal finite set, because
strict inclusion is well-founded there). Hence `TotalCounts`: `Total(f)` is the cardinality of a finite set, and
the laws that the other proofs cite (one term changed, added, removed, reindexed; a
sequence longer or shorter by one) are laws of cardinalities.

### The exchange

`ExchangeProofs` has three layers.

* `ControlInvariant`. `ControlInv` is `BookInv` and, for every call, command, event and
  write, where it can be: a place command is in the channel once, for a call that
  waits and has no order yet; the one being served has its order; `outbox` and
  `log` hold well-formed events; `job` is a suffix of the writes of one event, in which
  the two legs of a trade are adjacent. `DeliveryInvariant` adds what only a process
  that never dies has: the journal is what settlement received, no call is cut off. `ExchangeTypes` and
  `NeverOverdrawn` follow, and
  `BookInsideExchange`: the engine calls the book as `OrderBookSpec` allows, so the
  theorems on the book hold in the exchange.
* `BackedInvariant`. `Backed` says of each user and asset that what is locked equals
  what is owed: reservations on their way to the engine, the open part of orders, and the
  debits in `outbox`, in the undelivered part of the log and in `job`. It is
  `LockedBacksObligations` extended to users without a wallet, who owe nothing; without
  that, a settlement could meet a missing wallet. Each action moves an amount from one
  term to another: it keeps the `Surplus` of what is locked over what is owed, whatever
  that is (`SurplusStep`), and here it is zero from the start. The hardest is the end of
  `Place`: its fills, its price improvement and its remainder must add up to the reservation, which is `FillsAccountForTaker`, and the debits of the
  events that `PlaceEvents` flattens from the fills must be those of the fills
  (`FlattenPairs`). From it `LockedFundsAreOwed` and `SettlementNeverFails`: a write at
  the head of `job` is part of what its user owes, hence locked.
* `MoneyIsConserved`. `OffBy(0, 0)` restates `MoneyConserved` with sums over all users:
  `OffBy(dc, dv)` says that the supply is off by these amounts, up to the second leg of
  the trade in hand, and every step keeps them (`SupplyStep`). That is inductive only
  relative to `Backed`: a leg that failed would destroy money, and
  `SettlementCollateralised` says that none does.

### The durable exchange

`DurableExchangeProofs` reuses all this for a process that dies and is started again,
with any number of faults of any kind. A step is one of `Exchange` without a fault
(`Plain`), a row that the stores refuse because they have it (`Refused`), or a fault
(`DurableSteps`), so the lemmas on the steps of `Exchange` serve here too. That is why
`ControlInv` speaks of no initial stretch of the log and knows calls that were cut off.

* `DurableControl`. `DurableInv` is `ControlInv`, a wallet for every user, and a
  committed offset that is not ahead of the position. `NeverOverdrawnByFaults` follows.
* `CoveredInvariant`. What is locked is at least what is owed. A step keeps the surplus;
  a crash ends calls and empties book, queue and job, which lowers what is owed and
  takes nothing from a wallet; an unanswered reservation and a release that fails leave
  funds locked for nobody. Hence `FaultsUncoverNothing`, and
  `FaultsRefuseNoWrite`: a leg can fail to be made, but never for lack of funds.
* `SupplyOffInvariant`. The supply is off by what the lost writes leave: a lost buy leg
  leaves COP with the buyer, a lost sell leg Vibranium with the seller. A crash between
  the legs of a trade turns the leg in hand into a lost one; a lost event adds both
  legs, which cancel out. `LostLegsAreTheDiscrepancy` and `ConservedUntilWritesAreLost`
  follow; both need `Covered`, without which a leg could fail that nobody counts.
* `StreamInvariant`. The stream is all that the engine says and has said: the log, the
  outbox, and the fills of the taker in hand. No snapshot of an order follows a newer
  one (`Ordered`) and none is ahead of the book (`Behind`); while no process has died,
  the last snapshot of an order is the order and the trades are numbered 1 to
  `tradeSeq`. Every step of the engine grows the stream at its end
  (`StreamGrows`), by snapshots that are not older than the ones before because orders
  only advance (`AdvancesStep`, which `OrdersAdvance` rests on); faults only shorten it.
* `JournalInvariant`. While the journal answers, what lies between the committed offset
  and the position is marked, so an event that is not marked is later than all that are.
  Settlement thus brings the last marked snapshot of an order, which is at least as new
  as the one shown: `GetOrderNeverGoesBack`. The guard on `sequence` plays no part in
  it, as `stale_projection` shows from the other side.
* `HistoryInvariant`. Before any crash each marked trade is in the history, in the job or
  among the lost writes, and the history has no other and none twice. A trade's number
  identifies it in the stream, so `ON CONFLICT DO NOTHING` refuses none:
  `TradeHistoryIsExact`, also with a journal that errs and events that come again.
* `RedeliveryInvariant`. With redeliveries alone nothing is lost and the last marked
  snapshot of each order is shown or in the job. At rest everything is marked, so
  `RedeliveryLeavesNoTrace`; the length of the history is `tradeSeq` because its
  numbers map it one to one onto 1 to `tradeSeq` (`NumberingCounts`).

`GetOrderNeverGoesBack` rests on Kafka's promise that the committed offset never goes
back: a crash that could lower `resumed` would let an event that settlement passed over
come again after newer ones, and TLC finds that too once the log holds two events.

### The cache, the log, the start

* `WalletCacheProofs`: `CacheInv` says that at most one writer is between
  `SELECT ... FOR UPDATE` and commit, and that its copy is the row; that the row has
  the units of all confirmed updates and at most those whose answer was lost besides; and that every copy, in the cache or in a reader's hand, was
  committed once. `UpdatesAreKept` and `ReadersSeeCommitted` follow.
* `KafkaLogProofs`: `KafkaInv` orders the events along the pipeline (queue, broker,
  channel, hand), the offsets (`committed <= position <= Len(topic)`), and relates the
  journal to what was applied. For `LossBounded` it also carries the set of events doomed by the
  end of a process, which grows by at most a channel and the event in hand per life. The buffer of
  the client is bounded because `Produce` is not entered while `HeldBack`. It
  gives `ChannelsAreBounded`, `OrderSurvives`, `AppliesOnce`, `LossIsBounded` and
  `CloseIsComplete`.
* `StartupProofs`: `StartInv` says what is built and open at each stage (`StageOK`) and
  what the clock says (`ClockOK`): Build goes on only within the context, and an adapter
  whose loop has not just begun has seen its service down no longer ago than one ping
  and one pause. So when `Retry` gives up, at the adapter's deadline or at the context's end,
  either the service was still down a ping before, or this was its first ping and the
  context ended in it (`RetryKeeps`). The steps that spend the context without a loop
  are one lemma (`StepKeeps`), and so are all failures (`FailKeeps`), for which
  `ReleaseAll` shows that the adapter's own close and `infra.Close` leave nothing open. It
  gives `StartIsBounded`, `OnlyLateServicesFail`, `AllIsClosed` and `NoSilentFallback`.

### Only model-checked

Liveness, which the prover does not do: `PlaceOrderEnds`, `ProjectionCatchesUp`,
`DiscrepancyPersistsIfReal`, `StartEnds`, `StalenessEnds`, `EventsSettle` and
`ShutdownEnds`. The five violations are counterexamples and have no proof. Every other
property of the passing runs is a theorem.

## The plan

All modules of the plan are written, and the safety properties are proved. What is left:
a bounded integer for amounts, with the overflow of `Price * Quantity`, and `Seed` of a
user who has traded, both listed as hazards without a property.

## Not modelled

* The REST adapter: it decodes a request, calls one service operation, which is an
  action of `Exchange`, and encodes the answer. It keeps no state.
* The telemetry instruments: written, never read by the program.
* The ports: interfaces without code. The load test: a client of the HTTP interface
  whose assertion is `MoneyConserved`.
* `Close` of the in-memory log, which closes its one channel. The race with an engine
  that still publishes is the one `kafka_panic` shows.
* Overflow of `Price * Quantity`, a known gap of the repository's README: every amount
  in these modules is an unbounded integer.
