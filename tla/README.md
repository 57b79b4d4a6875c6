# Formal models of hlbot

This directory holds TLA+ models of the trading bot in `src/`: modules that
follow the code operation by operation, TLC configurations that check them on
small instances, and proofs, checked with TLAPS, of what the live execution code,
the account, the collector, the market scanner, the backtest's replay, the
selection pipeline and the deployment's watchdog guarantee for every number of
orders, fills, records, snapshots, epochs and markets, and all prices and limits.

`PROJECT.json` maps every definition that models code to its lines. Paths below
are relative to the repository; `hlbot/` stands for `src/hlbot/`.

1. [The system](#1-the-system)
2. [Modules](#2-modules)
3. [What the runs check](#3-what-the-runs-check)
4. [Fairness](#4-fairness)
5. [What is proved](#5-what-is-proved)
6. [What only TLC checks](#6-what-only-tlc-checks)
7. [What is not modelled](#7-what-is-not-modelled)
8. [Disagreements and observations](#8-disagreements-and-observations)
9. [Plan](#9-plan)
10. [Running the checks](#10-running-the-checks)

## 1. The system

hlbot records Hyperliquid market data, chooses the markets worth recording and
trading, backtests strategies on the recordings, and executes orders through
Hummingbot behind a risk engine. Its parts talk through three channels: function
calls within a process (live execution, replay), asyncio tasks that share a
queue (collector), and files that one process writes and another reads
(selection pipeline, market scanner, recorder and watchdog, wallet analysis).

### Live execution (`hlbot/execution`, `hlbot/risk`)

| part | state | operations |
|---|---|---|
| `OrderTracker`, `OrderState` | one record per client order id: status, filled quantity, exchange id, the executions already applied | add, update status, apply fill |
| `AccountTracker` | positions, average prices, realized profit per day, fees, marks, high-water equity, seen fill ids | apply fill, update mark, equity and loss figures |
| `ExecutionLatencyTracker` | the stages recorded for each trace | record, summary |
| `HummingbotEventBridge`, `ExecutionEventProcessor` | which trace belongs to which order | one handler per connector event: created, failed, cancelled, filled, completed |
| `RiskEngine`, `RiskCheckedExecutor` | none of its own (reads tracker, account, gate) | approve and submit |
| `ReplacementCoordinator` | one record per old order: waiting, submitted, failed, invalidated | request, on_cancelled, invalidate, remove |
| `ExchangeReconciler`, `SynchronizationGate` | gate state (initializing, syncing, ready, unhealthy) | begin, evaluate, reset |

Interactions: a strategy asks for an order or for a replacement; the executor
asks the risk engine, which reads the tracker and the gate; the exchange answers
through connector events, in which the bridge updates the tracker, the account,
the traces and, on a cancellation, submits the replacement - in the middle of the
handler, through the executor and the risk engine again. Everything runs in one
thread, so a handler is atomic; but every order of the events is possible, they
may be repeated, and they may never come.

Hard: events out of order and redelivered; an old order that fills while its
replacement waits for the cancellation; an exception half way through a handler;
a limit that is checked before, and must hold after.
Correct means: tracker and account agree, finished orders stay finished, an
order and its replacement are never both at work, the open-order limit is
respected, every request for a replacement is settled or its handler raised.

### Collector (`hlbot/data/buffered_writer.py`, `hlbot/data/hyperliquid_ws_collector.py`)

State: a bounded queue, the worker task with the batch it builds, the thread that
writes it, the closing flag; per connection a heartbeat task and the list of
active subscriptions. Operations: `write` (which may wait for room and for the
worker at once), the worker's loop with its flush timer, `close`, the reading
loop, the heartbeat, clean-up and reconnection, the watcher of the universe file.
Hard: cancellation at any `await`, a disk that fails between two lines, a worker
that dies while producers wait, exceptions inside clean-up code.
Correct means: files hold a gap-free prefix of what was accepted, the loss is
bounded, a session that ends has drained, producers never wait for ever.

### Backtest and strategy (`hlbot/backtest`, `hlbot/strategy`)

State: about fifteen locals of `ReplayBacktester.run`: the position, the resting
maker order, the delayed order, the round trip in progress, the results. One step
per snapshot. Hard: several kinds of pending orders decided on one book and
executed on a later one; partial maker fills, expiry, re-quoting; three sums of
profit that must agree. Correct means: the error paths of the accounting are
unreachable and the sums agree.

### Market scanner (`hlbot/data/universe_collector.py`, `scripts/run_market_scanner.py`)

State: one file of snapshots per day, which a collector process appends to; the
scanner's place in the file it follows; per market the last row and a window of
activities. Operations: append a snapshot, replay the last files at start, follow
the newest file by its size. Hard: two processes on one file, midnight at any
point of the scanner's loop, a clock that is set back, markets that come and go.
Correct means: no snapshot counts twice or out of order, and the rolling figures of
a market are those of its rows.

### Selection pipeline (`hlbot/selection`, `scripts/`)

State: four files (collection, trading candidates or validated trading universe,
selection state, readiness and execution profile), each stamped with the epoch it
was computed for. Operations: build, readiness check, execution profile, trading
gate, all separate processes; the running collector re-reads the collection.
Hard: a build killed between two of its files; scripts that read files of
different epochs; a lost connection during resubscription.
Correct means: no market is traded that the checks of its epoch did not pass,
a repeated build repeats its result, hysteresis survives crashes, the collector
streams the collection.

### Recorder, watchdog and strategy inputs (`hummingbot_ext`, `deployment/hummingbot`, `hlbot/strategy`)

State: what the recorder inside Hummingbot holds of the order book and the trades,
what its file objects buffer, the files of the day; the container; the watchdog's
stamp of the last restart, a file too; after loading, the states the position
context keeps, cut into segments at gaps. Operations: capture on every tick, dump,
new files at midnight; a timer that starts the watchdog, which looks at container
and files and may restart; load, build a market state, build a position context.
Hard: a flush that fails half way, kills of either process between two steps, a
docker that fails, files that are young and empty, gaps and late snapshots.
Correct means: what was recorded is loaded once and in order, the loss is bounded,
"healthy" means that rows arrive, restarts keep their distance, an outage ends,
and the context says of the past what was seen.

### Wallet history (`hlbot/data/wallet_loader.py`, `hlbot/wallet_analysis`)

State: files of downloaded batches. Operations: paginated download while the
wallet goes on trading, merging with deduplication, cutting fills into episodes.
Hard: pages that end inside a millisecond, overlapping batches, histories that
begin inside a trip, fills that turn a position or that the builder never sees.
Correct means: nothing is silently lost, the merged history is in order, the
episodes are the trips of the fills the builder is given.

`PROJECT.json` lists all components, those left out (scoring, parsing, statistics,
reports) with the reason, and 40 hazards at their lines.

## 2. Modules

```
OrderState -> OrderEvents -> LiveExecution --INSTANCE--> QuoteSlots
BufferedWriter -> CollectorSession
Rationals -> SimulatedExecution -> StrategyRules -> Replay
                               \-> MakerQueue
Rationals -> Account
Rationals, Sorting -> StableSelection -> MarketPipeline -> Subscriptions
Sorting -> WalletHistory
Watchdog
MarketState -> PositionContext \
Sorting     -> Recorder         -> Recording
MarketActivity -> UniverseScanner

ArithmeticProofs          sums over finite sets; sorting; folds; the rationals
 |                        are an ordered field; what SimulatedExecution computes
 |-> LiveExecutionProofs  about LiveExecution, OrderEvents and QuoteSlots
 |-> AccountProofs        about Account and WalletHistory
 |-> ReplayProofs         about Replay and StrategyRules
 |-> MakerQueueProofs     about MakerQueue
 |-> ScannerProofs        about UniverseScanner
 |-> PipelineProofs       about StableSelection, MarketPipeline and Subscriptions
 \-> CollectorProofs      about BufferedWriter, CollectorSession, Watchdog,
                          Recorder and Recording
```

| module | code | variables and how they correspond |
|---|---|---|
| `OrderState` | `order_state.py` | pure: the table of transitions, order records, when a status update is accepted |
| `OrderEvents` | `order_tracker.py`, `event_processor.py`, `hummingbot_event_bridge.py`, `latency.py`, the position of `account_tracker.py` | `orders` is the tracker, `position` and `fillIds` the account, `stages` the traces, `traceOf` the bridge's trace of each order. One action per bridge handler; `OnOrderFilled` is the handler with tracker, account and trace |
| `LiveExecution` | `risk_checked.py`, `replacement.py`, `risk/engine.py`, `hummingbot_client.py`, adapter and listener, the reconciliation files | adds `records` (the coordinator's), `gate`, and the external exchange `xorders`, `xfills`, `xposition`. `Submit`, `SubmitRefused`, `Request`, every handler of `OrderEvents` extended by what the bridge does to replacements (`SubmitReplacement`, `ReplacementRefused`, `ReplacementDropped`, `ReplacementRaises` for a cancellation), the gate's moves. `filledAtRequest` and `raised` of a record are history |
| `QuoteSlots` | what `replacement.py` promises | abstract: an order is placed, ends, is asked to be replaced, is swapped for another one in a single step, or ends and leaves its replacement outstanding (`Stall`) |
| `BufferedWriter` | `buffered_writer.py` | `queue`, `batch`, `worker`, `thread`, `disk`, `closed`, `call` (where the client's coroutine is), `put`; `offered`, `accepted` are history. One action per stretch between two awaits |
| `CollectorSession` | `collect_connection`, `run_collector`, the heartbeat, `collect_hyperliquid_ws` | `connection`, `heartbeat`, `session` (where the coroutine is), `raising` (the exception that propagates), `outcome`; `cancels`, `late` are history |
| `Rationals` | `Decimal` and `float` | exact fractions `<<numerator, denominator>>` in lowest terms |
| `Sorting` | `sorted`, `list.sort` | pure: the elements of a finite set in an order; a stable sort orders equal elements by their places |
| `SimulatedExecution` | `backtest/execution.py`, `maker.py`, `maker_lifecycle.py` | pure: walking the book, queue position, fills of a resting order |
| `StrategyRules` | `strategy/engine.py`, `rules.py`, `scale_in.py`, `order_intent.py` | pure: filters, sizes, caps, exits |
| `Replay` | `backtest/replay.py`, `accounting.py` | the locals of `run`; `Snapshot` is the whole loop body. `ledger` keeps what the lists of fills, closed positions and trades add up to |
| `MakerQueue` | `maker.py` against `maker_lifecycle.py` | an order that rests, advanced once per interval |
| `Account` | `account_tracker.py` | `positions`, `marks`, `fillIds`, `gross`, `fees`, `daily`, `peak`; `delivered` is the history of fills |
| `StableSelection` | `selection/stable_selector.py` | pure: aggregation over a window of ranked snapshots, the plan with retention and warm-up |
| `MarketPipeline` | `scripts/build_stable_market_universe.py`, `check_l2_readiness.py`, `build_execution_profile.py`, `build_trading_universe.py` | one variable per file, one per running script; one action per file read or written; `plans`, `since`, `lost`, `checkedReady` are history |
| `Subscriptions` | the universe watcher of the collector | `connection`, `active`, `subscribed`, and the synchronization under way (`syncing`, `removed`, `added`, `unsent`) |
| `WalletHistory` | `wallet_loader.py`, `download_wallet.py`, `episode_builder.py` | `ledger` (the exchange, external), `phase`, `request`, `fills` (the page loop), `batches` (saved files); `known`, `cuts` are history |
| `Watchdog` | `deployment/hummingbot/watchdog.py` and its systemd units | `container`, `newest` (the newest file of each market: none, empty or with rows, and its age), `stamp` (absent, torn or a time), `pc`, `now`, `running` of a run, `idle` of the timer; `rowAge`, `healthy`, `called` are history. Times are ages, cut off where no comparison can tell them apart |
| `Recorder` | `hummingbot_ext/download_order_book_and_trades.py`, `market_data_loader.py` | `held` (temporary storages), `buffered` (in a file object), `files`, `torn`, `uid`, `lastUid`, `lastDump`; `captured`, `kills`, `failures` are history. Loading is an operator |
| `MarketState` | `strategy/market_state.py` | pure: which snapshots and trades a state is built from, or that there is none |
| `PositionContext` | `strategy/position_context.py` | `states`, `segment`, `entry`, `first`, `mfe`, `mae`; `context` is what `build` returned |
| `Recording` | the three together | `books`, `trades` as loaded, `next`, `position`; `seen` is history |
| `MarketActivity` | `selection/engine.py`, `features/market_activity.py`, `market_activity_window.py` | pure: one `update` of the engine as a function of its state |
| `UniverseScanner` | `universe_collector.py`, `scripts/run_market_scanner.py` | `files`, `clock` of the collector; `pc`, `todo`, `current`, `offset`, `engine` of the scanner; `fed`, `skipped` are history |

`MC*` modules give constants their values. Definitions named after a mistake
(`ApprovedOffByOne`, `FinishKeepsExits`, ...) stand before the definition they
would break; replacing that definition by them makes a named property fail, which
shows that the property depends on the code. They are used nowhere else.

### Abstractions

* *Orders, executions, exchange ids, traces, coins* are model values. Executions
  carry their order, side and quantity.
* *OrderEvents, LiveExecution*: timestamps, fees and prices of orders are left
  out; prices are in `Account`. Float tolerances become exact comparison. The
  executor looks up one figure for the risk engine, the number of open orders.
  Everything else the engine compares stands in a context that the caller built,
  at mark prices and of any age: all other limits are one free choice to block.
  The notional of an instruction is left out, and the amount it is quantized to is
  any of `Amounts`. An exception of the context provider, the latency tracker or
  the client may leave any replacing cancellation. The reconciler's comparison of
  average entry prices is left out; its grace period is a free choice.
* *Collector*: asyncio of Python 3.12 or later (`wait_for` no longer swallows
  cancellation). The status task and the universe watcher do not fail.
* *Replay*: snapshot times grow strictly; two snapshots with one `exchange_ts`
  are not modelled. Signals, market state availability and policy exits are free.
  Trades are chosen only while an order rests, since nothing else reads them.
* *Account*: a coin never marked is valued at its average price, as in the code.
* *Pipeline*: a coin stands for a pair of dex and coin; time is counted in epochs;
  which markets are ready or cheap enough is free; one file write is atomic (they
  are written aside and renamed); one build runs at a time.
* *Watchdog*: the unit of time is the timer's period. The recorder may hang, exit,
  pass midnight or write at any moment; `docker inspect` may fail or see a
  container that is up as down; `docker restart` may do all, half or nothing.
* *Recorder*: one trading pair, the files of all days as one sequence (their daily
  change is part of `Watchdog`). A row is its key and the time it was captured;
  the key stands for `exchange_ts`.
* *Market state and context*: of a snapshot its time and mid price are kept.
  Positions are what a strategy could hold: none, the same, scaled in, a new one.
* *Scanner*: of a row its time and the traded volume of the day; time in minutes,
  a day of four. Ranking the result is left out.
* *Wallet*: one coin; days inside file names are abstracted; files are read in any
  order of names and written in one step. Which fills carry one of the four labels
  of `PERP_DIRECTIONS` is a free choice; all have a `start_position`.

## 3. What the runs check

Eleven runs pass and one finds a violation; every property of a passing run has a
mutant of the code that breaks it under the same configuration.

**`live_replace`** (1 slot, 2 orders, instructions to buy and to close, amounts of
2, 2 unit fills, fair; 265 thousand states). Two orders and two executions are the
fewest in which an execution is redelivered after another one, or reaches the wrong
order. Events come in any order, again, or never; the old order can fill in part, in
whole, be refused or be cancelled while the replacement waits; the handler of its
cancellation may place the replacement, drop it, have it refused, or raise. There are
no traces here: all a trace can do to an order is to make a handler raise.
* `StatusMatchesFills`: an order whose status says unfilled has no fills, one whose
  status says filled, in part or in whole, has some.
* `AccountMovesWithOrders`: a step moves the account by what it moves the tracker.
* `PositionIsSumOfFills`: the account is the sum of what the tracked orders filled.
* `TerminalIsFinal`: finished orders keep status and fills, known ids stay.
* `WaitingIsReplaceable`: a record waits for an active order that filled nothing since
  the request, or for one that was cancelled under it while an exception left the
  handler. Nothing else - an execution, a failure, a lost or repeated event - leaves a
  record waiting.
* `ReplacementFollowsCancel`: a submitted replacement has a cancelled, unfilled old
  order of its own.
* `ReplacesAtomically`: the machinery implements `QuoteSlots`.
* `ReplacementResolves`: when an order is over at the exchange, however it ended, the
  record that waits for it is settled, or an exception left the cancellation's
  handler. A cancel request may get lost: then the order is not over and the record
  goes on waiting, rightly.

**`live_slots`** (2 slots, 3 orders selling 1, one execution, one trace that callers may
use again and again; 1.3 million states up to symmetry). Three orders for two slots
make the limit bite on both submission paths; the shared trace makes a submission, or
a replacement in the middle of a cancellation, raise half way.
* `OpenOrderCap`: never more than `max_open_orders` active orders.
* `StagesInOrder`: the stages of a trace begin with risk check and submission and
  none comes twice; acknowledgement and first fill come in either order.

**`collector_session`** (queue 2, batches of 2, 5 records, disk may fail, 2
cancellations, fair). Five records fill queue and batch and leave one waiting.
* `RecordsKeepOrder`, `AtRiskBounded`: nothing accepted is lost, doubled or
  overtaken while the worker lives, the files hold a prefix of what was accepted
  whatever ended it, and at most queue plus batch is unwritten.
* `SessionDrains`, `CancelStops`: what a session owes at its end, with the
  exceptions the code really has (disk failure, heartbeat failure, a cancellation
  during clean-up) as explicit antecedents.
* `WriteAnswers`, `SessionEnds`: no producer and no session waits for ever.

**`collector_heartbeat`** finds a violation: see section 8.

**`replay`** (2 books, snapshots 1 or 2 seconds apart up to 6, at most 1 trade
between two, 2 strategy specifications, 6 execution policies: taker, delayed
taker, maker with re-quoting, maker entries with taker exits, delayed maker,
one-second quotes). Six seconds hold an entry, a scale-in, an exit and a second
entry.
* `NeverRaises`: no error of the loop, of the accounting, or of the constructors of
  positions, quotes and intents is reachable.
* `PendingFitsPosition`: a pending order fits the position it was decided for.
* `LedgerBalances`: realized plus unrealized profit is the cash that moved.
* `TripIsConsistent`: the round trip that is reported is that of the position: same
  sizes, same profit by trade as by exit, scale-ins counted once, and entries and
  exits dated in order.
* `StrategySoonFree`: a pending order ends within a stated time.

**`maker_queue`** (2 books, orders of 3, queue fraction 0 or 1/2, at most 2 trades
per interval, 3 seconds).
* `IncrementalIsOneShot`: the replay's incremental fill equals the one-shot life
  cycle, whose loop the code writes a second time (`maker.py:105`) and so does the
  model; cancelled orders fill no more and are replaced for exactly the rest.
* `FillsAreClosedForms`: maker and taker fills are what an arithmetic without
  loops says they are.

**`account`** (3 fills of 1 or 3, 2 coins, 2 prices, 2 days). Three fills open,
grow and turn a position, or leave two positions at once.
* `AverageIsFairPrice`, `MoneyIsAccountedFor`, `PeakIsHighWater`: equity, average
  prices, daily profits and peak, all that the risk limits read, agree with the
  money that moved.

**`market_pipeline`** (3 epochs with 2 possible windows each, 3 coins of which 2 are
supported, entry rank 1, retention rank 2, at most 3 starts of each script).
Three epochs let a market enter, be retained and leave; the second window ranks
the coins so that medians decide.
* `CollectedSinceStated`, `PlansAreStable`: builds may be killed and repeated
  without changing the plan of the epoch, and from one epoch to the next a market
  leaves only when it fell beyond the retention rank.
* `TradedWasValidated`: with files changing under the scripts, only markets that
  the readiness check of that epoch passed are traded.
* `StreamsTheCollection`: the subscribed coins are those of a collection read.

  `lost` marks a history in which a build was killed after the collection and not
  repeated in its epoch. The plan of the next epoch then starts from a state file
  that never saw that collection; two properties exclude these histories.

**`wallet_history`** (5 fills of 1 or -2 within 3 ms, pages of 2, 4 fills reachable, 2
batches; 39 thousand states). Ties, page ends inside a millisecond and the cap all
occur. A download reads only ids and times of fills, so the configuration's `VIEW`
(`Downloaded`) tells histories that differ in sizes and profits apart until the first
download begins, and not after: all of them are looked at by `EpisodesAreTrips`, and
every download is looked at once.
* `MergedHistory`: a batch not marked incomplete misses at most fills of a
  millisecond in which a page ended, and the merge of all batches is in the
  exchange's order, without repetition.
* `EpisodesAreTrips`: every episode is a trip of the kept fills, with all of them and
  the profit of its own closing fills; when each kept fill begins where the one before
  ended, no complete trip is missing. The profits of the fills are powers of two, so
  that a sum tells its fills. Five fills hold a start inside a trip with a trip after it, two
  trips joined by a flip, and a position that moved by itself; every subset of the fills
  is tried as what the direction filter keeps.

**`watchdog`** (2 markets, allowed age 1, cooldown 3, a run may last 1, one fault,
fair; 101 thousand states). With a cooldown of three periods a run is suppressed,
the next allowed; two markets, so that one can write while the other does not.
* `HealthyMeansRecorded`: the watchdog says healthy only when rows of every market
  were written within the allowed age before the run, however young the files are.
* `RestartsSpaced`: two calls of `docker restart` are a cooldown apart, less the
  length of a run.
* `OutageEnds`: an outage ends with a container that is up, unless the watchdog
  only reports, or a run is over and left a torn stamp. That every run truncates the
  stamp before it writes it does not count. Its mutant calls `docker start` instead,
  which does nothing for a container that hangs.

**`recording`** (7 ticks, snapshots on time or 2 late, one trade, one dump failure
or kill, gaps beyond 1, lags of 1 and 2, two positions; 211 thousand states).
Seven ticks hold a gap, a trimmed list and a second position.
* `LoadedIsCaptured`: what was recorded is loaded once and in order, and only a kill
  loses something, bounded by the time between dumps if none failed.
* `ContextMatchesHistory`: compared states, best and worst return are those of
  everything seen, across gaps, trimming and positions that follow one another.

**`market_scanner`** (5 snapshots, 2 interchangeable markets, days of 4 minutes,
clock steps of 1, 2 and -1; 950 thousand states). Five snapshots reach past the
baseline of four minutes and over a change of files.
* `FeedsOnceInOrder`: no snapshot is fed twice or after a later one, and which ones
  are never fed.
* `ActivityMatchesHistory`: the rolling figures are those of the rows that were fed,
  and no update raises.

Deadlock checking is off where the system may rightly stop: all orders used, the
session over, the recording evaluated, the bound on epochs or fills reached.

## 4. Fairness

* `FairLiveSpec` (`live_replace`): for each order, weak fairness of the connector's
  delivery of each kind of event. The bridge runs every handler to its end, or to an
  exception, as soon as it is called, so no fairness of the program beyond delivery is
  needed. Nothing is assumed of the exchange, a cancel request included, which is sent
  once; and nothing forces the strategy, the gate, or an order to fill.
* `FairSessionSpec` (`collector_session`): weak fairness of the event loop's tasks -
  the worker, the writing thread, the flush timer and the session's own
  continuation each run when they can. No fairness of arriving messages, of
  connections closing, of failures, of cancellations or of the process ending.

* `Watchdog`'s `Spec` (`watchdog`): weak fairness of the watchdog's own steps (systemd
  starts the unit when its timer elapses, a started run goes on), weak fairness of
  time, and strong fairness of `RestartWorks`: docker restarts a container if it is
  asked again and again. Kills and full disks are bounded; the recorder may fail
  as often as it likes.

The other runs check safety only.

## 5. What is proved

For every value of the constants that satisfies these assumptions, each stated in
the module that declares the constants:

* `OrderEventsAssumption`, `LiveAssumption`: a finite set of orders, positive
  quantities, natural limits, "none" values outside the sets they stand beside;
* `AccountAssumption`: finitely many coins and days, positive prices, quantities
  and starting equity, fees that are not negative;
* `WriterAssumption`, `SessionAssumption`: a queue and batches of at least one, any
  numbers of records and cancellations, a stop mark that is no record;
* `ReplayAssumption`: strategies, policies and books that their constructors accept
  (`ValidSpec`, `ValidPolicy`, `ValidBook`), positive prices and quantities of
  trades, snapshots that are at least a second apart;
* `MakerQueueAssumption`: books that the constructor of a book accepts, their levels
  in order, positive prices and quantities, queues that are not negative;
* `WalletAssumption`: pages and a limit of at least one fill, quantities that are not
  zero, any dates, times and profits;
* `SelectionAssumption`, `PipelineAssumption`: positive ranks, the retention rank no
  smaller than the entry rank, any coins, epochs and starts, any windows of
  snapshots with whole scores (in a unit as small as needed);
* `ActivityAssumption`, `ScannerAssumption`: a positive gap, windows inside the
  history (which the constructor of the window demands), a day and a replay of at
  least one file, clock steps and volumes of any integers, times after 1970;
* `WatchdogAssumption`: some market, a positive age limit, natural times;
* `RecorderAssumption`, `ContextAssumption`, `RecordingAssumption`: natural bounds and
  periods, snapshots that are never from the future, lags that fit into what is kept
  (the code keeps 310 seconds for a lag of at most 300 and gaps of at most 10), a mid
  price of every snapshot (the book of the recorder has two sides).

| theorem | statement |
|---|---|
| `OrderTypes` | `OrderSpec => []TypeOK` |
| `FillsMatchStatus`, `LiveFillsMatchStatus` | `OrderSpec => []StatusMatchesFills`, and of `LiveSpec` |
| `TerminalStays`, `LiveTerminalStays` | `OrderSpec => TerminalIsFinal`, and of `LiveSpec` |
| `AccountFollowsOrders`, `LiveAccountFollows` | `OrderSpec => AccountMovesWithOrders`, and of `LiveSpec` |
| `LiveTypes` | `LiveSpec => []LiveTypeOK` |
| `OpenOrderCapHolds` | `LiveSpec => []OpenOrderCap` |
| `StagesKeepOrder` | `LiveSpec => []StagesInOrder` |
| `PositionAddsUp` | `LiveSpec => []PositionIsSumOfFills` |
| `ReplacementFollows` | `LiveSpec => []ReplacementFollowsCancel` |
| `WaitingStaysReplaceable` | `LiveSpec => []WaitingIsReplaceable` |
| `LiveImplementsSlots` | `LiveSpec => ReplacesAtomically` |
| `MoneyAddsUp` | Account's `Spec => []MoneyIsAccountedFor` |
| `AveragesAreFair` | `Spec => []AverageIsFairPrice` |
| `PeakIsHighest` | `Spec => PeakIsHighWater` |
| `WalletInvariant` | `WalletSpec => []WalletInv` |
| `HistoryIsMerged` | `WalletSpec => []MergedHistory` |
| `EpisodesStayTrips` | `WalletSpec => []EpisodesAreTrips` |
| `ReplayInvariant` | Replay's `Spec => []ReplayInv` |
| `RunNeverRaises` | `Spec => []NeverRaises` |
| `PendingAlwaysFits` | `Spec => []PendingFitsPosition` |
| `ProfitsAddUp` | `Spec => []LedgerBalances` |
| `TripsAreReported` | `Spec => []TripIsConsistent` |
| `StrategyIsSoonFree` | `Spec => []StrategySoonFree` |
| `QueueIsInvariant` | MakerQueue's `QueueSpec => []QueueInv` |
| `MakerInOneStep` | `QueueSpec => []IncrementalIsOneShot` |
| `FillsClosed` | `QueueSpec => []FillsAreClosedForms` |
| `WriterKeepsOrder` | `SessionSpec => []RecordsKeepOrder` |
| `AtRiskStaysBounded` | `SessionSpec => []AtRiskBounded` |
| `SessionEndsDrained` | `SessionSpec => []SessionDrains` |
| `CancelledIsOver` | `SessionSpec => []CancelStops` |
| `FedOnceInOrder` | UniverseScanner's `Spec => []FeedsOnceInOrder` |
| `ActivityIsHistory` | UniverseScanner's `Spec => []ActivityMatchesHistory` |
| `WatchdogTypes` | Watchdog's `Spec => []WatchdogTypeOK` |
| `CooldownHolds` | `Spec => RestartsSpaced` |
| `HealthyIsRecorded` | `Spec => []HealthyMeansRecorded` |
| `RecordingIsInvariant` | `RecordingSpec => []RecordingInv` |
| `LoadedIsAll` | `RecordingSpec => []LoadedIsCaptured` |
| `ContextIsHistory` | `RecordingSpec => []ContextMatchesHistory` |
| `CollectedSinceHolds` | Subscriptions' `Spec => []CollectedSinceStated` |
| `TradedAreValidated` | `Spec => []TradedWasValidated` |
| `OnePlanHolds` | `Spec => OnePlanPerEpoch` |
| `RankedOnce` | of each window, `AggregateMarketSelection` has every candidate once, in the order `Ahead` |
| `PlansStayStable` | `Spec => PlansAreStable` |
| `StreamsHold` | `Spec => []StreamsTheCollection` |

The `Spec` of `Subscriptions` is the pipeline with its collector.

*Numbers.* `ArithmeticProofs` proves once what the others use. A sum over a finite
set is a fold, and its value is a function chosen to satisfy a recursion; that there
is one, and that adding or changing an element adds or changes its term, follows by
induction over a set of good subsets. Fractions in lowest terms are compared and
added by their numerators over a common denominator; that reducing a fraction
divides it by its greatest common divisor is the only fact about Euclid's algorithm
that is needed, and it too is proved by such an induction. Sorting is proved by
counting (`OrderSorts`): in a finite set that is strictly ordered each element has its
own number of elements before it, so every place is taken once, and in order.

*Tracker.* `StepMovesOrders` describes the only ways in which any handler changes an
order: a status update the table allows, or one fill of an active order. From it,
and types, `StatusMatchesFills` is inductive. `TerminalIsFinal` also needs
`UntrackedIsBlank`: an order that is not tracked carries no fills and no id, or
tracking it would forget them. The three theorems are proved twice, because the
core does more to an order than the bridge: `OrderSteps` says which handler of
`OrderEvents` a step of `LiveExecution` contains, if any, and that all else it does
to the tracker is to add blank orders or accept a status update.

*Traces.* `StagesInOrder` is not inductive: a handler records on the trace of its
order without asking what is there. `StageInv` adds that an order is only ever
bound to a trace that was submitted.

*Open-order cap.* A step adds at most one active order, and only after the risk
engine counted fewer than the limit. On the replacement path it counts in the
middle of the cancellation, so the lemma is about the set that remains when the
old order has left. `OneMore` turns that into cardinalities of finite sets.

*Position.* `PositionIsSumOfFills` is not inductive. `FillsInv` says what it rests on: a
tracked order is one the exchange was given, and an execution has the coin and side of
its order. With it a booking moves position and sum of fills by the same amount
(`PositionStep`), and no other step moves either.

*Replacements.* `ReplacementFollowsCancel` is not inductive. A record becomes
"submitted" in the cancellation handler, and that its old order had not filled is
known only because a waiting order never has (`WaitingIsReplaceable`: a fill resolves
the record in the same handler). That no two records share a replacement needs
`SubmittedNames`: a submitted record names a tracked order, and a new name is
untracked. `ReplacementInv` is their conjunction, kept by every step
(`StepTouchesOneRecord`: a step changes the record of one order at most, and
`StepExplained` says how). No assumption about traces is needed.

*Refinement.* `on_cancelled` can be left by an exception between the cancellation and
the resolution, and then a record waits for an order that is over. The abstraction
says so: `Stall` ends an order that was asked to be replaced and keeps the request.
With it every live step is a step of `QuoteSlots` or a stutter, one lemma per kind of
step (`SubmitPlaces`, `RequestAsks`, `EventEndsOrLeaves`, `CancellationEndsOrSwaps`),
and no assumption about traces or contexts is needed. That nothing but such an
exception leaves a record behind is `WaitingIsReplaceable`, a conjunct of
`ReplacementInv`: a waiting record whose handler did not raise has an active order,
because each handler that ends an order resolves its record too; one whose handler
raised has an order that is cancelled for tracker and exchange, of which nothing can
be booked any more.

*Account.* `AccountInv`: the gross profit is the money that the delivered executions
paid and received plus what the open positions cost at their average prices; fees
and daily profits are sums over what was delivered. `FillMoney` is the heart: the
profit that `apply_fill` realizes is what the fill paid plus the change of the
position's cost, whether the position is opened, grown, reduced, closed or turned.
For the averages, `AverageBetween`: a grown position's average lies between the old
one and the price of the fill (`WeightedMean`). The peak is an action property of
the end of every handler.

*Wallet.* What one needs of a list of fills to merge it in the exchange's order is that
it is `Closed`: a fill of the ledger stands behind all earlier ones of its millisecond.
Pages are, because they begin at a time and not at a fill; so is what is joined of
them, cut off at the limit, or read back from batches in any order. Of the fills of a
closed list whose id did not occur before, the one sorted first is the one the ledger
has first (`FirstsOrder`), and the sort keeps that order. That nothing but ties is lost needs `ReadBefore`, what the pages have before the next
one begins, and `NextPage`: it begins with the download or right after a page's last
time, at which the wallet had traded, so that a later trade of the wallet cannot fall
before it, except into the tie.
For the episodes, `Follows` says what the builder knows after some of the kept fills:
its episodes are trips so far - all of them, if the fills are connected - and its open
one is the trip that is `Running`, of which there is at most one (`OneRuns`), with the
profit since its first fill. A
fill begins, continues, ends or turns a trip, and from a start inside a trip the
builder waits for the first flat moment or flip (`TakeFillFollows`). No sum over
a trip is recomputed: `GainsAre` takes the last term out of it.

*Replay.* `ReplayInv` is what holds between two snapshots: `Accounts` (position, trip
and ledger are amounts that agree with each other), `MakerFits` and `ExecutionFits`
(an order that rests or travels fits the position, in side and size), `Timing`
(when it was decided, placed and last replaced, and with that how long it can
still block the strategy). A snapshot finds an order resting, one on its way, or
neither, and there is a lemma for each: `RestingHolds`, `TravellingHolds`,
`FreeHolds`. Below them are the loops: what walking a book takes is bounded by what
was asked; what a maker order fills is its quantity less what remains; a fill is dated
after the order was placed. The folds that model the loops are unfolded by
`FoldExists` and followed by `FoldReaches`. The five properties are consequences.
`StrategySoonFree` needs `Timing` in a sharp form: when the order was decided and
how many re-quotes are left.

*Maker queue.* Both theorems compare a loop with something that is not that loop.
`QueueInv` says that the pending order is what all trades so far, passed in one
call, make of the fresh one; it is kept because folding over two intervals is folding
over their concatenation (`AdvanceJoins`), an interval's trades being in order of time.
That the two loops of the code, `SimulateMakerFill` and `AdvancePendingMaker`, agree is
proved trade by trade (`OneLoop`).
The closed forms then follow the folds: trade by trade, what is filled is the traded
volume behind the queue, at most the order (`ClosedStep`); level by level, what was
spent and what was taken agree with the sums over the levels passed (`SpendsMore`,
`WalksAlong`), and a size or a budget exceeds the next level or ends the walk there
(`ExcessGrows`). Minima and maxima are compared as integers, over a common denominator.

*Writer.* `WriterInv` follows a record through queue, batch, thread and file. While
the worker lives, what is accepted is what is on the disk, then what the worker
holds, then the records of the queue; what the thread still writes comes next in the
files, also when nobody waits for it any more; a batch never exceeds its size; the
stop mark is queued once, last, by a closed writer. The invariant is kept at every
await, a cancellation or a failing line included; both writer theorems are
consequences. A session's step is a writer's step or leaves the writer alone
(`SessionIsWriter`), so `WriterInv` is an invariant of sessions too.

*Session.* `SessionDrains` needs to know why a worker ended: `StopInv` says that one
that returned took the stop mark, from a closed writer and behind the last
record, so that the disk holds everything; `SessionInv` relates the place of the
session to the writer's, to the exception that propagates and to the cancellations
so far.

*Scanner.* `ScanInv`: the marked snapshots, those fed or skipped, are in every file the
first ones; they lie before the files still to be replayed, and not after the file
that is followed, where they end at the offset. The collector only lengthens files,
wherever its clock jumps.
For the figures, `Fits` relates a market's last row and its window to the set of rows
that were fed and were newer than all before: either the window holds exactly the
moves since the last gap and inside the history (`Tells`), or a gap is the last thing
that happened and the window is from before it (`Fresh`), to be forgotten with the
next move. A row that is not newer changes neither side; a newer one adds one move to
the rows (`NewMove`) and one place to the window, or a gap (`RowFits`). `FeedFits`
carries this along the fold over a file, `EngineRests` past the collector's appends,
which leave the rows that were fed where they were. The sums of a window are then
those over the moves, for its places and the moves are in one-to-one correspondence by their
times (`SumsAgree`, `TotalPaired`).

*Watchdog.* The stamp is written before the call, and carries the time at which the
run began. `SpacingInv`: a stamp is never younger than the call it stands for by
more than a run, a run past the cooldown check has an old enough last call, and
there is no call without a stamp. `RowsInv`: a file with rows is no younger than its
last row, whatever is opened or replaced in between.

*Recorder.* `RecorderInv` accounts for every row that was captured (`Stored`): it is
held, or in the files, or a kill after it was captured took it
away, within the time of one dump if no dump failed. A failed dump leaves rows in
three places at once; the one that keeps all is the storage, so that a kill takes no
more than what it holds. The loader sorts rows of different keys, of which no two
are equal (`RankSorts`).

*Position context.* `KeptOk` says that the states and segments the builder keeps answer
like all states ever seen: they are the last ones, begin no later than the longest
lag needs, and two of them are in one segment exactly if no gap lies between them.
So bisecting the kept list finds what bisecting the whole history finds (`LagIsAgo`).
`Followed` says since when the present position is held and that the extremes are
those of the returns since then; it is kept when the position goes on, is scaled in,
ends, or is followed by another one without an evaluation in between (`GoesOn`,
`Enters`).

*Pipeline.* All rests on `PlanRepeats`: a build that starts from the state which its
own plan left makes that plan again, because a member keeps the time it was
collected since and a member of the entry ranks stays one. So a build that was
killed between two files and repeated changes nothing (`PlanningInv`: the collection
is the newest plan, the state that of it or of an older one, and a running build
holds the plan its epoch has or will have). `SinceInv` relates the state a build
starts from to the collection, unless something was `lost`; `ScriptsInv` says that
what a validating script holds in memory or left in its file is of one epoch;
`StreamInv` that in the middle of a refresh the subscriptions are the old universe
with the sent messages applied. For the hysteresis a market must have one rank only:
`RankedOnce` shows that medians and aggregate scores are fractions, that scores,
ranks and names therefore order the rows strictly (`RowsOrder`), and that sorting by
such an order gives each row a place of its own.

## 6. What only TLC checks

* *Liveness* under fairness, which is outside the prover: `ReplacementResolves`,
  `WriteAnswers`, `SessionEnds`, `OutageEnds`.

## 7. What is not modelled

* Scoring of markets, the trading gate, features beyond spread, depth, mid price
  and activity, statistics, reports: floating-point functions of finished data,
  without state. The pipeline takes their results as input.
* Position policies and signals: free choices of the replay. The position context
  that a policy reads is modelled, the policies' formulas over it are not.
* Parsing and format checks of recordings, and the coverage check of the WebSocket
  files. Their verdict is an input of the pipeline.
* Hummingbot and the exchange: external; what the adapter relies on is modelled
  (orders end, events are delivered). Leverage set-up, quantization and balances
  are left out; an amount after quantization is a free choice.
* A bound on the position. `max_position_notional` is compared with what the caller
  put into the risk context, at its prices and its age, plus the new order's notional,
  and orders at work are not counted (`risk/engine.py:46`): what bounds the position
  in the end depends on all three.
* A kill between the two files of a wallet batch, or in the middle of one: `load_saved`
  raises on a line that was cut off (`wallet_loader.py:50`).
* Fills without a `start_position`: `_build_coin` raises, and `build` returns nothing
  for any coin (`episode_builder.py:32`).
* The health check of the WebSocket collector's container: it looks at file ages
  when docker asks and keeps nothing.

## 8. Disagreements and observations

One run refutes what the repository says of itself.

* `collector_heartbeat`: `hyperliquid_ws_collector.py:203` says "Drain accepted
  events before reconnecting." When the heartbeat has already ended with
  `ConnectionClosed`, awaiting it raises inside the `finally` block, which catches
  only `CancelledError`; `writer.close()` is skipped and the collector reconnects.

Met while modelling, and contradicting no document; each limits what a property
above can promise:

* `event_processor.py:35`: an acknowledgement that arrives when the order is already
  partially filled is accepted (line 26) and recorded behind the first fill. The latency
  between the two is then negative, and `ExecutionLatencyTracker.summary` of these stages
  raises over all traces (`latency.py:122`). `StagesInOrder` says that no other two stages
  can change places.
* `replacement.py:64`: `on_cancelled` is left by an exception when the risk context
  cannot be built (`risk/models.py:76`: equity not positive, a value not finite), the
  trace is unknown or was used before (`latency.py:54`), or the client raises what it
  does not catch (`hummingbot_client.py:10` is outside the `try`, line 20 names three
  types). The record then waits for an order that is over, blocks further requests for
  it, and a cancellation delivered again places the replacement, however late.
* `buffered_writer.py:155`, `hyperliquid_ws_collector.py:201`: a cancellation during
  the clean-up loses what is queued, or is swallowed with the heartbeat's own.
* `hyperliquid_ws_collector.py:180`: messages of coins just added are dropped until
  the synchronization ends.
* `risk/engine.py:46`: the position limit adds the new order to the position in the
  caller's context and ignores orders at work, and reduce-only orders skip it. The
  account itself can lag behind the exchange: an execution that arrives after its
  order was closed is refused and counted nowhere.
* `risk/engine.py`: loss and drawdown limits block reduce-only orders too.
* `build_stable_market_universe.py:121`: see `lost` in section 3.
* `replay.py`: trips closed by delayed or maker exits lose their exit reason.
* `episode_builder.py`: the episode after a flip takes its maximum size from the
  position before the flip; a lost tie can merge two trips into one, and so can a fill
  between them whose direction is not one of the four of line 7.
* `build_trading_universe.py:96`: a slow gate script overwrites the trading candidates of
  a newer epoch with the universe of an older one. Each file names its epoch, so
  `TradedWasValidated` holds; which script writes last, nothing in the code settles.
* `analyze_wallet.py:39`, `compare_wallets.py:10`: both open a file name that
  `download_wallet.py` no longer writes, though the repository's README (lines
  282-285) runs one after the other.
* `deployment/hummingbot/watchdog.py:88`: the cooldown starts before the restart
  succeeds; a kill or a full disk between truncating and writing the stamp leaves
  it empty, and every later run ends with status 2 (line 83).
* `watchdog.py:47`: after midnight the newest file is empty until the first dump, so
  a run in between restarts a healthy recorder.
* `market_data_loader.py:39`: one row that a kill cut off makes the loader raise for
  the whole directory. `hyperliquid_ws_loader.py:20` raises on a torn line too,
  which `l2_coverage.py` skips.
* `run_market_scanner.py:99`: snapshots appended between the replay and the look at
  the file's size are never fed, nor is the tail of a day's file once a newer one
  was seen.
* `market_activity_window.py`: with uneven intervals the seconds of the baseline can
  fall short again, so a market may be warm, then not, then warm.

## 9. Plan

Done, in order of importance: live execution with its abstraction; collector; replay
with maker queue and strategy rules; account; selection pipeline with
subscriptions; wallet history; watchdog; recorder, loader, market state and position
context as one run; market scanner. Proved: every safety property that a run checks. No model declares a `RECURSIVE`
operator; folds and recursive functions are unfolded by an induction over a set of
numbers or over the subsets of a finite set.

Next: the clock of the reconciliation gate (a READY gate that nothing refreshes); the
gap rules of the L2 coverage check; the scoring of `market_selector.py` with exact
fractions.

## 10. Running the checks

```
tlasany LiveExecution.tla
tlc -workers 2 -config LiveReplace.cfg MCLiveExecution
tlapm ReplayProofs.tla
```

The module and configuration of each run are listed in `PROJECT.json`. No run
takes more than about two minutes on two cores; the largest (`market_pipeline`,
`market_scanner`) have about a million distinct states. The proofs take some
minutes each when nothing is remembered; `CollectorProofs`, `ReplayProofs` and
`LiveExecutionProofs` are the longest.
