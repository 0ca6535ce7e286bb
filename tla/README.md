# Specifications of the trend scalping engine

TLA+ models of `trend_only_scalper`, a trading bot that holds at most one
position, moves its stop-loss to breakeven, takes profit in cash, and stops
entering once a daily limit is hit. The same decision loop runs against a CSV
replay, a mock, MetaTrader 5 and Binance. Source paths below are
relative to the repository; modules and configurations are files of this directory.

- [Inventory](#inventory)
- [Modules and the code they model](#modules-and-the-code-they-model)
- [Runs](#runs)
- [Bounds](#bounds)
- [Fairness](#fairness)
- [Proofs](#proofs)
- [Where code and documentation disagree](#where-code-and-documentation-disagree)
- [What is not modelled](#what-is-not-modelled)
- [Plan](#plan)

## Inventory

| Component | State | Operations |
|---|---|---|
| Bot loop iteration, `main.py` | `LoopState`: daily statistics, cooldown, `open_trade_context`, `last_known_position` | `run_iteration()`: reset on a new date, read P&L, look for the position, record a vanished one / manage an open one / guard, cooldown, cost gate, signals, entry |
| Risk and position rules, `risk/`, `strategy/position_manager.py` | none (pure) | daily guard, cooldown counter, breakeven and take-profit decision |
| Backtest broker and driver, `backtest/simulated_broker.py`, `backtest/replay.py` | open position, closed trades, current row | fills at the next open, closes at the current close, autonomous stop; `run_replay()`'s row loop |
| Backtest data, `backtest/data_loader.py` | a data frame | load, filter, resample, `get_bars()` up to the current row |
| Continuous loop, `cli.py`, `models.py` | error counter, shutdown flag, the saved counters | iterate, count errors, save, load at start, stop on a signal or after five errors |
| Binance adapter, `brokers/binance_broker.py` | stop price and stop order id per symbol; simulated positions | open (market order, then stop), close (cancel, market order), modify (new stop, then cancel), P&L queries |
| MT5 adapter, `brokers/mt5_broker.py` | simulated positions; otherwise the terminal's | open with stop attached, close, modify, filling-mode fallback |
| Mock broker, dry run, `brokers/mock_broker.py`, `scripts/run_dry_run.py` | a simulated position, the closed trades of the session | the same calls, in memory |
| Signals, `strategy/`, `indicators.py`, `risk/risk_manager.py` | none (pure over frames) | M15 trend, M5 confirmation, M1 trigger, stop-loss |
| Configuration, `config.py` | none; a process keeps what it loaded | merge YAML, `.env` and the environment; validate |
| Command line and scripts, `cli.py`, `scripts/` | the process | report, confirm, connect, run, release |
| Journal and metrics, `journal.py`, `metrics.py` | an append-only CSV file | append a row, fold rows into metrics |

How they interact. `run_iteration()` owns no broker state. It calls the broker
synchronously (`get_bars`, `get_today_realized_pnl`, `get_open_position`,
`get_unrealized_pnl`, then one of `close_position`, `modify_stop_loss`,
`open_market_order`), mutates `LoopState` between the calls and appends to the
journal. In the replay the broker acts once per row before the iteration. Live,
the exchange acts whenever it likes, any call may raise, and
`_run_continuous_loop()` catches what is raised, keeps the half-updated
`LoopState`, saves the daily statistics and goes on.

What is hard about it:

- A close the bot did not order is *inferred*: the position it tracked is gone,
  and its P&L is the difference of two daily totals read at different times.
- Counters are kept per calendar date, positions are not; the guard counts
  closes, the limit it implements is about entries.
- An iteration is a sequence of calls over state the exchange also changes. An
  exception between two of them leaves what the first already did.
- Part of `LoopState` survives a restart through a file, part does not.
- On Binance a position and its stop are two orders; every operation passes
  through states in which only one of them is right.

What makes each component correct:

| Component | Correctness |
|---|---|
| Loop iteration | every close recorded exactly once, with its own P&L and reason; no entry past a limit or inside a cooldown; never a second position |
| Rules | a stop only ever improves; breakeven locks a profit |
| Replay | the broker's book and the bot's ledger agree after each row |
| Continuous loop | no tracked position is dropped before it is recorded; an unknown one is picked up; a restart loses at most the unsaved close |
| Binance adapter | a position always has a stop; replacing it never loosens it; an old stop never closes a later position; the cached stop price is true |
| MT5 adapter | one position at most, whatever filling mode is tried; positions of others untouched; rounding never loosens a stop; a failed query is not an answer |
| Signals and data | no look-ahead, no bar that changes after it was shown; neither side preferred; stop on the losing side of the entry |
| Simulated brokers | the book, the journal, the counters and the loop's memory tell the same story |
| Configuration, command line | no real order without consent, no mainnet by one mistake, reports that say what runs, a connection that is released |

`PROJECT.json` lists the hazards behind these at their lines, each with the
properties that would notice it.

## Modules and the code they model

```
            TradeDesk  (abstract: settle each tracked trade once, within limits)
             ^      ^          refinement, checked and proved for both
             |      |
        Replay    LiveLoop    SimulatedModes     BinanceOrders    MT5Orders
             \      |         /                   (each the live order protocol
               TradeRules                          of one adapter, by request)

  Lists <-- Signals <-- MarketData               Startup
        (from rows to a decision)                (from settings to an order)
```

`Replay` is the loop composed with the backtest broker, `LiveLoop` with an
exchange behind any adapter and with `_run_continuous_loop()`, `SimulatedModes`
with the brokers that keep their book in memory. `MarketData` composes the data
loader, the backtest's `get_bars()` and the decision functions; `Startup` composes
the configuration, the command line and the adapters' connection.

`TradeRules` holds the pure rules as operators: the guard, the cooldown, the
date reset, the recording of a close, `ManagePosition`. Cash is an integer number
of cash units and a price an integer number of ticks, so the program's floating
point rounding is not represented; `ConfigAssumption` is what the strategy
validator accepts, plus the divisibility the integer grid needs.

`TradeDesk` is the abstract specification. A desk is idle, opens a trade (only
if none is tracked and the counters of the date are below their limits) or
settles the tracked one, which adds exactly one to the count of the date and
moves the streak. It does not say which broker, when stops fire or what P&L is.

`Replay` is the backtest. `pc` alternates between the broker's step `NextBar`
(`set_current_bar` and `check_and_apply_stop_loss`) and one disjunct per way
`run_iteration()` can return. The broker's closed-trade list is kept as what
the program computes from it, the sums of the current date. A fill at the
open of the next row commits the model to a next row with that open. Trend,
confirmation and trigger are a choice among the sides the trigger's candle
permits, with a stop beyond the row's own extreme.

`LiveLoop` is `run_iteration()` inside `_run_continuous_loop()`. `pc` is the
broker call due next, because a call is where an exchange event, an exception
or a signal can intervene; the code between two calls belongs to the action of
the first. `Raised` is the loop's `except` branch. Prices disappear: a stop
loses one unit before breakeven and earns `BeLock` afterwards. `Faults` names
the calls that may raise, `Swallowed` those whose failure reads as an answer:
the MT5 package returns `None` for a failed query, and the adapter's `or ()`
makes it no bars, no deals today or no position. The exchange, its date, the host's date and the minute are external. `trade` is a history
variable: what became of each position and how it was recorded.

| `LiveLoop` | code |
|---|---|
| `GetBars`, `GetTodayRealizedPnl` | `main.py` 266-287 |
| `NoticeVanished`, `WriteJournalRow`, `JournalRaises` | `main.py` 293-326, `_write_trade_journal_row` |
| `NoticeOpen`, `Mark`, `Close`, `Modify` | `main.py` 328-368 |
| `Gate`, `LookForEntry`, `OpenMarketOrder` | `main.py` 370-467 |
| `OrderRefused`, `ReplyLost` | what the adapters raise on |
| `GetNoBars`, `NoneReported`, `NoneFound` | what the MT5 adapter answers when a query fails |
| `SaveDailyStats`, `Crash`, `LoadDailyStats`, `Start`, `Leave` | `models.py` 135-171, `cli.py` 153-197 |

`BinanceOrders` is `BinanceBroker` with live trading on, one action per request
that changes the exchange. A stop price is a level, larger meaning more profit
for whichever side it protects. The adapter keeps stop prices and stop order ids in
dictionaries, and three spellings of the one symbol are their keys (`names`): an
entry writes under the symbol of `strategy.yaml`, a modify and a close use what stands
before the first colon of the position id, and the stop of a position is reported
from under the symbol the exchange gives it, which for futures is `BTC/USDT:USDT`.
`Improves` is the comparison with that reported stop: an absent one reads 0.0, on which
every long stop improves and no short one. `stopPrice` also records which position a
price was for, since one left by an earlier position compares with nothing
in particular: `Improves` then allows either outcome. `Faults` selects requests
that may fail; the `...Reply` ones execute and then raise. Whether the exchange
accepts a reduce-only stop without a position is a parameter. The history
variable `exposed` holds the positions that one of four unhandled failures may
leave without a stop: an entry whose reply is lost, a compensating close or a
close that fails, a crash between an entry and its stop or between the
cancellation and the close.

`MT5Orders` is `MT5Broker` with live trading on, on an account that keeps every
deal as a position. The stop travels with the entry. `NextMode` is the filling
mode fallback: whatever is not answered DONE is sent again under the next mode,
and after the last the call raises. `Deal`, `StopFires` and `OthersOpen` are the
terminal: others trade on the account under other magic numbers. A price is a
number of ticks and `NormalizePrice` rounds it to the symbol's grid. The history
variable `doubtful` notes that an execution was partial or unreported, or that
a query failed and read as no position.

`MarketData` is the way of a CSV file into a decision. A row is a time and a
candle; `Init` chooses the file with its gaps, cuts it to the date range and
resamples it as `run_replay()` does before its loop, and `SetCurrentBar` is the
loop. `GetBars` is the broker's slice, `Frame` the frames `run_iteration()` asks for,
each of at most `Limit` bars. `Signals` holds the indicators and the decision functions. Prices are
integers in a unit that every average divides exactly, and recursive averages
are computed with their denominators cleared, so comparisons are those of exact
arithmetic. A value the code leaves undefined over too few rows is `NaN`.
`Lists` holds the two things these modules and `SimulatedModes` do to columns and
lists: add them up, and keep the rows that satisfy a condition.

The model's integers are the program's numbers only where no average of a frame is
rounded; `DivisionsExact` says of a state that this is so. In the instance of
`market_data` it is so in every state, because the unit of prices is chosen for it.

| `Signals`, `MarketData` | code |
|---|---|
| `LoadOhlcvCsv`, `FilterDateRange`, `ResampleOhlcv`, `BucketStart`, `AddRow` | `data_loader.py` |
| `GetBars`, `Closed` | `simulated_broker.py` 97-104 |
| `Ema`, `MacdLine`, `MacdHist`, `Atr`, `Vwap` | `indicators.py` |
| `DetectTrend`, `ConfirmTrend`, `DetectEntrySignal`, `CalculateStopLoss` | `strategy/`, `risk_manager.py` |
| `Limit`, `Frame`, `Decide` | `main.py` 122-140, 266-276, 408-446 |

`SimulatedModes` is the loop against the mock broker and against the adapters
while `allow_live_trading` is false: the three differ in whether the market is
read again between the calls of one iteration (`Drift`), and in the cached stop
price only Binance's keeps (`cache`). The disjuncts of `RunIteration` are the ways
`run_iteration()` can return or raise. No stop fires here, yet its branch for a vanished
position is reached: a close is booked and counted before its journal row is written,
and the contract size, the trading cost or the file may raise in between
(`WriteTradeJournalRow`). The position then stays tracked although it is gone, and the
next iteration (`RecordVanished`) counts it once more and journals it as a stop-out,
with the difference of two totals for its P&L; that row may fail in turn. `CallRaises`
and `GetBarsRaises` are the calls that raise before anything is booked. `unwritten`,
history, holds the trades whose own row failed. The dry run's own loop ends at the
first raise, which is a session that takes no further step.
`Restart` empties the book and the loop's memory and reloads the counters;
journal and file stay. `CalculateMetrics` is the report at the end.

`Startup` is what happens before and around the loop. `Edit...` are the
operator's changes to `strategy.yaml`, the broker's file, `.env` and the shell;
`Load` is a subcommand or a script reading them, with validation as named rules
(`broken`); then the prompt, the connection, iterations that send an order or
raise, and every way out. A process keeps what it loaded. `edited`, `edits` and
`settings` are history.

| `Startup` | code |
|---|---|
| `Testnet`, `AllowLiveTrading`, `ParseBoolEnv`, `GetEnv`, `Validated` | `config.py` |
| `SafetyReport`, `Load`, `PressEnter`, `Abort` | `cli.py` 200-281, `scripts/run_*_demo.py` |
| `Connect`, `Disconnect`, `SendOrder` | the adapters' `connect()`, `disconnect()` and order gate |
| `IterationRaises`, `Leave`, `RequestShutdown` | `cli.py` 44-52, 165-197 |
| `KeyboardInterrupt`, `Terminate` | signals where no handler is installed |

The modules also hold definitions marked `fault`: a plausible mistake in the
definition that follows. No specification uses them. They exist so that
each checked property can be shown to notice at least one of them
(`PROJECT.json`, `mutants`).

## Runs

Passing:

| Run | Module, configuration | Question |
|---|---|---|
| `replay` | `MCReplay` | Do the broker's book and the bot's ledger agree over every backtest of 13 rows and two dates? |
| `live_races` | `MCLive`, `LiveRaces` | Stops and midnight between any two calls, one failing call: are limits, tracking and recording safe, and is every close eventually recorded? |
| `live_faults` | `MCLive`, `LiveFaults` | Any call may fail, replies may be lost, failed queries of bars and deals read as empty, the process may be killed or stopped at any call: can there be a second position, one nobody manages, or more than one forgotten close? |
| `binance_faults` | `MCBinance`, `BinanceFaults` | However the symbol is spelt, any request may fail or lose its reply, the process may die and stops may fire at any point: is a position protected outside the four failures above, the cached stop true, and can a stop be loosened? |
| `market_data` | `MCMarket`, `Market` | Over every file of five rows with gaps: do the frames look ahead, change after they were shown, or miss rows of the range; are the indicators what they are called and the decisions symmetric and protected? |
| `simulated_modes` | `MCSimulated`, `Simulated` | With prices that drift within an iteration, calls that raise and rows that cannot be written, a change of date and a restart at any point: do book, journal, counters and report agree? |
| `startup` | `MCStartup`, `Startup` | Whatever three settings are changed before or during a run: can an unconfirmed order be sent, can one reach mainnet by one side alone, do the reports tell the truth, is the connection released? |
| `mt5_orders` | `MCMT5`, `MT5Orders` | With every rejection of the three filling modes, stops that fire and others on the account: can there be two positions, can a foreign one be touched, can rounding loosen a stop? |

The properties that carry most:

- `EveryCloseCountedOnce`, `VanishedPnlIsTrades` (`Replay`). The bot infers
  closes and their P&L, the broker knows them; after each row the two agree,
  across changes of date as well.
- `EntriesWithinDailyLimit` (both loops). The guard counts closes on a date,
  and a position may be carried into a date with fresh counters, yet no
  date sees more entries than `max_trades_per_day`.
- `StreakIsBrokers`, `NoEntryPastGuard` (`Replay`). The guard reads marks, the
  broker books fills; they cannot disagree about a loss as long as half a
  spread and the slippage cost no more than `tp_cash`.
- `CooldownHonoured`. The counter is ticked before it is tested and the iteration
  of the close does not tick it, so *n* bars block *n - 1* iterations and the entry
  falls *n* rows after the close.
- `EntryWithinLossLimit` (`LiveLoop`). The limit is read four calls before the
  order is sent; it cannot be stale because P&L moves only while a position is open.
- `NeverScansWithPosition` (`LiveLoop`). A restarted or mistaken loop never gets as
  far as looking for an entry while a position is open.
  `live_faults` reads failed queries of bars and deals as empty; a failed query of
  positions defeats the property at once (`LivePhantomClose.cfg`).
- `RecordedOnceOrTracked`, `TrackedUntilRecorded`, `EveryCloseRecorded`,
  `OpenIsEventuallyTracked` (`LiveLoop`). A closed position has been recorded once, or
  is still tracked or being recorded; through failing calls nothing tracked is
  dropped, and nothing open stays unmanaged.
- `ImplementsDesk` (both). The loop's state refines `TradeDesk`. In `LiveLoop`
  a trade stops being tracked when it is counted, that is when the journal row
  is due, hence the mapping `lastKnown # None /\ pc # "journal"`.
- `RestartForgetsAtMostOne`. Saving after each iteration, failed or not, means that
  a kill costs at most the iteration under way, and so does giving up after
  repeated errors, which leaves the loop before the save. It assumes the
  file can be read: `write_text()` truncates before it writes, and a torn file
  (`Corrupt`) forgets everything.
- `Protected`, `StopNeverLoosens`, `CacheNeverOverstates` (`BinanceOrders`).
  The order of the requests is what they are about: new stop before
  old one, price noted only after it is live. A stop never moves back where the bot
  sees the one it replaces (`SeesItsStop`); under the futures spelling it may, but from
  breakeven on never to the stop of the entry (`LevelKept`). `Protected` and
  `CacheNeverOverstates` except the positions in `exposed`: those four failures
  are the only ones that matter. `NeverExposed` (`BinanceCloseFails.cfg`) shows
  that one of them does.
- `OnePosition`, `ForeignUntouched`, `StopNeverSlips` (`MT5Orders`). The position
  count is read once before up to three requests, the ticket looked up once
  before up to three; the improvement is judged on the unrounded price and
  the rounded one is sent. None of it does harm while the terminal reports what
  it did; that is what `doubtful` delimits.

- `NoLookahead`, `ShownBarsAreFinal`, `BarsMatchFile` (`MarketData`). A bar is shown by
  its start, and only once its last row has been read; a later frame repeats the one
  before it, unchanged, but for as many bars at its start as the new ones at its end
  push over the `Limit` of the timeframe. `BarsMatchFile` also notes
  that the range keeps one row too many, the one stamped at the midnight after
  `end_date`.
- `MirrorImage`, `StopBehindSignal` (`MarketData`). The long and the short rules are
  written out separately, a dozen comparisons each; on the mirror image of any market
  the decision must be the mirror image, stop included.
- `IndicatorsMatchReference`. What is called the session VWAP is one on M5 frames;
  on M1 it is the VWAP of the last `bar_lookback` rows once the day is longer.
- `BookIsMirrored` (`SimulatedModes`). Rows of the journal and trades of the book are
  the same trades in the same order, but for the one whose row is pending; the loop
  tracks what the broker holds. A row written at the close is within the drift of the
  booked P&L; one written late is the trade's own P&L, nothing, or (past midnight) the
  whole session's.
- `EntriesWithinLimit`. The limit holds up to one entry per restart of the date: a
  restart forgets an unsaved close, or the open simulated position.
- `SimulationNeverLoses`. No stop ever fires here: a row says stop-out or breakeven only
  if the close's own row could not be written, and no row, late ones included, is a loss
  as long as price drifts by no more than `tp_cash` within an iteration. So the loss
  limit and the losing streak are never exercised in a simulation.
- `TotalIsTheSessions`. What these brokers call today's P&L is the session's: it is
  the day's on the first date only, and a session that reached its profit target
  never enters again.
- `MetricsMatchJournal`. The report counts rows of earlier sessions too.
- `MainnetNeedsThreeChanges`, `OrdersAreConfirmed`, `ReportIsTrue`, `ReleasedOnExit`
  (`Startup`). Files, variables and flags are merged with different defaults and may
  change while a process runs; it keeps what it loaded, and its operator saw it.

`ImplementsDesk` and `RecordedOnceOrTracked` are checked in `live_races`, where the
journal does not fail: a failing journal breaks both (`live_double_count`); and
without restarts, because a stop that fires while the process is down is never
recorded: the tracked position is not persisted.

The type invariants of `LiveLoop`, `BinanceOrders`, `MT5Orders`, `Startup` and
`SimulatedModes` are not part of a run, they are proved.

## Bounds

| Bound | Value | Why enough |
|---|---|---|
| `NumBars` | 13 | two complete trades and the start of a third, with cooldowns and a change of date between any two rows; the fourth row already reaches every action |
| `MaxDay` | 1 | every rule compares a date with the previous one only |
| `Bars`, `Stops` | 6 rows, 4 stops | rows that rise, fall and stay, reach a stop from either side, and carry either side through breakeven to take-profit; `FeeOf` differs per price, so the breakeven level moves |
| `MaxPositions` (live) | 3 | one more than `MaxTrades`, so exceeding the limit is possible |
| `MaxFaults` (live) | 1 or 2 | an error and a second one in its aftermath; `MaxErrors` is 2 (5 in the code), so giving up is reached |
| `MaxStops` | 0 or 1 | a new process, after a kill, a signal or giving up; only the file connects it with the old one |
| `MaxMinute` | 3 in `LiveCooldown.cfg`, else 0 or 1 | one more than the cooldown; nothing but the cooldown property reads it |
| `MaxPositions`, `MaxOrders` (Binance) | 2, 5 | an old stop and the position it could hit, two replacements for each |
| `Namings` (Binance) | 3 | spot, where all spellings agree; futures, reported with the settlement currency; futures spelt out in `strategy.yaml` too. each violation run takes the one it needs |
| `MaxLevel` | 2 | initial, breakeven, and a better one |
| `MaxFaults`, `MaxRestarts` (Binance) | 3, 1 | an entry stop, a replacement and a cancellation may all fail in one history |
| `Modes`, `Volume` (MT5) | 3, 2 | the three filling modes of the code; a deal filled in part leaves one step |
| `Point`, `MaxTicks` (MT5) | 3, 5 | prices that round down, up and not at all, over two grid steps |
| `MaxPositions`, `MaxFaults` (MT5) | 5, 1 | an entry that meets three modes besides two others' positions; one fault, since `OnePosition` speaks of runs without |
| `NumRows`, `LeadIn` (data) | 5, 2 | the first two rows are outside the range or start it; five rows fill both resampled series and the slow average |
| `Steps`, `DayLength`, `M5Length`, `M15Length` | {1, 2, 4}, 8, 2, 4 | consecutive rows, a missing row, a missing bucket; midnight and the end of the range between any two rows |
| lookbacks and spans (data) | 2 to 4 | shorter than the file, so that they cut |
| `Candles` | a rise, its mirror image, an untraded bar | both sides reach a signal; a bar without volume has no VWAP |
| `Cost` | three units | some frames have a smaller ATR and are refused for the cost, others give signals |
| `Prices`, `Drift` (simulated) | 0..3, 1 | take-profit at two ticks and a drift of half of it |
| `MaxDay`, `MaxRestarts` (simulated) | 1, 1 | a date with the previous one; one restart of either |
| `MaxFaults` (simulated) | 2 | the row of a close, and the first attempt to write it late |
| `OldJournals` | none, or three rows beginning with a loss | every order of a loss, a gain and neither after it: a streak broken and unbroken before the session starts |
| `MaxEdits` (startup) | 3, 2 in `StartupDryRun.cfg` | the three changes mainnet takes, before or while a process runs |
| `MaxErrors` (startup) | 2 | one error that is forgiven, one that is not |

All instances stop when their rows, positions or faults run out, so the runs
do not check for deadlock.

## Fairness

Only `LiveLoop` has liveness properties. It assumes `WF_vars(Iterate)`: as long
as the process lives, its loop goes on. That is `while not shutdown.requested`
with a bounded sleep and calls that return or raise. Nothing is assumed of the
exchange, of faults, of signals or of anybody restarting the process; a process
that ends (`pc = "down"`) satisfies the liveness properties, and so does a
position that never closes.

## Proofs

Seven modules of theorems, each about one model and valid for every value of its
constants, and `ListProofs`, which holds the facts about lists they share. `Spec` is
that model's.

| Module | Theorem | Statement |
|---|---|---|
| `ReplayProofs` | `TypeCorrect` | `Spec => []TypeOK` |
| | `ClosesCountedOnce` | `Spec => []EveryCloseCountedOnce` |
| | `EntriesBounded` | `Spec => []EntriesWithinDailyLimit` |
| | `VanishedPnlExact` | `Spec => []VanishedPnlIsTrades` |
| | `BreakevenPaysLock` | `Spec => []BreakevenLocksProfit` |
| | `CooldownKept` | `Spec => CooldownHonoured` |
| | `StopsOnlyImprove` | `Spec => StopNeverRegresses` |
| | `StreakExact` | `CheapExit => (Spec => []StreakIsBrokers)` |
| | `EntriesWithinGuard` | `CheapExit => (Spec => NoEntryPastGuard)` |
| | `ReplayImplementsDesk` | `Spec => ImplementsDesk` |
| `LiveProofs` | `LiveTypes` | `Spec => []TypeOK` |
| | `RestartsForgetOne` | `Spec => RestartForgetsAtMostOne` |
| | `ScansOnlyWhenFlat` | `PositionsReported => (Spec => []NeverScansWithPosition)` |
| | `TrackedTillRecorded` | `PositionsReported => (Spec => TrackedUntilRecorded)` |
| | `ClosesRecordedOnce` | `Truthful => (Spec => []RecordedOnceOrTracked)` |
| | `EntriesBoundedByDay` | `Truthful => (Spec => []EntriesWithinDailyLimit)` |
| | `NoEntryPastLoss` | `Truthful`, P&L reported `=> (Spec => EntryWithinLossLimit)` |
| | `LiveImplementsDesk` | `Truthful => (Spec => ImplementsDesk)` |
| `BinanceProofs` | `OrdersTypes` | `Spec => []TypeOK` |
| | `PositionsAreProtected` | `Spec => []Protected` |
| | `CacheIsBacked` | `Spec => []CacheNeverOverstates` |
| | `StopsNeverLoosen` | `Spec => StopNeverLoosens` |
| `MT5Proofs` | `MT5Types` | `Spec => []TypeOK` |
| | `AtMostOnePosition` | `Spec => []OnePosition` |
| | `OthersAreUntouched` | `Spec => ForeignUntouched` |
| | `StopsNeverLoosen` | `Spec => StopNeverSlips` |
| `StartupProofs` | `StartupTypes` | `Spec => []TypeOK` |
| | `MainnetIsDeliberate` | `Spec => []MainnetNeedsThreeChanges` |
| | `OrdersNeedConsent` | `Spec => []OrdersAreConfirmed` |
| | `ReportsAreTrue` | `Spec => []ReportIsTrue` |
| | `ConnectionsReleased` | `Spec => []ReleasedOnExit` |
| `SimulatedProofs` | `SessionTypes` | `Spec => []TypeOK` |
| | `BookIsTheLoops` | `Spec => []BookIsMirrored` |
| | `EntriesBoundedByRestarts` | `Spec => []EntriesWithinLimit` |
| | `NoSimulatedLoss` | `Spec => []SimulationNeverLoses` |
| | `SessionTotal` | `Spec => TotalIsTheSessions` |
| | `ReportIsTheJournals` | `Spec => []MetricsMatchJournal` |
| `MarketProofs` | `MarketInvariant` | `Spec => []MarketInv` |
| | `LooksBackOnly` | `Spec => []NoLookahead` |
| | `ShownIsFinal` | `Spec => ShownBarsAreFinal` |
| | `BarsAreTheFiles` | `Spec => []BarsMatchFile` |
| | `SessionVwap` | `Spec => []VwapIsSession` |
| | `StopsAreBehind` | `ProperCandles`, `BufferCounts` imply `Spec => []StopBehindSignal` |
| | `NoPreferredSide` | `Spec => [](DivisionsExact => MirrorImage)` |
| | `IndicatorsAreTheirs` | `ProperCandles` implies `Spec => [](DivisionsExact => IndicatorsMatchReference)` |

Assumed are the constants' assumptions, which TLC evaluates in every run:
`ConfigAssumption` (what the strategy validator accepts, and exact division),
`ReplayAssumption`, `LiveAssumption`, `OrdersAssumption`, `MT5Assumption`,
`StartupAssumption`, `SimulatedAssumption`, `SignalsAssumption` (spans of at least
one row), `MarketAssumption` (buckets divide each other and the day, the M5 VWAP
lookback spans a day), and that `None` and `NaN` are no values of the program.
Premises of single theorems are parameters of the model that a configuration
chooses:

- `CheapExit`: half a spread and the slippage cost no more than `tp_cash`.
- `PositionsReported`: a failed query of positions raises and is not read as
  "no position". The MT5 adapter does not ensure it, see `LivePhantomClose.cfg`.
- `Truthful`: the journal can be written, calls that raise did nothing, only the
  P&L query may read as empty, and no second process is started. Any exchange
  call may still raise, and stops, midnight and the host's midnight may fall
  anywhere. `LiveRaces.cfg` is such an instance; each of the conditions is
  necessary, which `live_double_count`, `LivePhantomClose.cfg` and the notes on
  restarts above show.
- `ProperCandles`: a row's close lies between its low and its high. `load_ohlcv_csv()`
  does not compare the columns of a row, so a file may break it.
- `BufferCounts`: the stop buffer of the smallest ATR that the cost gate lets pass is
  at least one unit of price. Without it a stop may sit at the extreme itself.
- `DivisionsExact`, a condition on the state: see `MarketData` above. Where a
  division would round, the model rounds down, which depends on the sign; the program
  takes the nearest floating point number, which does not, but is no weighted sum to
  the last digit either. The theorems say nothing of such frames.

`MCMarket` assumes the first two of its instance, where TLC evaluates them.

**Replay.** The properties are not inductive: they only speak of the moments
between rows, and say nothing of the half row in which a stop has fired and the
bot does not know yet. The inductive invariant `LedgerInv` names that half row:
`Pending` holds when the broker has booked a close of a position the bot still
tracks. Every count of the bot then equals the broker's minus one, and the day's
total minus the last trade's P&L is what the bot last read; otherwise they are
equal. Around it stand the facts that make this provable: what date the counters
are of (`DateInv`), that the tracked position is the broker's up to its stop
(`TrackInv`), what the journal's last row says (`RowInv`), that entries are at
most closes plus the open one (`OpensInv`), and how much cooldown is left given
the rows since the close (`CooldownInv`). `StreakInv` adds that the streaks
agree, which needs `CheapExit`: a take-profit marked at a gain is booked at
no loss. `BreakevenPaysLock` adds that the stop of a context which has applied
breakeven is worth the lock from the entry on.

**Live loop.** Four layers, each proved from those below it. `ScanInv`: whoever
is past the positions call with nothing tracked has nothing open, because only an
order opens a position and the call before it looked. `FileInv`: the file lags
behind the counters by at most the close of the iteration under way. `FateInv`
and `BookInv`: each position's history (`trade`) agrees with whether the exchange
holds it, the loop tracks it, and its row is being written. `CountInv` and
`LossInv`: the entries of a date are the closes counted on it plus the trade not
yet counted, and the total the guard read is the exchange's while nothing is
tracked. The refinement follows from the first three.

**Binance.** `OrdersInv` says what each `pc` in the middle of a call knows
(`CallInv`), which identities orders and positions can have (`PositionInv`), that
the noted stop is one the exchange has accepted (`CacheInv`), and that during a
replacement the new stop keeps what the old one locked (`ModifyInv`). `CacheInv` is a
statement about every key: only an entry writes under another key than the position's
own, and it writes the lowest level, so a key under which the bot reads nothing or an
entry's price can let a stop move back, but not below the first breakeven.

**MT5.** `MT5Inv` holds that tickets are unique, stops lie on the price grid, the
position a call looked up is the bot's, and an entry that has not been answered
has opened nothing unless `doubtful`. The arithmetic lemma is
`RoundingKeepsImprovement`: rounding to the nearest grid price is monotone and
fixes the grid, so a candidate above the present stop is not rounded below it.

**Startup.** `StartupInv` says of a process what it loaded (`LoadedInv`), what it
passed to get where it is (`PassedInv`) and what follows for `sent` (`SentInv`),
none of which later edits can change.

**Simulated sessions.** `SessionInv` relates row `firstRow - 1 + i` of the journal to
trade `i` (`Tells`), and bounds the entries of the date by the counters in memory and,
separately, by those in the file plus the one the iteration has not saved. What makes
the rows of late writes provable is `PendingInv`: while a row is pending, the total the
loop last read is that of the trades before the missing one or already includes it.
With the reset on a new date the row can only be one of three figures. `GainInv` says that under
`Drift * Quantity <= TpCash` no booked trade is a loss, hence no such figure is.

The total (`TotalInv`) is carried along as a sum to which every close appends its
P&L. The report is not a matter of steps: of any journal, the streak after a row
(`StreakHistory`) is the length of the run of losses that ends at it (`StreakIsRun`),
and the maximum over all rows is the longest run (`LongestRun`).

**Lists.** The model is written with folds and recursive functions, and what they
compute for every input takes an induction. The library's induction theorems are about
operators, which the provers cannot instantiate; its `NatLessThanWellFounded` and
`WFMin` are about sets. `ListProofs` takes the least element of a set of naturals from
them (`LeastNatural`), and gets an induction principle whose predicate is a set
(`SetInduction`, `SeqInduction`), and from that the existence of recursive functions on
an interval (`Recursion`) and of folds (`FoldExists`). The rest of the module says what
appending a row does to `Sum` and `Kept`, and what slices, minima and maxima are.

**Backtest data.** `MarketInv` is short: the file is in order of time, the series are
what the range and the resampling make of it, and the current row is one of them. All
the work is in what it implies. `BarsOf` relates a resampled series to its rows: each
bar starts where a bucket may, summarises (`Covers`) exactly the rows of that bucket,
and lies a bucket or more before the next. It holds of `ResampleOhlcv` by
induction over the rows (`BarsOfRows`): a row opens a bucket or joins the last one.

- *No look-ahead.* A bar that has ended by `Now` has its last possible row read
  (`ReadInFull`), so the rows of its bucket that were read are all of its rows, and
  `Covers` is the claim. The closed bars are a prefix of the series that can only grow
  (`ClosedIs`), so a window at their end moves forward by as many bars as it has no
  room for (`WindowMoves`), which is finality.
- *Resampling composes*, since a coarse bucket is a union of fine ones
  (`StartOfStart`), and a row that opens or extends a fine bar changes the coarse one
  alike (`ResampleTwice`).
- *Session VWAP.* Bars of one day are at most `VwapBarLookback` many, because they
  lie a bucket or more apart (`Spacing`) and the lookback spans a day.
- *Stop.* A signal passed the cost gate, hence the buffer is positive
  (`BufferIsPositive`), and the last row of the window is the current one.
- *Mirror image.* Negation is carried from rows through sums, averages, ranges, trend,
  confirmation, trigger and stop, one lemma for each. Only the averages need
  `DivisionsExact` (`EwmNegated`): a range has no side.
- *Weighted sums.* The recursive average times the powers of its denominators is the
  weighted sum, by induction over the values (`EwmIsWeighted`); the true range is the
  stretched range by cases on where the last close lies (`RangeStretched`).

Model-checked only: the liveness of `LiveLoop` (`EveryCloseRecorded`,
`OpenIsEventuallyTracked`), because the proof system handles neither fairness nor
`ENABLED`. Every invariant and every action property of the passing runs is proved.

## Where code and documentation disagree

The first four are runs that TLC finds violated, with the smallest instance that
shows it; the others are further configurations of the same modules, to be run
by hand (`tlc -config LiveCooldown.cfg MCLive`).

| Run | What the code does | What is said |
|---|---|---|
| `live_loss_race` | a stop that fires between the P&L and the position call is recorded with P&L 0, and the losing streak is reset | consecutive losses halt entries |
| `live_double_count` | a journal that cannot be written makes the next iteration count the close again | the tracked position is cleared when the bot closes it |
| `binance_stop_race` | a superseded stop stays live and can close the next position of its side | a stray stop is harmless |
| `binance_stop_backward` | the stop of a future is kept under one spelling of the symbol and read under another; it reads 0.0, and a worse stop replaces a better one | a stop is never moved backward, regardless of side |
| `StartupDryRun.cfg` | `allow_live_trading` alone gates real orders; nothing asks for `dry_run` or `DRY_RUN` | a global safety flag, honored if either source says true |
| `LiveUncounted.cfg` | an order that is executed but raises, and is closed before it is seen (by its stop, or by the adapter's own compensating close), is never counted, and the date sees more entries than the limit | `max_trades_per_day` halts new entries |
| `LiveRestartDate.cfg` | counters dated by the bar are discarded by a restart that looks for the host's date | a mid-day restart does not reset them |
| `LiveCooldown.cfg` | live, the cooldown is ticked per iteration | it is measured in M1 bars |
| `BinanceCloseFails.cfg` | the stop is cancelled before a close that may fail | the stop stays active whatever an iteration raises |
| `LivePhantomClose.cfg` | a positions query that fails reads as no position, and an open position is recorded as closed | a position that is gone was closed by the broker |

Close relatives, from the same modules with other constants:

- `LossesCountAsLosses` also fails without any race, if `get_open_position()`
  raises after the total was stored (`Faults = {"positions"}`), or if the date
  changes between a stop and its discovery (`MaxDay = 1`). The latter does not
  occur in the replay, where `VanishedPnlIsTrades` is proved: there the stop of a
  row is dated by that row, and the iteration of the same row records it.
- `NeverExposed` also fails if an entry is executed but its request raises
  (`Faults = {"entryReply"}`): the entry order is outside the `try` block, so no
  stop is attached and no compensating close is sent.
- `OnePosition` without `~doubtful` fails if a filling mode executed in part or
  without an answer: the next mode sends the whole volume again.
- Under the futures spelling a short's breakeven is never applied: no stop of a short
  improves on 0.0. And with the full name in `strategy.yaml` an entry keeps its stop
  order id where a close and a modify do not look for it, so that order is never cancelled.
- `NoStaleStop` also fails if the cancellation of the superseded stop fails
  (`Faults = {"cancelOld"}`). With no fault and no stop firing inside a call it holds.
- In the replay a take-profit is journalled at the mark that decided it, while
  the broker books half a spread and the slippage less.

Noticed on the way, without a run:

- `BINANCE_TESTNET` set to anything that is not 1, true, yes or on, blank included,
  counts as false; the comment in `config.py` (310-314) speaks of an explicit false, 0,
  no or off. `Startup` models the code; three changes remain necessary either way.
- The report of the demo scripts leaves `allow_live_trading` out
  (`run_binance_demo.py` 53, `run_mt5_demo.py` 53), which is why `ReportIsTrue` speaks of
  a report only if it states the flag.
- `end_date` is called inclusive; the range also keeps the row of the midnight after it.
- `binance.yaml`'s symbol serves the leverage and the P&L query, `strategy.yaml`'s the
  orders.
- `max_spread_points`, `lot`, `quantity` and `account_mode` are read and validated, and
  used nowhere.

## What is not modelled

- Prices in `LiveLoop`. Hence a new stop beyond the current price, which an exchange
  refuses on every iteration until the error counter stops the loop, is a refusal
  like any other there.
- The forming bar: the live adapters return it, the backtest never does. Indicator
  values are not part of `LiveLoop`.
- Two clocks in `LiveLoop`: the date of the latest bar and the date of the P&L query turn
  in one step (`DayTurns`). In the code the first is the bar's and the second the
  terminal's or exchange's, and they may part for as long as the latest bar is old.
- Failed MT5 queries that read as empty are part of `LiveLoop`, not of `SimulatedModes`.
- Floating point: signals are computed exactly, cash and prices are integers. How far
  a rounded average can move a decision is not estimated.
- Rounding of quantities by the adapters, and of prices by Binance's; the live P&L
  queries, which sum what the exchange reports; an account that nets deals into one
  position.
- Ratios, averages and trades per day of the report; CSV formatting and parsing.
- Which numbers the validators of the configuration compare: a file they refuse is a
  non-empty set of broken rules.
- Console output, log files, argument parsing, and `run()` in `main.py`, which only logs.

## Plan

Done: all modules above with their runs, and the proofs of all their safety and action
properties.

What remains, in order of value:

1. Composition of `LiveLoop` with `BinanceOrders` and `MT5Orders`: the loop's view of an
   adapter as an abstract specification the adapters are shown to implement. Today the
   two meet informally: an entry that Binance's adapter flattens because its stop
   failed is `ReplyLost` followed by `StopFires` in `LiveLoop`, a partial MT5 close is a
   close that raised, a refused stop is `CallRaises`.
2. Prices in `LiveLoop`, for the stop that is refused on every iteration.
