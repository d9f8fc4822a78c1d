# Verification of aurex-trade

TLA+ models of the parts of aurex-trade in which order, failure and concurrency
decide whether money is at risk: the live trading engine and its two grid
strategies against an OANDA account, the web server that starts and stops one
engine per user, and the backtests that decide which settings go live, with the
background tasks and the shared bars they run on. TLC checks the models on small instances; TLAPS proves the main
results for every value of the constants.

File names below are relative to `src/aurex_trade/`.

## The system

| Component | State it keeps | Operations | Talks to |
|---|---|---|---|
| Trading engine (`engine/trading_engine.py`) | `_running`, order/trade maps by grid key, retry counters, balance baselines | `run`, `stop`, fast poll, strategy cycle, `_process_signal`, `_close_all_trades` | broker, strategy (callbacks), repository, run store |
| Sliding grid (`domain/strategy/ciby_sliding_grid.py`) | anchor, ladder, placed/filled/stopped/retired sides, signal queue, session and daily P&L | `generate`, `get_levels_to_close`, `report_fill`, `report_trade_closed`, `on_signal_rejected`, `notify_close_all_complete` | called by the engine |
| Doubling grid (`domain/strategy/ciby_hedged_doubling_grid.py`) | levels, doubled position, close-all flags | same callbacks | called by the engine |
| Risk engine (`domain/risk/engine.py`) | limits | `evaluate` | called by the engine |
| Broker adapters (`adapters/oanda`, `adapters/backtest`, `adapters/paper`) | none / simulated account | place, cancel, close, list | OANDA |
| Bot sessions (`web/_bot_sessions.py`, `web/routers/bot`) | user -> session | start, stop, stop_all, `bot_runner` | request threads, pool, engine |
| Task registry (`web/tasks.py`) | task table, thread pool | submit, `_on_done`, evict, shutdown | pool threads |
| Web application (`web/app.py`, `web/auth`, `web/ratelimit.py`) | login sessions, request windows | lifespan, login, logout | all of the web part |
| Backtesting (`backtest/`, `metrics.py`) | runs, results | replay, sweep, walk-forward | backtest broker |
| Storage (`adapters/sqlite`, `adapters/memory`) | tables | insert, query | SQLite |

How they interact. One engine runs on one pool thread. It polls the broker every
few seconds (fast poll) and runs a strategy cycle at a longer interval; the
strategy is a passive object called on the engine's thread. The account moves by
itself: orders fill and stops trigger between any two calls, and the engine
learns of it only by comparing snapshots with its maps. Request threads start and
stop engines through the session registry; `stop()` runs on the request's thread
while the engine's own thread is anywhere in its loop. Bots and backtests share one
pool of workers; a backtest task first completes the bars of its range in a store
all users share, then replays them on one thread.

What is hard, and what must hold:

* **Close-all.** A liquidation takes several calls, each of which may fail, while
  orders fill and stops trigger. It must leave the account flat before a new
  session starts, must not be abandoned, must stop retrying in the end.
* **Fill tracking.** Fills are inferred from two snapshots taken at different
  moments. Nothing at the broker may be lost from the books, tracked under the
  wrong level, or placed twice.
* **Session P&L.** Profit exits are computed from balance differences; a baseline
  must belong to the session whose exits it decides.
* **Hedges and exits of the doubling grid.** A fill must be hedged at once, a level
  re-armed only when its exposure is over, and an exit asked for in a callback
  carried out.
* **Grid window.** The ladder slides with price under caps on active levels.
* **Bot lifecycle.** Overlapping start, stop, restart and shutdown on several
  threads; engines that crash.
* **Backtest money.** Stops, resting entries, market fills and closes of one bar have
  an order; whatever it is, the reported result must be that of an account, and the
  runner's maps must follow the broker as the live engine's do.
* **Background tasks and shared bars.** Coverage is judged by the first and the last
  stored bar, so no failing or concurrent download may leave a hole between them; a
  task must end, and its result be there to be fetched.
* **Walk-forward windows.** A test must not see a bar its parameters were chosen on.

## The plan

In the order of what is at stake: the liquidation protocol first, then who owns an
engine, then the books, the money that drives exits, and the window; after the live
system the backtests.

| # | Module | Status |
|---|---|---|
| 1 | `Liquidation` (abstract), `CloseAll` (implements it), `CloseAll_proof` | done |
| 2 | `BotLifecycle`, `BotLifecycle_proof` | done |
| 3 | `FillTracking`, `FillTracking_proof` | done |
| 4 | `SessionPnl`, `SessionPnl_proof` | done |
| 5 | `SlidingGrid`, `SlidingGrid_proof` | done |
| 6 | `DoublingGrid`, `DoublingGrid_proof` | done but for the deferred trailing stop |
| 7 | `Account` (abstract), `Backtest` (implements it; the risk engine's rules are in it), `Backtest_proof` | done |
| 8 | `BacktestJobs`, `BacktestJobs_proof` | done |
| 9 | `WalkForward`; its theorems are at the end of `Backtest_proof` | done |

Abstract specifications: `Liquidation` for the close-all, `Account` for the money of
a backtest. A third, "the books of a grid" (a set of keys that are empty, resting or
open), could be implemented by `FillTracking`, `SlidingGrid` and `Backtest` alike
and would tie the window's `FastPoll`, whose calls do not fail, to the poll whose calls
do; it is not written.

## Modules

### CloseAll and Liquidation

`CloseAll` is `_close_all_trades` with the flags of the strategy that drive it.
An `Entry` is one order or trade slot at the broker; `orders` and `trades` are the
account, `anchored`, `sessionActive` and `closing` are the strategy's
`_anchor_price`, `_session_active` and `_close_all_in_progress`, `running`,
`failedCount`, `waiting`, `balanceFailures` the engine's `_running`,
`_close_all_failed_count`, "`_close_all_next_retry_at` is in the future" and
`_balance_read_failures`. `pc` is the engine thread's place, one broker call per
step; `stopPc` is the web thread inside `stop()`. The P&L that decides a session
exit is a nondeterministic choice of `Generate`; `SessionPnl` opens it.

`cancelsWork` is chosen once, in `Init`: whether `cancel_all_orders` works in this
behaviour. A cancel that fails is swallowed by the code, and an order that
survives it is not looked at again, so `FlatWithoutSession` and the refinement
speak of the behaviours in which it works; everything else is checked in both.

`Liquidation` is what the protocol promises: from a session exit on, the account
only shrinks, and the hand-over finds it empty. `CloseAll` implements it with
`mode` and `exposure` as the refinement mapping.

### BotLifecycle

Request threads (start, stop), pool workers (the runner), and the main thread's
shutdown over the session registry. `sessions` is `BotSessionManager._sessions`,
`connected` the open broker connections, `running` the engines' `_running`,
`queue` the pool's queue. Each lock-protected block is one step; what happens
between the blocks interleaves. `bot_runner` is `GetSession`, `RunStart`, `Seed`,
`LoopCycle`..., `CheckCurrent`, `CleanUp`. Engines are abstracted to: may crash
at start, in the unprotected summary every `SummaryInterval` cycles, halt on the
balance, or leave the loop once `_running` is false. A closed connection makes
`get_latest_bars` fail first, before the balance is read, so the balance halt does
not end an engine whose stop was lost; the failing summary does, within
`SummaryInterval` (60) cycles.

### FillTracking

The engine's two maps and the strategy's books of the same keys (level, side),
against an account whose orders fill, stop out and expire. The fast poll is
split at its two broker reads; signal processing is one step per placement. Which
levels are in the window and which are trimmed is any choice (`Generate`'s
`window`, `trimmed`); `SlidingGrid` makes that choice.

An order has its entry (`Entry`: a buy is `BuySellOffset` above its level) and a trade
the price it was filled at (`openPrice`), which the poll compares with the level of each
order that is gone (`Distance`, `Nearest`, `MatchFill`): whose fill a trade is taken for
is decided by price alone, as in the code. An order fills at its entry, or at any
level's entry when the market has gapped (`slip`); one that is filled at once fills at
the market. Two conditions keep trades and keys together, and `RightKey` and
`NoDoubleExposure` name them: no fault that mixes up prices or hides a trade, and
`Separated`: the offset is less than half the spacing, or a buy is as near to the next
level as to its own.

`faults` is chosen once per behaviour from the constant `Environments`, and each
property says with which faults it is claimed:

| Property | claimed unless |
|---|---|
| BooksAgree | netted |
| KeepsTrack | between, poll, pending, cancel, lost, abort |
| RightKey (if `Separated`) | between, whipsaw, expire, netted, slip |
| NoDoubleExposure (if `Separated`) | any but close, crowded |
| PlacedIsBacked | poll, abort, crowded |
| TrimmedIsClosed | close, netted |

`between`: the market moves between two reads of one poll. `poll`, `pending`,
`cancel`, `close`: that call fails. `lost`: an order is accepted and its response
lost. `abort`: a cycle or a trade record is cut short by an error. `whipsaw`: an
order fills and its trade ends between two polls. `expire`: an order vanishes
without a fill. `netted`: a fill closes opposite units and opens no trade. `slip`: a
fill is made at another price than the order's. `crowded`: the open-trades cap is met. Each exclusion is needed: with the fault,
TLC finds the property violated; `between` is shown by a run of its own.

An id the broker and the engine have both forgotten is reused, so behaviours are
unbounded in length although `Ids` is small.

### SessionPnl

Money, days and exits: the account (`balance`, `floating`), the wall clock and the
date of the last completed bar, the engine's baselines (`_last_balance`,
`_session_start_balance`, `_day_start_balance`), and the strategy's session and
daily P&L with the flags they set. `ReadSummary` is the summary read and
`_push_realized_pnl`; `DailyHalt`, `SessionExit`, `OpenSession`, `Maintain`,
`ReEmitFlat` and `StayPaused` are the exits of `generate()`, in its order;
`LogGrid` is the `grid_initialized` block that re-anchors the baseline; `drain` is
the repeated `generate()` of the same cycle; `Settle` and `SettleBlind` end a
liquidation with and without its closing balance. `openedAt`, `bankedAt` and
`haltDay` are history variables: the balance at which the grid opened, the balance
of the last record, the day of the last daily halt.

Three faults, chosen per behaviour: `none` (a liquidation finds every trade
already stopped out), `read` (its closing balance cannot be read), `lag` (the
clock is in a new day before the first bar of it is complete).

### SlidingGrid

The ladder and the window over it, with the broker at its best: prices are
integers around the anchor, an order fills and a stop triggers when price touches
it, and price may move any number of units between two iterations of the loop.

The account knows its trades by the keys they were placed for (`opened`, and the second
of each pair of `tracked`), the engine by the keys it has mapped them to (the first).
The poll matches one vanished order at a time, in any order, with the nearest new trade
of its side (`MatchFill`), or releases it when there is none (`MatchCancelled`);
`FinishPoll` is the rest: closures, then the trims. An order whose trade was opened and
stopped out between two polls takes another's trade in this way, and nothing bounds how
often. The properties are claimed of these behaviours too. Only the last conjunct of
`RetiredStaysShut` needs that trades and keys belong together (`OwnKeys`). What a swap
does break, as TLC shows when asked: a trade placed for a retired level may stay open
under another level's key; a trade of the anchor's order may be trimmed with the level
it is tracked under; a key may be placed again while the trade it was placed for is
open under another.

`PriceOf` is `_build_ladder`, `Window` the slices of `_maintain_grid`, `Trimmed`
`_trim_active_levels` with `BeyondCap` as its sort-and-slice, `Stale`
`_retract_stale_placed`, `Missing` `_queue_side`'s conditions, `ToClose` what
`get_levels_to_close` will hand over. A sort by distance leaves ties in the order
of a dictionary, so `lowerFirst` is either. `_stopped`, placement rejections and
failing calls are `FillTracking`'s, P&L exits are `SessionPnl`'s; here a session
may end at any cycle.

### DoublingGrid

The second strategy and what the engine does for it alone. The record `grid` is
the strategy's state, one field per attribute (`pending` and `closing` are
`_close_all_pending` and `_close_all_in_progress`), and its callbacks are functions
of it: `ReportFill` (with `OpenPair`, `Double`), `ReportTradeClosed`,
`OnSignalRejected`, `NotifyComplete`. `EmitFlat` and `EmitEntries` are the calls of
`generate()` in one cycle. The engine's part is the fast poll (`PollStarts` to
`PollEnds`), the signals of a cycle (`Place...`), `HedgedFill`, which is the fill's
report with `_place_opposite_market_order`, and a close-all attempt as one step
(its single calls are `CloseAll`'s). `exiting` is a history field: an exit has been
asked for and not been carried out.

Trades are known by their keys (level and side, or level and `doubled`): matching a
fill with another level's order is `FillTracking`'s subject. The account must be a
hedging one, which holds both sides of a pair. The trailing stop is one more way
for a trade to end. `faults` is chosen once per behaviour:

| Property | claimed unless |
|---|---|
| Hedged | opposite, rush |
| OneOfEach | double |
| DoubledBacked | double, read |
| ExitHoldsUnlessLost | close, read |

`opposite`, `refuse`, `double`: the opposite, a limit, the doubled order fails.
`read`: a read fails between `generate()` and the first signal. `close`: a
close-all attempt fails. `rush`: both sides of a pair end before the cycle that
places its doubled order. Each exclusion is needed: with the fault, TLC finds the
property violated; `close` is shown by a run of its own.

### Backtest and Account

`BacktestRunner` replaying bars through a strategy on `SimulatedBrokerAdapter`, one
step per loop iteration that fills, closes, places or reports one thing; the order
of the loops is the code's, the order within one list is left open. `pc` is the
place in `_run_grid_step` and `process_bar`: `NextBar`, stops (`StopOut`), resting
entries (`Enter`), the reports of fills (`HandleFill`, `HandlePairedFill`) and of
closures (`HandleClosure`), the drain of signals (`PlaceResting`, `PlaceMarket`,
`BeginCloseAll` to `EndCloseAll`, `DropSignal`), the trims (`TrimOrder`,
`TrimTrade`), `Record`; at the end `Flatten`. `capital`, `fees`, `position`,
`pending`, `trades` are the broker's, `pendingMap`, `meta`, `tradeMap`, `peak` the
runner's; `banked` and `losses` are the sum of `_trade_pnls` and the losses at its
end. The strategy is reduced to what the runner sees of it: `books` says what it
holds each key for, `closing` that it has asked for a close-all. `dropped` is a
history variable: keys whose signal was generated past the cap on signals per bar.

A simple strategy is replayed by `Hold` and `Trade`: every order passes
`RiskEngine.evaluate` (`Approved`, one operator per rule) and is sized by `Sizes`.
`setup` says how an entry point puts runner and broker together: `CommandLine`, and
with it the sweep and the walk-forward, or `Web`, which leaves the broker in
net-position mode.

`Account` is what a backtest promises of money: only a fill changes cash and
holdings, it is paid in full at one price, and no price is better than the bar
offers. `Backtest` implements it with `Cash` and `Net` as the refinement mapping:
the capital less what the open trades, or the net position, have cost. The broker's
`uuid4()` is `Fresh`, an id that nothing refers to.

### BacktestJobs

The task registry, the pool, and `_ensure_data_available` on the pool's threads. A
task's number is its creation order; `tasks` is `TaskRegistry._tasks`, `queue` the
pool's queue, `jobs` each task's place, range, the coverage it has read and the bars
it has loaded, `stored` the bars table. Each read and each save of the store is a
step: a task has a connection of its own, so a save is one transaction, and what
lies between two of them interleaves. `CheckCoverage` reads the date range once;
`DownloadWhole`, `DownloadBefore` and `DownloadAfter` fetch what it says is missing,
page by page (`Downloaded`), and any of them may fail. `DownloadByHand` is the
command line's `download-data`, which looks at nothing. A bot is a task that keeps
its worker. `whole` is a history variable: the ranges that were downloaded without
regard to what is stored. Two such ranges with bars between them (`Parted`) leave a
hole that the code cannot see, so `RangeIsServed` and `CoverageHasNoHole` are claimed
of the behaviours without such a pair.

### WalkForward

The arithmetic of `walk_forward.py` and of a sweep's ranking as operators: windows,
slices, `Winners`, and one round of the chained equity curve, scaled to stay in
integers.

## Runs

| Run (`.cfg`) | Shows |
|---|---|
| `MCCloseAll` | flat hand-over and the refinement of `Liquidation`, the breaker, the end of every liquidation |
| `MCCloseAllStop` | violation: an order left resting after `stop()` and the engine are through |
| `MCBotLifecycle` | a registered session has its runner, no connection leaks, ended runs free the slot, stopped engines end, shutdown completes |
| `MCFillTracking` | the six properties of the table, each under the faults it survives together |
| `MCFillTrackingBetween` | violation: a fill between the two reads of a poll is never tracked |
| `MCSessionPnl` | exits are the grid's own and are not overlooked, records add up, halts hold, a breached day opens no grid |
| `MCSlidingGrid` | the footprint is bounded, retired levels stay shut, nothing is left behind, what is taken for the anchor pair is never trimmed, whichever orders take whose trades |
| `MCDoublingGrid` | fills are hedged, a level is re-armed when its exposure is over, the doubled position is followed, exits are carried out |
| `MCDoublingGridLost` | violation: after one failed attempt an exit is forgotten, and the grid places levels again |
| `MCBacktest` | the refinement of `Account`, every closed trade banked once, books, maps and broker in agreement after each bar, the end of every replay; and the windows of `WalkForward` against their definition |
| `MCBacktestWeb` | violation: after the final flattening of a grid backtest from the web, the final equity is not what the closed trades have earned |
| `MCBacktestJobs` | a backtest gets every bar of its range, the stored bars have no hole, results stay until displaced, every backtest ends unless bots hold the pool |

The type invariants of `CloseAll`, `BotLifecycle`, `FillTracking`, `DoublingGrid` and
`BacktestJobs` are proved instead of run; `Backtest`'s, which names the finite maps of
the broker and the runner, is `Types` of `Backtest_proof`.

**Bounds.** `MaxRetries` 5 and `MaxBalanceFailures` 3 are the code's. Three
entries of `CloseAll` allow a partial failure in the middle of a liquidation. In
`BotLifecycle`, two users, two requests and two workers are the smallest numbers
for which a stop and a restart of one user overlap with the user's old runner
while another user's bot needs a worker; two engines are created in all
(`MaxSessions`); `SummaryInterval` is 2 instead of 60, which only shortens a
count. In `FillTracking`, two levels of two sides give neighbours for a wrong
match, and two ids an orphan next to a trade; the levels 1 and 4 with an offset of 1
are the nearest that are `Separated`, and give four fill prices, each of which another
order may get by a gap; the cap is a fault rather than a number, so that it may be met
at any time. Six sets of faults cover each property's condition as a whole. In `SessionPnl`, limits 2, 2 and 3 let
a session's loss tip the day's, money runs from -3 to 3 and days from 0 to 2: a
halt, its next day and one more. `View` leaves out of a state's identity the
figures that the next summary read overwrites before anything reads them. In
`SlidingGrid` the window is the code's 2 ahead and 1 behind; price covers three
levels above the anchor and one below, so that price may run past the caps,
return, and run the other way; `Reach` 4 keeps one level beyond price's range on
each side, and its end is reached by the window. `DoublingGrid` runs with the two
outer levels, which compete for the one doubled position; an inner level is an
outer one that never doubles, and multiplies the states. `WhipsawLimit`
2 lets a level be filled, released and filled again; `MaxRetries` 2 a retry fail
before the breaker.

`Backtest` replays up to three bars (two in `MCBacktestWeb`), each of them wide, a
gap down or a gap up: three are enough for an order to rest on one bar, fill on the
next and stop out on the last, at its stop or at the open of a gap. Two keys are a
pair, or an order next to a trade; ids are not bounded, as forgotten ones are used
again (`Fresh`). `MaxDrain` is 2 instead of `_MAX_SIGNAL_DRAIN`, so that the
cap is met. Prices are multiples of 12 and friction is 6, so that the average cost of
up to three units is whole; the limits of the risk engine are small enough for each
rule to refuse something. `BacktestJobs` has six bars with a weekend among them,
three ranges of which one has no bar, and pages of two candles, so that a download
takes several pages and may end between two of them; two workers, three tasks and
one kept result (the code keeps 100) let a task be queued behind two others and be
displaced.

**Symmetry** is used on ids in `FillTracking` only.
**Deadlock** is checked in `FillTracking`, `SessionPnl` and `SlidingGrid`; the
engines of `CloseAll` and `DoublingGrid` stop, the server of `BotLifecycle` shuts
down, a replay ends and the tasks of `BacktestJobs` run out, so their runs turn it off.

**Fairness.** `CloseAll`: the engine's thread and clock go on (weak); the calls a
liquidation repeats until they answer do not fail for ever (strong): an outage
ends. Closes and cancels may fail for ever: the breaker ends the liquidation.
`BotLifecycle`: each thread that can step does (weak fairness of the operating
system's scheduler) and a looping engine reaches its exit test; no user is assumed
to stop or start anything. `Backtest` is a single thread that goes on (weak fairness
of its steps). `BacktestJobs`: each task's thread does (weak), but no bot is assumed to
end, and nobody to submit anything. The other modules state safety only.

## Proofs

All hold for every value of the constants, from the `ASSUME` each module states
about them (TLC checks those on every run). Where a property names faults or
`cancelsWork`, the theorem is about all behaviours and the condition is part of
the property.

`CloseAll_proof`: `TypeOK`, `BreakerHolds`, `FlatWithoutSession` and the
refinement of `Liquidation`. `FlatWithoutSession` is not inductive: between the
cancel and the hand-over nothing but the trades of the account may be left and no
order may be placed. The invariant says, for each `pc`, what has been emptied by
then. `BreakerHolds` needs that no attempt is under way once the count is at its
limit.

`BotLifecycle_proof`: `TypeOK`, `SessionHasRunner`, `NoLeakedConnection`. The
strengthening counts which thread holds which engine and that a runner submitted
for a user is queued after the session it was submitted for.

`FillTracking_proof`: `TypeOK` and all six properties of the table.
* `BooksAgree` needs that the new trades of a poll are not mapped yet (`OnOffer`) and
  that ids handed to the engine are fresh.
* `Sound` ties the maps to the strategy's books: an order that a key waits for was
  placed for that key, a tracked trade is a filled key's, and what a poll took over
  is no longer handed over. `Trimming` then gives `TrimmedIsClosed`.
* `Right` gives `RightKey`: while the broker moves between polls only, the trades on
  offer and the gone orders of a side are those of the same keys, and the nearest
  trade of a gone order is its own (`NearestIsOwn`): it was filled the offset away from
  its level at most, and by `Separated` every other of the side farther. That a nearest
  one exists is the least-element lemma over distances.
* `Known` gives `KeepsTrack`. With whipsaws, expiries and gapped fills a trade may be matched with
  another key's order, so no invariant can name the order of a trade: what is kept is
  that *some* pairing of the trades on offer with gone orders of their sides exists
  (`KnownPairs`), and each match, right or wrong, leaves one for the rest.
* `NoDoubleExposure` follows from `Single`: when only closes fail, every id in use is in
  one of the maps at every moment.
* `PlacedIsBacked` is proved of the behaviours that never meet the open-trades cap
  (`[]~capped`), which the run arranges by its value of `MaxOpenTrades`; the cap makes
  the engine drop a signal whose key stays taken.

`SessionPnl_proof`: `TypeOK` and all five action properties. The invariant has
five parts: which flags go with which `pc` (`Shape`), what a halted strategy looks
like (`Halted`), that the days of engine and strategy agree unless bars lag
(`DaysInStep`), that the balance between two records is accounted for (`Banked`),
and that the baseline is the present grid's from `grid_initialized` on
(`Baseline`).

`SlidingGrid_proof`: `TypeOK`, `NothingForgotten`, `RetiredStaysShut`, `AnchorRides`
and `BoundedFootprint`, each whatever trades the engine takes for whose fills.
`NothingForgotten` needs that a poll never runs out of vanished orders while there are
trades it has not seen (`Tracking`): before and in the poll, some pairing gives each
such trade a vanished order of its side, at first its own; a match takes one of each
side and leaves a pairing for the rest. `RetiredStaysShut` needs that what is left of a
retired level has been handed over (`Shut`); `AnchorRides` that no key of the anchor
ever is (`AnchorKept`). `BoundedFootprint` is counting: a window over a sorted ladder
holds no more levels than its two slices, and of the levels that a sort-and-slice leaves
beyond a cap, as many stay as the cap allows, whatever the order of the ties.

`DoublingGrid_proof`: `TypeOK`, which holds the breaker's count at its limit, and all
four properties of the table. For `ExitHoldsUnlessLost`, what a callback may do to an
exit and to the levels is one relation (`Later`: it places nothing and keeps a pending
exit pending), shown of every callback and closed under composition; the invariant is
`ExitOnItsWay`: an exit that has been asked for is pending, in progress or the FLAT
signal of the cycle. `Hedged`, `OneOfEach` and `DoubledBacked` have one invariant,
`Books`: the engine's maps cover the account (`Broker`), a level has one order or
trades and both are booked (`LevelBooks`, of the levels that no refused doubled order
has released: `Clean`), nothing but the doubled level has a doubled order
(`DoubledBooks`), and the pair of the doubled level stands (`PairStands`).

`BacktestJobs_proof`: `TypeOK`, `ResultIsKept`, `RangeIsServed` and
`CoverageHasNoHole`. The registry's invariant ties it to the tasks (`Known`: a task is
called running exactly until it ends, and none is forgotten before) and the queue to
the tasks that have not started (`Queued`: once each); then what an eviction drops has
at least `MaxCompleted` later ones among the completed (`EvictionIsFair`, by counting).
The store's is `StoreInv`: without parted downloads the stored bars have no hole, what
was downloaded whole is stored, and a task at each of its places has what it will need
there (`Served`). What the paged download fetches is defined by recursion on its pages;
that it is exactly the bars of the range (`DownloadedIsSpan`) is shown from the smallest
range of which it would not be. The ranges must be pairs that differ from `None`
(`BacktestJobs`' assumptions), which any model value gives.

`Backtest_proof`, of any finite sets of bars, prices and frictions, any keys and limits:
* `BooksFollow`, in every set-up: every order and trade of the broker is known to the
  runner under its key until its end has been handled (`OrdersKnown`, `TradesKnown`), a
  key has one use at a time (`KeysApart`), and the strategy's books say which
  (`BooksHeld`). Each of the twenty steps of a grid replay is a lemma of its own.
* `OvershootIsBounded`, in every set-up: an order adds to a position below the limit, or
  reduces it. This is less than the limit that `domain/risk/engine.py` 24 promises (see
  below), and no run checks it.
* `Reconciles` and `FlattenReconciles`, for replays set up as the command line's: capital
  is the initial one less commissions, with what is banked and the P&L of the ends not
  handled yet (`Money`). Sums over open trades and over ends are folds in an order that
  CHOOSE fixes; what adding, changing or removing one term does to them is proved first,
  for any finite set, from a smallest set on which it would fail. The run `MCBacktestWeb`
  shows that the condition on `Setups` is needed.
* `ImplementsAccount`, for the same replays: initial states and steps of `Backtest` map to
  those of `Account`. That a fill is at a price the bar offers needs that stops lie within
  the prices that are possible (`Ordinary`), and that a close is worth what the mapping
  says, the sums above. In a simple replay the position's average cost is a quotient: the
  code's is a fraction, the model's an integer, so the theorem is about behaviours whose
  averages are whole (`WholeAverages`), as all those of `MCBacktest` are by its choice of
  prices and sizes. In a grid replay no average enters the mapping.
* Of `WalkForward`: no test bar has been trained on (`TestsAreUnseen`), a winner qualifies
  if anything does (`WinnersQualify`), and exactly when the chained curve is continuous
  (`CurveIsContinuousExactlyIf`).

**Only model-checked.** Every invariant and action property that a passing run checks is the
conclusion of a theorem. The liveness properties are not: `LiquidationEnds`,
`EndedRunFreesSlot`, `StoppedEngineEnds`, `ShutdownCompletes`, `ReplayEnds` and
`BacktestEnds` rest on fairness, which the prover does not handle. Induction theorems over
data are out of its reach too; where a proof needs one, it takes a smallest counterexample
instead.

## Findings

The violation runs document where the code does something else than its comments
or docstrings say; `PROJECT.json` quotes both sides. `ENG` is
`engine/trading_engine.py`, `GRID` `domain/strategy/ciby_sliding_grid.py`.

Seen while modelling, and left without a run of their own:

* A failed `cancel_all_orders` is swallowed (ENG 1084), so orders may survive the
  hand-over although GRID 766-771 says "so the bot is genuinely flat".
* The residual-trades path of a close-all counts a failure without setting the
  back-off (ENG 1147-1154) that ENG 1058-1060 describes.
* The runner's `finally` reads the session and stops the user's bot in two calls
  (`web/routers/bot/_common.py` 48-50); a restart in between is stopped.
* A `stop()` before `run()` is lost: `run()` sets `_running` (ENG 259).
* A fill is whose level is nearest among those that are gone (ENG 837-861). ENG 837 says
  "Match by side + price proximity (handles multiple same-side fills)", but two orders of
  a side that a gap fills at one price may be swapped, and so may two that fill at their
  entries when `buy_sell_offset` is half the spacing or more, which the ranges of
  `docs/strategies.md` allow. A whipsawed order takes the nearest new trade of its side,
  however far. When one of two swapped trades is stopped out, the other's key is
  released and placed again over its open trade.
* The opposite market order is tried once (ENG 979-987): when it fails, the level
  stays one-sided and, as its pair never closes on both sides, is never released.
* A rejected doubled order takes its level's pair for gone (DBL 339-342) and leaves
  `_doubled_active` set: the level is placed again over its open pair, and no
  doubling comes in that session. `DBL` is `domain/strategy/ciby_hedged_doubling_grid.py`.
* A doubled fill that is reported when its level has been placed again counts as
  the level's first fill (DBL 260).
* The trailing stop of the doubled position is armed when price difference times
  units reaches the spacing (ENG 1581-1588); `docs/user/trading-concepts.md` 135-136
  says "once the price moves favourably by one grid spacing".
* A read that fails after `generate()` drops the signals of the cycle (ENG 1776)
  and leaves their levels "placed"; a failed close of a trimmed trade is not
  retried (ENG 1502); a fill that nets an opposite trade is reported as a fill
  although it opens none (ENG 2127).
* A liquidation that finds nothing to close (ENG 1087-1099) moves neither the
  baseline nor `_grid_logged`, so the next grid's P&L starts from the old one.
* The engine turns the day by the clock (ENG 1648), the strategy by the last
  completed bar (GRID 331): a halt between the two is undone by the first bar of
  the new day, although GRID 354-358 says a fresh session can never open on a day
  the limit has already breached.
* `grid_initialized` fires once on the ladder of a paused day, so the next day's
  fresh grid is not logged and not re-anchored (ENG 1721-1749).
* The window counts levels on each side of price, the trim levels on each side of
  the anchor: a level inside the window may be retired for good, and retired
  levels keep their places in the window, so that after a reversal no order may
  rest where price is headed (GRID 509-511 promises both).
* Two runners of one user look the session up by user
  (`web/routers/bot/_common.py` 35), so after a stop and a restart both may run the
  one new engine, on two threads; `_bot_sessions.py` 30 speaks of "One user's running
  bot session".
* A closing balance that cannot be read leaves the baseline behind (ENG 1178), and the
  next grid is liquidated for the last session's P&L, although ENG 1179-1182 says
  that a missed read cannot carry it forward. Taking the fault `read` out of the
  condition of `ExitIsOwnUnlessUnread` makes TLC show it.
* `download-data` fetches any range (`backtest/cli.py` 273-291) without the coverage
  check of `docs/backtesting.md` 235-237. A range apart from what is stored leaves a
  hole, and the hole is later taken for covered; so do two first downloads of ranges
  apart that run at once. In `BacktestJobs` this is `Parted`.
* Eviction goes by creation (`web/tasks.py` 120): a long task that ends after a
  hundred later ones is dropped at its own completion. `ResultIsKept` is what is left.
* A replay ends one bar early: `is_exhausted` holds as soon as the last bar is current
  (`adapters/backtest/market_data.py` 47-49), which is never replayed.
* In a simple replay the daily-loss rule sees the position as it was last saved, the
  trades-per-day rule counts the trades of the wall clock's day and so none.
* `domain/risk/engine.py` 24 says of the position limit "reject if resulting position
  would exceed limit". The rule (131) looks at the position before the order, whose size
  and direction it does not know: an order may pass the limit by up to its own size, and
  at the limit none may reduce the position either.
* `docs/user/getting-started.md` 140 says that stopping leaves open trades as they are;
  `web/templates/partials/bot_running.html` 81 asks to confirm that it "will close all
  positions". It leaves them (ENG 476-488).
* `metrics.py` 52 says "after commission"; the P&Ls it is given exclude it.
* The chained curve of a walk-forward is continuous at its first seam only
  (`backtest/walk_forward.py` 227-228; `CurveIsContinuousExactlyIf`).
* The web's runner hands no `trade_pnls` on (`web/_run_helpers.py` 267-276).
* Submissions through the API pass no credential store
  (`web/routers/backtest/api.py` 68, 110, 152) and so download with the server's own
  credentials, which `_run_helpers.py` says web flows never do.
* Shutdown closes the credential store before it ends the pool (`web/app.py` 113-117),
  so a task that has still to connect to OANDA fails.

## Not modelled

Web pages, schemas, settings, storage of single rows, logging, configuration and
the numeric reports of backtests have no behaviour over time to check. Login
sessions are single-row lookups and a redirect to an identity provider, and the rate
limiter is settings of a library; neither is read by the trading core. The paper
broker has the position arithmetic of `UpdatePosition` and fills at once. The CSV
store of bars is used by its tests only.

Within the modelled parts, what the runs leave out is the deferred trailing stop (the
engine's and, in a replay, the one the simulated broker does not simulate), the
doubling grid's software take profit (which its broker-side one makes unreachable),
the open-trades cap in `DoublingGrid`, the kill switch, which nothing sets in a
backtest, the repository's writes and the trade records of a result.
