------------------------------ MODULE Backtest ------------------------------
(***************************************************************************)
(* BacktestRunner replaying bars through a strategy against                *)
(* SimulatedBrokerAdapter: the order of stops, fills, callbacks, signals   *)
(* and trims within a bar, and the money that comes of them.               *)
(*                                                                         *)
(* One loop iteration of the code that fills or closes one trade is one    *)
(* step; the loops' order within one list is left open.  The strategy is   *)
(* what both grid strategies are to the runner: it asks for an entry at a  *)
(* key it holds free, hands over keys to be trimmed, and asks for a        *)
(* close-all until it is told that it is done.  An entry still waiting in  *)
(* its own queue is one it has not asked for yet.  Prices are integers,    *)
(* fine enough that average costs are whole.                               *)
(***************************************************************************)
EXTENDS Integers, FiniteSetsExt

CONSTANTS
  Keys,                   \* grid keys: a level and a side
  Side,                   \* of each key: "BUY" or "SELL"
  None,
  Bars, Prices, StopGap,  \* bars; entry prices; how far a stop is from its entry
  Frictions,              \* half the spread, and every slippage on top of it
  Commission, InitialCapital, PositionSize,
  MaxDrain,               \* _MAX_SIGNAL_DRAIN
  Setups,                 \* the ways a replay may be set up: see CommandLine, Web
  \* RiskEngine's limits
  MaxPosition, MaxDailyLoss, MaxTradesPerDay, RequireStopLoss,
  MaxDrawdownPct, MaxConsecutiveLosses,
  TotalSteps              \* bound: bars replayed

ASSUME BacktestConstants ==
  /\ Side \in [Keys -> {"BUY", "SELL"}] /\ None \notin Keys
  /\ Bars \subseteq [open : Nat, high : Nat, low : Nat, close : Nat]
  /\ \A b \in Bars : b.low <= b.open /\ b.low <= b.close /\ b.open <= b.high /\ b.close <= b.high
  /\ Prices \subseteq Nat /\ StopGap \in Nat \ {0} /\ Frictions \subseteq Nat
  /\ Commission \in Nat /\ InitialCapital \in Nat /\ PositionSize \in Nat \ {0}
  /\ MaxDrain \in Nat \ {0} /\ Setups \subseteq [stateful : BOOLEAN, gridMode : BOOLEAN]
  /\ MaxPosition \in Nat \ {0} /\ MaxDailyLoss \in Nat \ {0} /\ MaxTradesPerDay \in Nat
  /\ RequireStopLoss \in BOOLEAN
  /\ MaxDrawdownPct \in Nat /\ MaxConsecutiveLosses \in Nat \ {0}
  /\ TotalSteps \in Nat
  /\ IsFiniteSet(Bars) /\ IsFiniteSet(Prices) /\ IsFiniteSet(Frictions) /\ Frictions # {}

VARIABLES
  setup,
  \* the replay: bars left, the current bar and the place in the step
  left, bar, pc,
  \* SimulatedBrokerAdapter: _capital, _total_commission, _positions,
  \* _pending_orders and _open_trades by broker id
  capital, fees, position, pending, trades,
  \* BacktestRunner: _pending_order_map, the opposite key in _pending_order_meta,
  \* _grid_trade_map, _peak_equity; of _trade_pnls the sum and the losses at its end
  pendingMap, meta, tradeMap, peak, banked, losses,
  saved,        \* the position in the repository: its quantity and its P&L
  \* one step: newly_filled, newly_closed, signal_count
  newlyFilled, newlyClosed, signalCount,
  \* the strategy: what it holds each key for, and a close-all it has asked for
  books, closing,
  dropped       \* history: keys whose signal was generated past the cap

replayVars == <<left, bar, pc>>
moneyVars  == <<capital, fees, position>>
runnerVars == <<pendingMap, meta, tradeMap>>
tallyVars  == <<banked, losses>>
stepVars   == <<newlyFilled, newlyClosed, signalCount>>
bookVars   == <<books, closing, dropped>>
vars == <<setup, replayVars, moneyVars, pending, trades, runnerVars, peak, tallyVars,
          saved, stepVars, bookVars>>
-----------------------------------------------------------------------------
(***************************************************************************)
(* How the entry points set up a replay: stateful strategies are replayed  *)
(* in the runner's grid mode, gridMode is the broker's.  The risk engine   *)
(* is enabled for the stateless ones, and never asked about the others.    *)
(***************************************************************************)
CommandLine == {[stateful |-> s, gridMode |-> s] : s \in BOOLEAN}

\* The broker is built without grid_mode.
Web == {[stateful |-> s, gridMode |-> FALSE] : s \in BOOLEAN}

\* each parameter combination of a sweep, each test of a walk-forward window
Sweep == CommandLine
WalkForwardTest == CommandLine

Opposite(side) == IF side = "BUY" THEN "SELL" ELSE "BUY"
Sign(side) == IF side = "BUY" THEN 1 ELSE -1

With(f, x, value) == [y \in DOMAIN f \cup {x} |-> IF y = x THEN value ELSE f[y]]
Without(f, x) == [y \in DOMAIN f \ {x} |-> f[y]]
Values(f) == {f[x] : x \in DOMAIN f}

\* A broker id that nothing refers to.
Used == DOMAIN pending \cup DOMAIN trades \cup Values(pendingMap) \cup Values(tradeMap)
Fresh == Min((1 .. Cardinality(Used) + 1) \ Used)
-----------------------------------------------------------------------------
(***************************************************************************)
(* SimulatedBrokerAdapter.                                                 *)
(***************************************************************************)
\* _apply_friction: a buy fills higher, a sell lower.
ApplyFriction(side, base, f) == base + Sign(side) * f

FillPrice(side, f) == ApplyFriction(side, bar.close, f)

Pnl(trade, price) == Sign(trade.side) * trade.qty * (price - trade.open)

NoPosition == [qty |-> 0, cost |-> 0, realized |-> 0]

\* _update_position: the average of what is added, the first cost of what is
\* reduced, the fill price of what is flipped; the closed part realizes P&L.
UpdatePosition(side, qty, price) ==
  LET held   == Sign(side) * position.qty
      closes == IF held >= 0 THEN 0 ELSE Min({qty, -held}) IN
  [ qty |-> position.qty + Sign(side) * qty,
    cost |-> IF held >= 0 THEN (held * position.cost + qty * price) \div (held + qty)
             ELSE IF held + qty > 0 THEN price
             ELSE IF held + qty < 0 THEN position.cost ELSE 0,
    realized |-> position.realized - Sign(side) * closes * (price - position.cost) ]

\* _fill_market_order, for the trade it appends
FillMarket(id, key, side, qty, stop, price) ==
  LET after == IF setup.gridMode THEN position ELSE UpdatePosition(side, qty, price) IN
  /\ position' = after
  /\ capital' = capital - Commission + (after.realized - position.realized)
  /\ fees' = fees + Commission
  /\ trades' =
       With(trades, id, [key |-> key, side |-> side, qty |-> qty, open |-> price, stop |-> stop])

\* _place_pending_order, with the key the runner stamps on it
PlacePending(id, key, qty, price, isStop, stop) ==
  pending' = With(pending, id, [key |-> key, side |-> Side[key], qty |-> qty, price |-> price,
                                isStop |-> isStop, stop |-> stop])

\* close_trade, at a price; the position of the other mode is not touched
CloseTrade(id, price) ==
  /\ capital' = capital + Pnl(trades[id], price)
  /\ trades' = Without(trades, id)
  /\ UNCHANGED <<fees, position>>

CloseAtMarket(id, f) == CloseTrade(id, FillPrice(Opposite(trades[id].side), f))

\* The stop-losses the bar has touched, and the price each exits from: a bar that
\* opens beyond a stop fills at its open.
StopTouched(trade) ==
  /\ trade.stop # None
  /\ IF trade.side = "BUY" THEN bar.low <= trade.stop ELSE bar.high >= trade.stop

\* Mutant: a stop is filled at its price however far the bar has gapped.
StopBaseNoGap(trade) == trade.stop

StopBase(trade) ==
  IF trade.side = "BUY" THEN Min({trade.stop, bar.open}) ELSE Max({trade.stop, bar.open})

\* The resting entries the bar has reached: a limit on the far side of the market
\* by a favourable move, a stop by a breakout.
Triggered(order) ==
  IF (order.side = "BUY") = order.isStop THEN bar.high >= order.price
                                         ELSE bar.low <= order.price

EntryBase(order) ==
  IF ~order.isStop THEN order.price
  ELSE IF order.side = "BUY" THEN Max({order.price, bar.open})
                             ELSE Min({order.price, bar.open})

Marks == SumFunction([i \in DOMAIN trades |-> Pnl(trades[i], bar.close)])
NetMark == position.qty * (bar.close - position.cost)

Equity == capital + (IF setup.gridMode THEN Marks ELSE NetMark)
-----------------------------------------------------------------------------
Init ==
  /\ setup \in Setups
  /\ left \in 0 .. TotalSteps /\ bar \in Bars /\ pc = "next"
  /\ capital = InitialCapital /\ fees = 0 /\ position = NoPosition
  /\ pending = <<>> /\ trades = <<>>
  /\ pendingMap = <<>> /\ tradeMap = <<>> /\ meta = [k \in Keys |-> None]
  /\ peak = InitialCapital /\ banked = 0 /\ losses = 0
  /\ saved = [qty |-> 0, pnl |-> 0]
  /\ newlyFilled = {} /\ newlyClosed = {} /\ signalCount = 0
  /\ books = [k \in Keys |-> "free"] /\ closing = FALSE /\ dropped = {}

(***************************************************************************)
(* BacktestRunner.run: one bar after the other.                            *)
(***************************************************************************)
NextBar ==
  /\ pc = "next" /\ left > 0
  /\ bar' \in Bars
  /\ pc' = IF setup.stateful THEN "stops" ELSE "signal"
  /\ UNCHANGED <<setup, left, moneyVars, pending, trades, runnerVars, peak, tallyVars,
                 saved, stepVars, bookVars>>

\* The equity of the step, its peak, and advance().
Record ==
  /\ pc = "record"
  /\ peak' = Max({peak, Equity})
  /\ left' = left - 1 /\ pc' = "next"
  /\ UNCHANGED <<setup, bar, moneyVars, pending, trades, runnerVars, tallyVars, saved,
                 stepVars, bookVars>>

Exhausted ==
  /\ pc = "next" /\ left = 0
  /\ pc' = IF setup.stateful THEN "end" ELSE "done"
  /\ UNCHANGED <<setup, left, bar, moneyVars, pending, trades, runnerVars, peak, tallyVars,
                 saved, stepVars, bookVars>>

\* Appending to _trade_pnls.
Bank(pnl) ==
  /\ banked' = banked + pnl
  /\ losses' = IF pnl >= 0 THEN 0 ELSE Min({losses + 1, MaxConsecutiveLosses})
-----------------------------------------------------------------------------
(***************************************************************************)
(* A grid step: SimulatedBrokerAdapter.process_bar.                        *)
(***************************************************************************)
StopOut(id, f) ==
  LET price == ApplyFriction(Opposite(trades[id].side), StopBase(trades[id]), f) IN
  /\ pc = "stops" /\ StopTouched(trades[id])
  /\ CloseTrade(id, price)
  /\ newlyClosed' = newlyClosed \cup {[id |-> id, pnl |-> Pnl(trades[id], price)]}
  /\ UNCHANGED <<setup, replayVars, pending, runnerVars, peak, tallyVars, saved,
                 newlyFilled, signalCount, bookVars>>

StopsDone ==
  /\ pc = "stops" /\ \A id \in DOMAIN trades : ~StopTouched(trades[id])
  /\ pc' = "entries"
  /\ UNCHANGED <<setup, left, bar, moneyVars, pending, trades, runnerVars, peak, tallyVars,
                 saved, stepVars, bookVars>>

\* A fill of a resting entry is a new trade, whose own stop this bar has passed by;
\* it moves no position.
Enter(id, f) ==
  LET order == pending[id]
      fill  == [key |-> order.key, side |-> order.side, qty |-> order.qty,
                open |-> ApplyFriction(order.side, EntryBase(order), f), stop |-> order.stop]
  IN
  /\ pc = "entries" /\ Triggered(order)
  /\ pending' = Without(pending, id)
  /\ trades' = With(trades, Fresh, fill)
  /\ newlyFilled' = newlyFilled \cup {Fresh}
  /\ capital' = capital - Commission /\ fees' = fees + Commission
  /\ UNCHANGED <<setup, replayVars, position, runnerVars, peak, tallyVars, saved,
                 newlyClosed, signalCount, bookVars>>

EntriesDone ==
  /\ pc = "entries" /\ \A id \in DOMAIN pending : ~Triggered(pending[id])
  /\ pc' = "fills"
  /\ UNCHANGED <<setup, left, bar, moneyVars, pending, trades, runnerVars, peak, tallyVars,
                 saved, stepVars, bookVars>>

(***************************************************************************)
(* _handle_fills and _handle_closures: the strategy hears of the fills     *)
(* first, although the broker took the stops first.                        *)
(***************************************************************************)
\* report_fill and report_trade_closed, as the strategy's books show them.
Reported(key, state) == [books EXCEPT ![key] = state]

\* _handle_fills, of a trade whose order had no opposite
HandleFill(id) ==
  LET key == trades[id].key IN
  /\ pc = "fills" /\ id \in newlyFilled /\ meta[key] = None
  /\ newlyFilled' = newlyFilled \ {id}
  /\ pendingMap' = Without(pendingMap, key)
  /\ tradeMap' = With(tradeMap, key, id)
  /\ books' = Reported(key, "filled")
  /\ UNCHANGED <<setup, replayVars, moneyVars, pending, trades, meta, peak, tallyVars,
                 saved, newlyClosed, signalCount, closing, dropped>>

\* ... and of one that had: _place_opposite_market_order
HandlePairedFill(id, f) ==
  LET key   == trades[id].key
      other == meta[key]
      side  == Opposite(trades[id].side)
  IN
  /\ pc = "fills" /\ id \in newlyFilled /\ meta[key] # None
  /\ newlyFilled' = newlyFilled \ {id}
  /\ pendingMap' = Without(pendingMap, key)
  /\ FillMarket(Fresh, other, side, trades[id].qty, None, FillPrice(side, f))
  /\ tradeMap' = With(With(tradeMap, other, Fresh), key, id)
  /\ meta' = [meta EXCEPT ![key] = None]
  /\ books' = [books EXCEPT ![key] = "filled", ![other] = "filled"]
  /\ UNCHANGED <<setup, replayVars, pending, peak, tallyVars, saved, newlyClosed,
                 signalCount, closing, dropped>>

FillsDone ==
  /\ pc = "fills" /\ newlyFilled = {}
  /\ pc' = "closures"
  /\ UNCHANGED <<setup, left, bar, moneyVars, pending, trades, runnerVars, peak, tallyVars,
                 saved, stepVars, bookVars>>

\* The key _grid_trade_map has for a trade, if any.
KeysOf(id) == {k \in DOMAIN tradeMap : tradeMap[k] = id}

\* report_trade_closed, _trade_pnls and _grid_trade_map, for a trade that has a key
ReportClosed(id, pnl) ==
  IF KeysOf(id) = {} THEN UNCHANGED <<tallyVars, tradeMap, books, dropped>>
  ELSE LET key == CHOOSE k \in KeysOf(id) : TRUE IN
       /\ Bank(pnl)
       /\ tradeMap' = Without(tradeMap, key)
       /\ books' = Reported(key, "free") /\ dropped' = dropped \ {key}

\* Mutant: the P&L of a stopped trade is not banked.
HandleClosureUnbanked(closed) ==
  /\ pc = "closures" /\ closed \in newlyClosed
  /\ newlyClosed' = newlyClosed \ {closed}
  /\ tradeMap' = [k \in DOMAIN tradeMap \ KeysOf(closed.id) |-> tradeMap[k]]
  /\ books' = [k \in Keys |-> IF k \in KeysOf(closed.id) THEN "free" ELSE books[k]]
  /\ UNCHANGED <<setup, replayVars, moneyVars, pending, trades, pendingMap, meta, peak,
                 tallyVars, saved, newlyFilled, signalCount, closing, dropped>>

HandleClosure(closed) ==
  /\ pc = "closures" /\ closed \in newlyClosed
  /\ newlyClosed' = newlyClosed \ {closed}
  /\ ReportClosed(closed.id, closed.pnl)
  /\ UNCHANGED <<setup, replayVars, moneyVars, pending, trades, pendingMap, meta, peak,
                 saved, newlyFilled, signalCount, closing>>

ClosuresDone ==
  /\ pc = "closures" /\ newlyClosed = {}
  /\ pc' = "drain" /\ signalCount' = 0
  /\ UNCHANGED <<setup, left, bar, moneyVars, pending, trades, runnerVars, peak, tallyVars,
                 saved, newlyFilled, newlyClosed, bookVars>>

(***************************************************************************)
(* The signals of a step, up to the cap.                                   *)
(***************************************************************************)
\* Mutant: the loop ends only when the strategy has no more signals.
DrainWithoutCap == pc = "drain"

\* The count stops at the cap, past which it is not read.
Counted == Min({signalCount + 1, MaxDrain})

Draining == pc = "drain" /\ signalCount < MaxDrain
CapReached == pc = "drain" /\ signalCount = MaxDrain

\* The entries a grid strategy may ask for: at a key it holds free, off the market,
\* and not while it waits for a close-all.  A resting entry has a stop, or an opposite
\* and takes both keys of its level; the anchor's market entries have one, the doubled
\* one has none.
MayAskFor(key) == ~closing /\ books[key] = "free"

MayRest(key, price, other) ==
  /\ MayAskFor(key) /\ price # bar.close
  /\ other # None => MayAskFor(other) /\ Side[other] # Side[key]

StopFor(side, price, stopped) ==
  IF stopped THEN price - Sign(side) * StopGap ELSE None

\* _order_type_for: a stop if the entry is beyond the market, else a limit.
IsStop(side, price) == (side = "BUY") = (price > bar.close)

Held(keys) == [k \in Keys |-> IF k \in keys THEN "placed" ELSE books[k]]

\* _process_grid_signal, of a LIMIT or STOP entry
PlaceResting(key, price, other) ==
  /\ Draining /\ MayRest(key, price, other)
  /\ PlacePending(Fresh, key, PositionSize, price, IsStop(Side[key], price),
                  StopFor(Side[key], price, other = None))
  /\ pendingMap' = With(pendingMap, key, Fresh)
  /\ meta' = [meta EXCEPT ![key] = other]
  /\ books' = Held({key, other})
  /\ signalCount' = Counted
  /\ UNCHANGED <<setup, replayVars, moneyVars, trades, tradeMap, peak, tallyVars, saved,
                 newlyFilled, newlyClosed, closing, dropped>>

\* ... of a MARKET entry
PlaceMarket(key, stopped, f) ==
  /\ Draining /\ MayAskFor(key)
  /\ FillMarket(Fresh, key, Side[key], PositionSize, StopFor(Side[key], bar.close, stopped),
                FillPrice(Side[key], f))
  /\ tradeMap' = With(tradeMap, key, Fresh)
  /\ books' = Reported(key, "filled")
  /\ signalCount' = Counted
  /\ UNCHANGED <<setup, replayVars, pending, pendingMap, meta, peak, tallyVars, saved,
                 newlyFilled, newlyClosed, closing, dropped>>

\* ... of a FLAT: _close_all_trades, first the orders
BeginCloseAll ==
  /\ Draining
  /\ closing' = TRUE
  /\ pending' = <<>> /\ pendingMap' = <<>> /\ meta' = [k \in Keys |-> None]
  /\ pc' = "closing"
  /\ UNCHANGED <<setup, left, bar, moneyVars, trades, tradeMap, peak, tallyVars, saved,
                 stepVars, books, dropped>>

\* ... then each trade
CloseOne(id, f) ==
  /\ pc = "closing" /\ id \in DOMAIN trades
  /\ CloseAtMarket(id, f)
  /\ ReportClosed(id, Pnl(trades[id], FillPrice(Opposite(trades[id].side), f)))
  /\ UNCHANGED <<setup, replayVars, pending, pendingMap, meta, peak, saved, stepVars, closing>>

\* ... and notify_close_all_complete.
EndCloseAll ==
  /\ pc = "closing" /\ trades = <<>>
  /\ tradeMap' = <<>>
  /\ closing' = FALSE /\ books' = [k \in Keys |-> "free"] /\ dropped' = {}
  /\ signalCount' = Counted /\ pc' = "drain"
  /\ UNCHANGED <<setup, left, bar, moneyVars, pending, trades, pendingMap, meta, peak,
                 tallyVars, saved, newlyFilled, newlyClosed>>

\* The signal generated after the last one allowed is lost: an entry the strategy
\* counts as placed, or a FLAT it will ask for again.
DropSignal(key, other) ==
  /\ CapReached
  /\ \/ /\ MayAskFor(key) /\ (other # None => MayAskFor(other) /\ Side[other] # Side[key])
        /\ books' = Held({key, other}) /\ dropped' = dropped \cup ({key, other} \ {None})
        /\ UNCHANGED closing
     \/ closing' = TRUE /\ UNCHANGED <<books, dropped>>
  /\ pc' = "trim"
  /\ UNCHANGED <<setup, left, bar, moneyVars, pending, trades, runnerVars, peak, tallyVars,
                 saved, stepVars>>

\* generate() returns None; a strategy that waits for a close-all asks for it again.
NoSignal ==
  /\ pc = "drain" /\ ~closing
  /\ pc' = "trim"
  /\ UNCHANGED <<setup, left, bar, moneyVars, pending, trades, runnerVars, peak, tallyVars,
                 saved, stepVars, bookVars>>

\* generate() hands over a key, resting or filled, which the sliding grid has
\* retired or retracted; it knows of no opposites.
Retire(key) ==
  /\ pc = "drain" /\ ~closing
  /\ books[key] \in {"placed", "filled"} /\ meta[key] = None /\ key \notin Values(meta)
  /\ books' = Reported(key, "leaving")
  /\ UNCHANGED <<setup, replayVars, moneyVars, pending, trades, runnerVars, peak, tallyVars,
                 saved, stepVars, closing, dropped>>

(***************************************************************************)
(* _handle_levels_to_close: an order still resting at the key is           *)
(* cancelled, an open trade is closed.                                     *)
(***************************************************************************)
\* Mutant: an order is left resting.
CancelOrderLeft(key) == UNCHANGED <<pendingMap, pending>>

CancelOrder(key) ==
  IF key \in DOMAIN pendingMap
  THEN pendingMap' = Without(pendingMap, key) /\ pending' = Without(pending, pendingMap[key])
  ELSE UNCHANGED <<pendingMap, pending>>

TrimOrder(key) ==
  /\ pc = "trim" /\ books[key] = "leaving" /\ key \notin DOMAIN tradeMap
  /\ CancelOrder(key)
  /\ books' = Reported(key, "free") /\ dropped' = dropped \ {key}
  /\ UNCHANGED <<setup, replayVars, moneyVars, trades, meta, tradeMap, peak, tallyVars, saved,
                 stepVars, closing>>

TrimTrade(key, f) ==
  /\ pc = "trim" /\ books[key] = "leaving" /\ key \in DOMAIN tradeMap
  /\ LET id == tradeMap[key] IN
     /\ CloseAtMarket(id, f)
     /\ Bank(Pnl(trades[id], FillPrice(Opposite(trades[id].side), f)))
  /\ CancelOrder(key)
  /\ tradeMap' = Without(tradeMap, key)
  /\ books' = Reported(key, "free") /\ dropped' = dropped \ {key}
  /\ UNCHANGED <<setup, replayVars, meta, peak, saved, stepVars, closing>>

TrimsDone ==
  /\ pc = "trim" /\ \A k \in Keys : books[k] # "leaving"
  /\ pc' = "record"
  /\ UNCHANGED <<setup, left, bar, moneyVars, pending, trades, runnerVars, peak, tallyVars,
                 saved, stepVars, bookVars>>

(***************************************************************************)
(* _close_open_positions_at_end: what is open at the last bar is closed,   *)
(* without the strategy.                                                   *)
(***************************************************************************)
Flatten(id, f) ==
  /\ pc = "end"
  /\ CloseAtMarket(id, f)
  /\ Bank(Pnl(trades[id], FillPrice(Opposite(trades[id].side), f)))
  /\ UNCHANGED <<setup, replayVars, pending, runnerVars, peak, saved, stepVars, bookVars>>

EndFlatten ==
  /\ pc = "end" /\ trades = <<>>
  /\ tradeMap' = <<>> /\ pc' = "done"
  /\ UNCHANGED <<setup, left, bar, moneyVars, pending, trades, pendingMap, meta, peak,
                 tallyVars, saved, stepVars, bookVars>>
-----------------------------------------------------------------------------
(***************************************************************************)
(* A simple step: RiskEngine.evaluate, its rules in their order.           *)
(***************************************************************************)
DrawdownReached == peak > 0 /\ (peak - Equity) * 100 >= MaxDrawdownPct * peak
LosingStreak == losses >= MaxConsecutiveLosses
AtPositionLimit == saved.qty >= MaxPosition \/ -saved.qty >= MaxPosition
DailyLossReached == saved.pnl <= -MaxDailyLoss

\* get_trades_today counts the trades of the day of the replay, and the bars are of
\* earlier days.
TradesToday == 0

Approved(stopped) ==
  /\ RequireStopLoss => stopped
  /\ ~DrawdownReached
  /\ ~LosingStreak
  /\ ~AtPositionLimit
  /\ ~DailyLossReached
  /\ TradesToday < MaxTradesPerDay

\* calculate_position_size: a share of the equity over the stop distance, below the
\* caps; without one, position_size.
Sizes(stopped) == IF stopped /\ Equity > 0 THEN 1 .. PositionSize ELSE {PositionSize}

Hold ==
  /\ pc = "signal"
  /\ pc' = "record"
  /\ UNCHANGED <<setup, left, bar, moneyVars, pending, trades, runnerVars, peak, tallyVars,
                 saved, stepVars, bookVars>>

\* The order of an approved signal, and the position it saves; a P&L of zero is no trade.
Trade(side, stopped, qty, f) ==
  LET stop  == StopFor(side, bar.close, stopped)
      after == UpdatePosition(side, qty, FillPrice(side, f))
      pnl   == after.realized - position.realized
  IN
  /\ pc = "signal" /\ Approved(stopped) /\ qty \in Sizes(stopped)
  /\ FillMarket(Fresh, None, side, qty, stop, FillPrice(side, f))
  /\ IF pnl # 0 THEN Bank(pnl) ELSE UNCHANGED tallyVars
  /\ saved' = [qty |-> after.qty,
               pnl |-> after.realized + after.qty * (bar.close - after.cost)]
  /\ pc' = "record"
  /\ UNCHANGED <<setup, left, bar, pending, runnerVars, peak, stepVars, bookVars>>
-----------------------------------------------------------------------------
GridStep ==
  \/ \E id \in DOMAIN trades, f \in Frictions : StopOut(id, f)
  \/ StopsDone
  \/ \E id \in DOMAIN pending, f \in Frictions : Enter(id, f)
  \/ EntriesDone
  \/ \E id \in newlyFilled : HandleFill(id)
  \/ \E id \in newlyFilled, f \in Frictions : HandlePairedFill(id, f)
  \/ FillsDone
  \/ \E closed \in newlyClosed : HandleClosure(closed)
  \/ ClosuresDone
  \/ \E key \in Keys, price \in Prices, other \in Keys \cup {None} :
       PlaceResting(key, price, other)
  \/ \E key \in Keys, stopped \in BOOLEAN, f \in Frictions : PlaceMarket(key, stopped, f)
  \/ BeginCloseAll
  \/ \E id \in DOMAIN trades, f \in Frictions : CloseOne(id, f)
  \/ EndCloseAll
  \/ \E key \in Keys, other \in Keys \cup {None} : DropSignal(key, other)
  \/ NoSignal
  \/ \E key \in Keys : Retire(key)
  \/ \E key \in Keys : TrimOrder(key)
  \/ \E key \in Keys, f \in Frictions : TrimTrade(key, f)
  \/ TrimsDone

SimpleStep ==
  \/ Hold
  \/ \E side \in {"BUY", "SELL"}, stopped \in BOOLEAN, qty \in 1 .. PositionSize,
        f \in Frictions : Trade(side, stopped, qty, f)

Next ==
  \/ NextBar
  \/ GridStep
  \/ SimpleStep
  \/ Record
  \/ Exhausted
  \/ \E id \in DOMAIN trades, f \in Frictions : Flatten(id, f)
  \/ EndFlatten

Spec == Init /\ [][Next]_vars /\ WF_vars(Next)
-----------------------------------------------------------------------------
(***************************************************************************)
(* Properties.                                                             *)
(***************************************************************************)
\* The account as its fills have left it, every open position paid for.
Cash ==
  capital - (IF setup.gridMode
             THEN SumFunction([i \in DOMAIN trades |->
                                 Sign(trades[i].side) * trades[i].qty * trades[i].open])
             ELSE position.qty * position.cost)
Net ==
  IF setup.gridMode
  THEN SumFunction([i \in DOMAIN trades |-> Sign(trades[i].side) * trades[i].qty])
  ELSE position.qty

Promised == INSTANCE Account WITH
  bar <- bar, cash <- Cash, net <- Net, Bars <- Bars, HalfSpread <- Min(Frictions),
  FillPrices <- -Max(Frictions) .. Max(Prices \cup {b.high : b \in Bars}) + StopGap + Max(Frictions),
  Units <- 1 .. PositionSize, Commission <- Commission, InitialCapital <- InitialCapital

\* The P&L that is not banked yet: of open trades, or of the net position.
Unbanked == IF setup.stateful THEN Marks ELSE NetMark

\* Stops, fills, close-alls, trims and the final flattening, with averages, flips and
\* commissions: the money is what an account that knows only fills would show, and
\* no fill beats the bar it happens on (_apply_friction, "in the adverse direction").
ImplementsAccount == Promised!Spec

\* Every trade that ends is banked, once: the equity a step records is the initial
\* capital, less commissions, with the P&Ls the metrics count and the open marks.
Reconciles ==
  pc \in {"record", "done"} => Equity = InitialCapital - fees + banked + Unbanked

\* "Flattening them (as a real account would be) makes realized P&L, trade count and
\* win rate reconcile" (_close_open_positions_at_end).
FlattenReconciles ==
  pc = "done" /\ setup.stateful => Equity - InitialCapital = banked - fees

\* At the end of a grid step the strategy's books, the runner's maps and the broker
\* agree on each key, whatever filled, stopped out, was trimmed or closed in it: a
\* key is held for one order, for one trade, for the opposite of a resting entry, or
\* for a signal that was dropped.
BooksFollow ==
  pc = "record" /\ setup.stateful =>
    /\ \A id \in DOMAIN pending : pendingMap[pending[id].key] = id
    /\ \A id \in DOMAIN trades : tradeMap[trades[id].key] = id
    /\ Values(pendingMap) = DOMAIN pending /\ Values(tradeMap) = DOMAIN trades
    /\ {k \in Keys : books[k] = "filled"} = DOMAIN tradeMap
    /\ {k \in Keys : books[k] = "placed"} = DOMAIN pendingMap \cup dropped \cup (Values(meta) \ {None})

\* However many signals the strategy emits, every replay comes to its end.
ReplayEnds == <>(pc = "done")
=============================================================================
