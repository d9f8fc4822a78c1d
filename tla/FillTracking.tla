---------------------------- MODULE FillTracking ----------------------------
(***************************************************************************)
(* How TradingEngine keeps track of the sliding grid's orders and trades:  *)
(* the placement of signals, the fast poll that finds out about fills,     *)
(* closures and cancellations by comparing two snapshots of the broker     *)
(* with its maps, and the trimming of levels, together with the books that *)
(* CibySlidingGridStrategy keeps of the same orders.                       *)
(*                                                                         *)
(* A key is one side of one level.  An id stands for one order at the      *)
(* broker and for the trade it becomes; an id the broker and the engine    *)
(* have both forgotten is used again, so that behaviours have no bound.    *)
(* One broker call is one step.  Which levels lie in the window and which  *)
(* are trimmed (SlidingGrid decides) are nondeterministic here.            *)
(***************************************************************************)
EXTENDS Naturals, FiniteSets

CONSTANTS
  Levels,         \* prices of the levels
  BuySellOffset,  \* a buy is entered this much above its level
  Anchor,         \* the anchor's level: never retracted, never trimmed
  Ids,            \* orders and trades
  None,           \* no id
  MaxOpenTrades,  \* _max_open_trades (50 in the code)
  Environments    \* which faults may come together: sets of FaultKinds

\* "between":  the broker moves between two calls of one fast poll
\* "whipsaw":  a trade is stopped out before the engine has seen it
\* "expire":   the broker cancels a resting order
\* "poll":     get_open_trades fails at the start of a fast poll
\* "pending":  get_pending_orders fails in a fast poll
\* "cancel":   cancel_pending_order fails
\* "close":    close_trade fails in a trim
\* "lost":     an order is accepted, and place_order raises all the same
\* "abort":    a call other than place_order raises while signals are processed
\* "netted":   a fill reduces an opposite trade instead of opening one
\* "crowded":  trades at levels that are not modelled bring the count to the cap
\* "slip":     a fill is made away from its entry, as a stop entry's across a gap
FaultKinds == {"between", "whipsaw", "expire", "poll", "pending", "cancel", "close",
               "lost", "abort", "netted", "crowded", "slip"}

ASSUME FillTrackingConstants ==
  /\ Levels \subseteq Nat /\ Anchor \in Levels /\ BuySellOffset \in Nat
  /\ None \notin Ids /\ MaxOpenTrades \in Nat
  /\ Environments \subseteq SUBSET FaultKinds

VARIABLES
  faults,        \* what goes wrong around the engine in this behaviour
  status,        \* broker: an id is "free", "resting" or "open"
  orderKey,      \* broker: the key an id was placed for
  openPrice,     \* broker: the price of its fill, its entry until then
  pendingMap,    \* engine: _pending_order_map, None for an absent key
  tradeMap,      \* engine: _grid_trade_map
  placed,        \* strategy: keys in _placed
  filled,        \* strategy: keys in _filled
  retired,       \* strategy: levels in _retired
  pendingClose,  \* strategy: _pending_close
  pc,            \* the engine's place in its loop
  openSnap,      \* fast poll: the ids get_open_trades returned
  gone,          \* fast poll: `disappeared`, keys still to be matched
  newTrades,     \* fast poll: trades of the snapshot no key is mapped to
  fresh,         \* fast poll: newly_added, trades mapped in this poll
  todo,          \* fast poll: keys still to be trimmed
  signals,       \* strategy cycle: keys of the signals still to be processed
  capped         \* strategy cycle: open_trade_count has reached the cap

brokerVars   == <<status, orderKey, openPrice>>
mapVars      == <<pendingMap, tradeMap>>
cycleVars    == <<signals, capped>>
strategyVars == <<placed, filled, retired, pendingClose>>
pollVars     == <<openSnap, gone, newTrades, fresh, todo>>
vars == <<faults, status, orderKey, openPrice, pendingMap, tradeMap, placed, filled,
          retired, pendingClose, pc, openSnap, gone, newTrades, fresh, todo, signals,
          capped>>

Keys == [level : Levels, side : {"long", "short"}]
Mapped(map) == {map[k] : k \in Keys} \ {None}
Unmap(map, ks) == [k \in Keys |-> IF k \in ks THEN None ELSE map[k]]

\* The price a side is entered at (_side_entry).
Entry(k) == IF k.side = "long" THEN k.level + BuySellOffset ELSE k.level

\* Where an order of k may be filled: across a gap, where any of its side may be.
FillPrices(k) ==
  {Entry(k)} \cup {Entry(j) : j \in {i \in Keys : "slip" \in faults /\ i.side = k.side}}

Init ==
  /\ faults \in Environments
  /\ status = [n \in Ids |-> "free"] /\ orderKey = [n \in Ids |-> None]
  /\ openPrice = [n \in Ids |-> 0]
  /\ pendingMap = [k \in Keys |-> None] /\ tradeMap = [k \in Keys |-> None]
  /\ placed = {} /\ filled = {} /\ retired = {} /\ pendingClose = {}
  /\ pc = "poll" /\ openSnap = {} /\ gone = {} /\ newTrades = {} /\ fresh = {}
  /\ todo = {} /\ signals = {} /\ capped = FALSE

-----------------------------------------------------------------------------
(***************************************************************************)
(* The broker and the market.                                              *)
(***************************************************************************)

MarketMoves == pc \in {"poll", "cycle", "signals"} \/ "between" \in faults

BrokerFill(n) ==
  /\ MarketMoves /\ status[n] = "resting"
  /\ status' = [status EXCEPT ![n] = "open"]
  /\ \E p \in FillPrices(orderKey[n]) : openPrice' = [openPrice EXCEPT ![n] = p]
  /\ UNCHANGED <<faults, orderKey, mapVars, strategyVars, pc, pollVars, cycleVars>>

BrokerStopOut(n) ==
  /\ MarketMoves /\ status[n] = "open"
  /\ n \in Mapped(tradeMap) \/ "whipsaw" \in faults
  /\ status' = [status EXCEPT ![n] = "free"]
  /\ UNCHANGED <<faults, orderKey, openPrice, mapVars, strategyVars, pc, pollVars,
                 cycleVars>>

BrokerExpire(n) ==
  /\ MarketMoves /\ status[n] = "resting" /\ "expire" \in faults
  /\ status' = [status EXCEPT ![n] = "free"]
  /\ UNCHANGED <<faults, orderKey, openPrice, mapVars, strategyVars, pc, pollVars,
                 cycleVars>>

-----------------------------------------------------------------------------
(***************************************************************************)
(* The strategy's callbacks.                                               *)
(***************************************************************************)

\* report_fill: the side moves from placed to filled.
ReportFill(k) == placed' = placed \ {k} /\ filled' = filled \cup {k}

\* on_signal_rejected: the side may be placed again.
OnSignalRejected(k) == placed' = placed \ {k}

\* report_trade_closed: a closed side of a retired level is not placed either.
ReportTradesClosed(ks) ==
  /\ filled' = filled \ ks
  /\ placed' = placed \ {k \in ks : k.level \in retired}

-----------------------------------------------------------------------------
(***************************************************************************)
(* The fast poll.                                                          *)
(***************************************************************************)

\* get_open_trades; a failure ends this poll.
PollTrades ==
  /\ pc = "poll"
  /\ \/ /\ openSnap' = {n \in Ids : status[n] = "open"}
        /\ fresh' = {} /\ pc' = "fills"
     \/ /\ "poll" \in faults
        /\ pc' = "cycle" /\ UNCHANGED <<openSnap, fresh>>
  /\ UNCHANGED <<faults, brokerVars, mapVars, strategyVars, gone, newTrades, todo,
                 cycleVars>>

\* get_pending_orders; nothing pending, or a failure, skips the fill detection.
FetchPending ==
  /\ pc = "fills"
  /\ \/ /\ Mapped(pendingMap) # {}
        /\ gone' = {k \in Keys : /\ pendingMap[k] # None
                                 /\ status[pendingMap[k]] # "resting"}
        /\ newTrades' = openSnap \ Mapped(tradeMap)
        /\ pc' = "match"
     \/ /\ Mapped(pendingMap) = {} \/ "pending" \in faults
        /\ pc' = "closures" /\ UNCHANGED <<gone, newTrades>>
  /\ UNCHANGED <<faults, brokerVars, mapVars, strategyVars, openSnap, fresh, todo,
                 cycleVars>>

\* How far from k's level a trade was opened; a buy's own level is not its entry.
Distance(n, k) ==
  IF openPrice[n] > k.level THEN openPrice[n] - k.level ELSE k.level - openPrice[n]
\* Mutant: any new trade of the side will do.
NearestAnyPrice(k) == {n \in newTrades : orderKey[n].side = k.side}

\* The new trades of k's side that were opened nearest to k's level.
Nearest(k) ==
  LET sameSide == {n \in newTrades : orderKey[n].side = k.side}
  IN  {n \in sameSide : \A m \in sameSide : Distance(n, k) <= Distance(m, k)}

\* Mutant: a matched trade is not taken off the list.
MatchFillKeepsTrade(k, n) ==
  /\ pc = "match" /\ k \in gone /\ n \in Nearest(k)
  /\ gone' = gone \ {k}
  /\ pendingMap' = [pendingMap EXCEPT ![k] = None]
  /\ tradeMap' = [tradeMap EXCEPT ![k] = n]
  /\ fresh' = fresh \cup {n}
  /\ ReportFill(k)
  /\ UNCHANGED <<faults, brokerVars, retired, pendingClose, pc, openSnap, newTrades,
                 todo, cycleVars>>

\* An order that is no longer pending: the nearest new trade is its fill ...
MatchFill(k, n) ==
  /\ pc = "match" /\ k \in gone /\ n \in Nearest(k)
  /\ gone' = gone \ {k} /\ newTrades' = newTrades \ {n}
  /\ pendingMap' = [pendingMap EXCEPT ![k] = None]
  /\ tradeMap' = [tradeMap EXCEPT ![k] = n]
  /\ fresh' = fresh \cup {n}
  /\ ReportFill(k)
  /\ UNCHANGED <<faults, brokerVars, retired, pendingClose, pc, openSnap, todo, cycleVars>>

\* Mutant: the level of a cancelled order is not released.
MatchCancelledSilently(k) ==
  /\ pc = "match" /\ k \in gone /\ Nearest(k) = {}
  /\ gone' = gone \ {k}
  /\ pendingMap' = [pendingMap EXCEPT ![k] = None]
  /\ UNCHANGED <<faults, brokerVars, tradeMap, strategyVars, pc, openSnap, newTrades,
                 fresh, todo, cycleVars>>

\* ... and without one it was cancelled, and its level is released.
MatchCancelled(k) ==
  /\ pc = "match" /\ k \in gone /\ Nearest(k) = {}
  /\ gone' = gone \ {k}
  /\ pendingMap' = [pendingMap EXCEPT ![k] = None]
  /\ OnSignalRejected(k)
  /\ UNCHANGED <<faults, brokerVars, tradeMap, filled, retired, pendingClose, pc,
                 openSnap, newTrades, fresh, todo, cycleVars>>

MatchDone ==
  /\ pc = "match" /\ gone = {}
  /\ pc' = "closures"
  /\ UNCHANGED <<faults, brokerVars, mapVars, strategyVars, pollVars, cycleVars>>

\* _check_closures, then the strategy's get_levels_to_close.
CheckClosures ==
  LET closed == {k \in Keys : tradeMap[k] \notin openSnap \cup fresh \cup {None}} IN
  /\ pc = "closures"
  /\ tradeMap' = Unmap(tradeMap, closed)
  /\ ReportTradesClosed(closed)
  /\ todo' = pendingClose /\ pendingClose' = {}
  /\ pc' = "trim"
  /\ UNCHANGED <<faults, brokerVars, pendingMap, retired, openSnap, gone, newTrades,
                 fresh, cycleVars>>

\* _check_levels_to_close, first half: a resting order is cancelled, and
\* forgotten whether or not the broker could still cancel it.
TrimCancel(k) ==
  LET n == pendingMap[k] IN
  /\ pc = "trim" /\ k \in todo /\ n # None
  /\ pendingMap' = [pendingMap EXCEPT ![k] = None]
  /\ \/ status[n] = "resting" /\ status' = [status EXCEPT ![n] = "free"]
     \/ (status[n] # "resting" \/ "cancel" \in faults) /\ UNCHANGED status
  /\ UNCHANGED <<faults, orderKey, openPrice, tradeMap, strategyVars, pc, pollVars,
                 cycleVars>>

\* Second half: an open trade is closed; it stays tracked if that fails.
TrimClose(k) ==
  LET n == tradeMap[k] IN
  /\ pc = "trim" /\ k \in todo /\ pendingMap[k] = None /\ n # None
  /\ todo' = todo \ {k}
  /\ \/ /\ status[n] = "open"
        /\ status' = [status EXCEPT ![n] = "free"]
        /\ tradeMap' = [tradeMap EXCEPT ![k] = None]
        /\ ReportTradesClosed({k})
     \/ /\ status[n] # "open" \/ "close" \in faults
        /\ UNCHANGED <<status, tradeMap, placed, filled>>
  /\ UNCHANGED <<faults, orderKey, openPrice, pendingMap, retired, pendingClose, pc,
                 openSnap, gone, newTrades, fresh, cycleVars>>

TrimSkip(k) ==
  /\ pc = "trim" /\ k \in todo /\ pendingMap[k] = None /\ tradeMap[k] = None
  /\ todo' = todo \ {k}
  /\ UNCHANGED <<faults, brokerVars, mapVars, strategyVars, pc, openSnap, gone, newTrades,
                 fresh, cycleVars>>

\* The poll is over, its local variables are gone.
PollDone ==
  /\ pc = "trim" /\ todo = {}
  /\ pc' = "cycle"
  /\ openSnap' = {} /\ gone' = {} /\ newTrades' = {} /\ fresh' = {}
  /\ UNCHANGED <<faults, brokerVars, mapVars, strategyVars, todo, cycleVars>>

-----------------------------------------------------------------------------
(***************************************************************************)
(* The strategy cycle.                                                     *)
(***************************************************************************)

\* The interval has not elapsed, or the cycle ends before generate().
SkipCycle ==
  /\ pc = "cycle" /\ pc' = "poll"
  /\ UNCHANGED <<faults, brokerVars, mapVars, strategyVars, pollVars, cycleVars>>

Active(level) == \E k \in filled : k.level = level

\* The resting sides that left the window (_retract_stale_placed).
Stale(window) ==
  {k \in placed : k.level \notin window \cup {Anchor} /\ ~ Active(k.level)}

\* Mutant: sides that left the window are dropped without being cancelled.
HandedOverForgetsStale(window, trimmed) ==
  {k \in placed \cup filled : k.level \in trimmed}

\* Mutant: a trim only cancels the level's resting orders.
HandedOverOrdersOnly(window, trimmed) ==
  Stale(window) \cup {k \in placed : k.level \in trimmed}

\* What the engine is to cancel or close: stale sides, and all of a trimmed level.
HandedOver(window, trimmed) ==
  Stale(window) \cup {k \in placed \cup filled : k.level \in trimmed}

\* Mutant: a side is queued again although it is filled.
MissingIgnoresFilled(window, trimmed) ==
  {k \in Keys : k.level \in window \ (retired \cup trimmed) /\ k \notin placed}

\* The sides of the window that have neither an order nor a trade.
Missing(window, trimmed) ==
  {k \in Keys : /\ k.level \in window \ (retired \cup trimmed)
                /\ k \notin placed \cup filled}

\* generate(): trim, retract what left the window, queue what is missing in it.
\* Sides too close to the price, or at the ladder's edge, are not queued.
Generate(window, trimmed, queued) ==
  /\ pc = "cycle"
  /\ \A level \in trimmed : Active(level) /\ level # Anchor /\ level \notin retired
  /\ queued \subseteq Missing(window, trimmed)
  /\ retired' = retired \cup trimmed
  /\ pendingClose' = pendingClose \cup HandedOver(window, trimmed)
  /\ placed' = (placed \ Stale(window)) \cup queued
  /\ signals' = queued
  /\ \/ capped' = (Cardinality({n \in Ids : status[n] = "open"}) >= MaxOpenTrades)
     \/ "crowded" \in faults /\ capped' = TRUE
  /\ pc' = "signals"
  /\ UNCHANGED <<faults, brokerVars, mapVars, filled, pollVars>>

\* An id that nobody knows any more.
Unused(n) == status[n] = "free" /\ n \notin Mapped(pendingMap) \cup Mapped(tradeMap)

\* A market order is filled at the price, which is the anchor when its pair is placed.
FilledAtOnce(k) == FillPrices(k) \cup {l \in {Anchor} : k.level = l}

TakesOrder(k, n, as) ==
  /\ Unused(n)
  /\ status' = [status EXCEPT ![n] = as]
  /\ orderKey' = [orderKey EXCEPT ![n] = k]
  /\ \E p \in (IF as = "open" THEN FilledAtOnce(k) ELSE {Entry(k)}) :
       openPrice' = [openPrice EXCEPT ![n] = p]

Processing(k) == pc = "signals" /\ k \in signals /\ ~ capped

\* The risk engine, the wrong-side guard or the broker turns the order down.
PlaceRejected(k) ==
  /\ Processing(k)
  /\ signals' = signals \ {k}
  /\ OnSignalRejected(k)
  /\ UNCHANGED <<faults, brokerVars, mapVars, filled, retired, pendingClose, pc, pollVars,
                 capped>>

\* _place_limit_order, the order rests.
PlaceResting(k, n) ==
  /\ Processing(k)
  /\ TakesOrder(k, n, "resting")
  /\ pendingMap' = [pendingMap EXCEPT ![k] = n]
  /\ signals' = signals \ {k}
  /\ UNCHANGED <<faults, tradeMap, strategyVars, pc, pollVars, capped>>

\* _place_market_order, or a resting order that fills at once.
PlaceFilled(k, n) ==
  /\ Processing(k)
  /\ TakesOrder(k, n, "open")
  /\ tradeMap' = [tradeMap EXCEPT ![k] = n]
  /\ ReportFill(k)
  /\ signals' = signals \ {k}
  /\ UNCHANGED <<faults, pendingMap, retired, pendingClose, pc, pollVars, capped>>

\* The fill opens no trade but closes one of the other side: the engine maps no
\* trade for a market order, and the order's own id m for a resting one.
PlaceNetted(k, n, m) ==
  /\ "netted" \in faults
  /\ Processing(k)
  /\ status[n] = "open" /\ orderKey[n].side # k.side
  /\ status' = [status EXCEPT ![n] = "free"]
  /\ \/ UNCHANGED <<orderKey, tradeMap>>
     \/ /\ Unused(m)
        /\ orderKey' = [orderKey EXCEPT ![m] = k]
        /\ tradeMap' = [tradeMap EXCEPT ![k] = m]
  /\ ReportFill(k)
  /\ signals' = signals \ {k}
  /\ UNCHANGED <<faults, openPrice, pendingMap, retired, pendingClose, pc, pollVars,
                 capped>>

\* place_order raises although the broker has the order.
PlaceLost(k, n) ==
  /\ "lost" \in faults
  /\ Processing(k)
  /\ \E as \in {"resting", "open"} : TakesOrder(k, n, as)
  /\ OnSignalRejected(k)
  /\ signals' = signals \ {k}
  /\ UNCHANGED <<faults, mapVars, filled, retired, pendingClose, pc, pollVars, capped>>

\* The cap on open trades drops a signal without telling the strategy.
PlaceCapped(k) ==
  /\ pc = "signals" /\ k \in signals /\ capped
  /\ signals' = signals \ {k}
  /\ UNCHANGED <<faults, brokerVars, mapVars, strategyVars, pc, pollVars, capped>>

\* A read or a write of the repository raises: the other signals are lost.
CycleAborts ==
  /\ "abort" \in faults /\ pc = "signals" /\ signals # {}
  /\ signals' = {} /\ capped' = FALSE /\ pc' = "poll"
  /\ UNCHANGED <<faults, brokerVars, mapVars, strategyVars, pollVars>>

\* save_trade raises after the broker has filled a market order.
SaveTradeFails(k, n) ==
  /\ "abort" \in faults /\ Processing(k)
  /\ TakesOrder(k, n, "open")
  /\ signals' = {} /\ capped' = FALSE /\ pc' = "poll"
  /\ UNCHANGED <<faults, mapVars, strategyVars, pollVars>>

CycleDone ==
  /\ pc = "signals" /\ signals = {}
  /\ capped' = FALSE /\ pc' = "poll"
  /\ UNCHANGED <<faults, brokerVars, mapVars, strategyVars, pollVars, signals>>

-----------------------------------------------------------------------------
Broker == \E n \in Ids : BrokerFill(n) \/ BrokerStopOut(n) \/ BrokerExpire(n)

FastPoll ==
  \/ PollTrades \/ FetchPending \/ MatchDone \/ CheckClosures \/ PollDone
  \/ \E k \in Keys : \/ \E n \in Ids : MatchFill(k, n)
                     \/ MatchCancelled(k)
                     \/ TrimCancel(k) \/ TrimClose(k) \/ TrimSkip(k)

StrategyCycle ==
  \/ SkipCycle \/ CycleAborts \/ CycleDone
  \/ \E window, trimmed \in SUBSET Levels : \E queued \in SUBSET Keys :
       Generate(window, trimmed, queued)
  \/ \E k \in Keys :
       \/ PlaceRejected(k) \/ PlaceCapped(k)
       \/ \E n \in Ids : \/ PlaceResting(k, n) \/ PlaceFilled(k, n)
                         \/ PlaceLost(k, n) \/ SaveTradeFails(k, n)
                         \/ \E m \in Ids : PlaceNetted(k, n, m)

Next == Broker \/ FastPoll \/ StrategyCycle

Spec == Init /\ [][Next]_vars

-----------------------------------------------------------------------------
\* Type invariant; a local variable is empty outside the step that uses it.
TypeOK ==
  /\ faults \in Environments
  /\ status \in [Ids -> {"free", "resting", "open"}]
  /\ orderKey \in [Ids -> Keys \cup {None}] /\ openPrice \in [Ids -> Nat]
  /\ \A n \in Ids : status[n] # "free" => orderKey[n] \in Keys
  /\ pendingMap \in [Keys -> Ids \cup {None}]
  /\ tradeMap \in [Keys -> Ids \cup {None}]
  /\ placed \subseteq Keys /\ filled \subseteq Keys
  /\ retired \subseteq Levels /\ pendingClose \subseteq Keys
  /\ pc \in {"poll", "fills", "match", "closures", "trim", "cycle", "signals"}
  /\ openSnap \subseteq Ids /\ newTrades \subseteq Ids /\ fresh \subseteq Ids
  /\ gone \subseteq Keys /\ todo \subseteq Keys /\ signals \subseteq Keys
  /\ capped \in BOOLEAN
  /\ (pc # "match" => gone = {}) /\ (pc # "trim" => todo = {})
  /\ (pc # "signals" => signals = {} /\ ~ capped)

\* Whatever calls fail and whenever the broker moves, as long as a fill opens a
\* trade: the engine's trade map and the strategy's books name the same keys, and
\* no trade is tracked under two keys.
BooksAgree ==
  "netted" \notin faults =>
    /\ filled = {k \in Keys : tradeMap[k] # None}
    /\ \A j, k \in Keys : j # k /\ tradeMap[j] # None => tradeMap[j] # tradeMap[k]

\* Between polls the engine knows every order and every trade at the broker ...
NothingUntracked ==
  pc = "poll" => \A n \in Ids : status[n] # "free" =>
    n \in Mapped(pendingMap) \cup Mapped(tradeMap)

\* ... also when trades are stopped out, orders expire and fills net each other
\* before the engine sees them, when a gap mixes up their prices, and when closes are
\* refused.
KeepsTrack ==
  faults \subseteq {"whipsaw", "expire", "close", "crowded", "netted", "slip"} =>
    NothingUntracked

\* An entry is nearer to its own level than any other entry of its side.
Separated ==
  \A l, m \in Levels : l < m => 2 * BuySellOffset < m - l

\* A trade is tracked under the key it was placed for: what _check_limit_fills
\* takes for the fill of an order is that order's fill, if fills are made where
\* the entries are and the offset is small.  Calls that fail, with and without
\* effect, do not change that.
RightKey ==
  Separated /\ faults \subseteq {"poll", "pending", "cancel", "close", "lost", "abort",
                                "crowded"} =>
    \A k \in Keys : tradeMap[k] # None => orderKey[tradeMap[k]] = k

\* A key holds at most one order or trade at the broker, also at the cap and when a
\* trim's close is refused.  Two trades that are tracked under each other's keys
\* would end it: when one is stopped out, the other's key is placed again.
NoDoubleExposure ==
  Separated /\ faults \subseteq {"close", "crowded"} =>
    \A m, n \in Ids : m # n /\ status[m] # "free" /\ status[n] # "free"
      => orderKey[m] # orderKey[n]

\* "An order is always waiting where price is headed" (_maintain_grid): a side
\* the strategy takes for placed has an order, or nothing would place it again.
\* Only a cycle or a poll cut short and the cap break this.
PlacedIsBacked ==
  (pc = "poll" /\ faults \cap {"poll", "abort", "crowded"} = {}) =>
    \A k \in placed : k.level \notin retired => pendingMap[k] # None

\* A trimmed level is handed to the engine "to close at market" (_retire_level):
\* unless the close itself is refused, a trade still open there is going to be
\* closed, whatever else went wrong with the level's orders.
TrimmedIsClosed ==
  (pc = "poll" /\ faults \cap {"close", "netted"} = {}) =>
    \A k \in filled :
      k.level \in retired => k \in pendingClose \/ status[tradeMap[k]] = "free"
=============================================================================
