----------------------------- MODULE DoublingGrid -----------------------------
(***************************************************************************)
(* CibyHedgedDoublingGridStrategy and what TradingEngine does for it alone: *)
(* the opposite market order that hedges a filled limit order, the doubled *)
(* position at an outer level, and the exits that callbacks ask for.       *)
(*                                                                         *)
(* A poll sees one state of the account and matches each fill with its own *)
(* order, and cancels work: other cases are FillTracking's and CloseAll's. *)
(* The trailing stop is one more reason for a trade to end.  A trade whose *)
(* key is given to another trade is not followed any further.              *)
(***************************************************************************)
EXTENDS Integers, FiniteSets

CONSTANTS
  Levels,        \* of -4, -2, 2 and 4: two below the anchor, two above
  WhipsawLimit,  \* whipsaw_limit
  MaxRetries,    \* _MAX_CLOSE_ALL_RETRIES
  None,
  Environments   \* which faults may come together: sets of FaultKinds

FaultKinds ==
  { "opposite",  \* the opposite market order fails
    "refuse",    \* a limit order is rejected by the risk engine or the broker
    "double",    \* the doubled market order is
    "read",      \* a read fails between generate() and the first signal
    "close",     \* a close-all attempt fails
    "rush" }     \* both sides of a pair end before the cycle that doubles it

ASSUME DoublingGridConstants ==
  /\ Levels \subseteq {-4, -2, 2, 4} /\ None \notin Levels
  /\ WhipsawLimit \in Nat \ {0} /\ MaxRetries \in Nat \ {0}
  /\ Environments \subseteq SUBSET FaultKinds

VARIABLES
  faults,       \* what may go wrong in this behaviour
  \* the account: resting orders, filled orders the engine has not seen yet, and
  \* the trades of the engine's map that are still open
  resting, unseen, open,
  \* TradingEngine: keys of _pending_order_map and _grid_trade_map;
  \* _close_all_failed_count, "now < _close_all_next_retry_at" and _running
  orderMap, tradeMap, failedCount, waiting, running,
  grid,         \* the strategy: see NewGrid
  pc,
  gone,         \* fast poll: pending keys no longer resting, still to be handled
  signals,      \* cycle: keys of the signals still to be processed
  flat          \* cycle: the signal is a close-all

accountVars == <<resting, unseen, open>>
retryVars   == <<failedCount, waiting, running>>
cycleVars   == <<signals, flat>>
vars == <<faults, accountVars, orderMap, tradeMap, retryVars, grid, pc, gone, cycleVars>>
-----------------------------------------------------------------------------
Legs == Levels \X {"long", "short"}
Keys == Levels \X {"long", "short", "doubled"}
Outer == Levels \cap {-4, 4}
LegsOf(l) == {l} \X {"long", "short"}
OtherLeg(k) == <<k[1], IF k[2] = "long" THEN "short" ELSE "long">>

\* A session before its first generate().  legs and closed are the sides recorded
\* in _filled_entry_prices and _pair_closed_sides, queued says that the doubled
\* signal is in _signal_queue; exiting is history: an exit has been asked for and
\* not been carried out.
NewGrid ==
  [ anchored |-> FALSE, active |-> TRUE,
    placed |-> {}, filled |-> {}, legs |-> {}, closed |-> {},
    triggers |-> [l \in Levels |-> 0], paused |-> FALSE,
    doubledLevel |-> None, doubledActive |-> FALSE, queued |-> FALSE,
    pending |-> FALSE, closing |-> FALSE, exiting |-> FALSE ]

Init ==
  /\ faults \in Environments
  /\ resting = {} /\ unseen = {} /\ open = {} /\ orderMap = {} /\ tradeMap = {}
  /\ failedCount = 0 /\ waiting = FALSE /\ running = TRUE
  /\ grid = NewGrid
  /\ pc = "poll" /\ gone = {} /\ signals = {} /\ flat = FALSE
-----------------------------------------------------------------------------
(***************************************************************************)
(* The strategy's callbacks, as functions of its state.                    *)
(***************************************************************************)
AskExit(g) == [g EXCEPT !.pending = TRUE, !.exiting = TRUE]

IsFirstFill(g, l) == l \in g.placed /\ l \notin g.filled

\* The first fill opens a pair: a new pair_id, one more trigger of the level,
\* counted up to the limit.
OpenPair(g, l) ==
  [g EXCEPT !.filled = @ \cup {l}, !.placed = @ \ {l}, !.closed = @ \ LegsOf(l),
            !.triggers[l] = IF @ < WhipsawLimit THEN @ + 1 ELSE @]

\* _check_doubling_trigger, when both sides of a level are filled
Double(g, l) ==
  IF LegsOf(l) \subseteq g.legs /\ g.doubledLevel = None /\ l \in Outer
  THEN [g EXCEPT !.doubledLevel = l, !.doubledActive = TRUE, !.queued = TRUE]
  ELSE g

ReportFill(g, k) ==
  LET l == k[1]
      recorded == [g EXCEPT !.legs = @ \cup ({k} \cap Legs)]
      opened == OpenPair(recorded, l)
  IN
  IF ~IsFirstFill(g, l) THEN Double(recorded, l)
  ELSE IF opened.triggers[l] >= WhipsawLimit
       THEN AskExit([opened EXCEPT !.paused = TRUE])
       ELSE Double(opened, l)

\* Mutant: the key of the doubled position has been forgotten.
IsDoubledForgotten(g, k) == FALSE

IsDoubled(g, k) == g.doubledLevel # None /\ k = <<g.doubledLevel, "doubled">>

\* Mutant: a level is released when the first side of its pair ends.
PairOverAtFirst(g, k) == TRUE

PairOver(g, k) == LegsOf(k[1]) \subseteq g.closed \cup {k}

ReportTradeClosed(g, k) ==
  LET l == k[1] IN
  IF IsDoubled(g, k) THEN AskExit([g EXCEPT !.doubledActive = FALSE])
  ELSE IF l \notin g.filled THEN g
  ELSE IF PairOver(g, k)
       THEN [g EXCEPT !.filled = @ \ {l}, !.closed = @ \ LegsOf(l), !.legs = @ \ LegsOf(l)]
       ELSE [g EXCEPT !.closed = @ \cup {k}]

OnSignalRejected(g, l) ==
  [g EXCEPT !.placed = @ \ {l}, !.filled = @ \ {l}, !.legs = @ \ LegsOf(l),
            !.queued = @ /\ g.doubledLevel # l]

\* notify_close_all_complete
NotifyComplete(g) ==
  IF g.paused THEN [g EXCEPT !.closing = FALSE, !.active = FALSE, !.exiting = FALSE]
              ELSE NewGrid  \* active: only the pause ends that
-----------------------------------------------------------------------------
(***************************************************************************)
(* The account.                                                            *)
(***************************************************************************)
MarketMoves == pc \in {"poll", "cycle", "reads", "signals"}

BrokerFill(k) ==
  /\ MarketMoves /\ k \in resting
  /\ resting' = resting \ {k} /\ unseen' = unseen \cup {k}
  /\ UNCHANGED <<faults, open, orderMap, tradeMap, retryVars, grid, pc, gone, cycleVars>>

\* Take profit or trailing stop.
BrokerClose(k) ==
  /\ MarketMoves /\ k \in open
  /\ "rush" \in faults \/ ~(grid.queued /\ k[1] = grid.doubledLevel)
  /\ open' = open \ {k}
  /\ UNCHANGED <<faults, resting, unseen, orderMap, tradeMap, retryVars, grid, pc, gone,
                 cycleVars>>
-----------------------------------------------------------------------------
(***************************************************************************)
(* The fast poll.                                                          *)
(***************************************************************************)
\* The read of the resting orders may fail: then only closures are looked for.
PollStarts ==
  /\ pc = "poll" /\ running
  /\ gone' \in {{}, {k \in orderMap : k \notin resting}}
  /\ pc' = "fills"
  /\ UNCHANGED <<faults, accountVars, orderMap, tradeMap, retryVars, grid, cycleVars>>

\* The read of the open trades fails.
PollFails ==
  /\ pc = "poll" /\ running
  /\ pc' = "cycle"
  /\ UNCHANGED <<faults, accountVars, orderMap, tradeMap, retryVars, grid, gone, cycleVars>>

\* Mutant: nothing is hedged any more when the fill has paused the session.
HedgeFailsAtPause(k) == "opposite" \in faults \/ ReportFill(grid, k).paused

HedgeFails(k) == "opposite" \in faults

\* A filled limit order is reported, then hedged by _place_opposite_market_order.
HedgedFill(k, unseenNow, openNow) ==
  /\ unseen' = unseenNow
  /\ \/ /\ open' = openNow \cup {k, OtherLeg(k)}
        /\ tradeMap' = tradeMap \cup {k, OtherLeg(k)}
        /\ grid' = ReportFill(ReportFill(grid, k), OtherLeg(k))
     \/ /\ HedgeFails(k)
        /\ open' = openNow \cup {k}
        /\ tradeMap' = tradeMap \cup {k}
        /\ grid' = ReportFill(grid, k)

MatchFill(k) ==
  /\ pc = "fills" /\ k \in gone /\ k \in unseen
  /\ gone' = gone \ {k} /\ orderMap' = orderMap \ {k}
  /\ HedgedFill(k, unseen \ {k}, open)
  /\ UNCHANGED <<faults, resting, retryVars, pc, cycleVars>>

MatchCancelled(k) ==
  /\ pc = "fills" /\ k \in gone /\ k \notin unseen
  /\ gone' = gone \ {k} /\ orderMap' = orderMap \ {k}
  /\ grid' = OnSignalRejected(grid, k[1])
  /\ UNCHANGED <<faults, accountVars, tradeMap, retryVars, pc, cycleVars>>

CheckClosure(k) ==
  /\ pc = "fills" /\ gone = {} /\ k \in tradeMap /\ k \notin open
  /\ tradeMap' = tradeMap \ {k}
  /\ grid' = ReportTradeClosed(grid, k)
  /\ UNCHANGED <<faults, accountVars, orderMap, retryVars, pc, gone, cycleVars>>

PollEnds ==
  /\ pc = "fills" /\ gone = {} /\ tradeMap \subseteq open
  /\ pc' = "cycle"
  /\ UNCHANGED <<faults, accountVars, orderMap, tradeMap, retryVars, grid, gone, cycleVars>>
-----------------------------------------------------------------------------
(***************************************************************************)
(* The strategy cycle.                                                     *)
(***************************************************************************)
SkipCycle ==
  /\ pc = "cycle" /\ pc' = "poll"
  /\ UNCHANGED <<faults, accountVars, orderMap, tradeMap, retryVars, grid, gone, cycleVars>>

\* Mutant: entries come before the exit that a callback has asked for.
MayTradeWhilePending == ~grid.closing /\ grid.active

MayTrade == ~grid.pending /\ ~grid.closing /\ grid.active

\* generate() returns a close-all: the one a callback asked for, the one under
\* way, or a new one at the session loss limit.
EmitFlat ==
  /\ pc = "cycle" /\ pc' = "reads" /\ flat' = TRUE
  /\ \/ /\ grid.pending
        /\ grid' = [grid EXCEPT !.pending = FALSE, !.queued = FALSE]
     \/ /\ ~grid.pending /\ grid.closing
        /\ UNCHANGED grid
     \/ /\ MayTrade /\ grid.anchored
        /\ grid' = [grid EXCEPT !.closing = TRUE, !.queued = FALSE, !.exiting = TRUE]
  /\ UNCHANGED <<faults, accountVars, orderMap, tradeMap, retryVars, gone, signals>>

\* The order that waits at a level while price is at the given position.
WaitingKey(l, price) == <<l, IF price < l THEN "short" ELSE "long">>

\* The doubled signal of the queue, then a limit order for every level that has
\* none and is not too close to price; the first cycle of a session anchors it.
EmitEntries(price) ==
  LET levels == {l \in Levels \ {price} : l \notin grid.placed \cup grid.filled}
      doubled == IF grid.queued THEN {<<grid.doubledLevel, "doubled">>} ELSE {}
  IN
  /\ pc = "cycle" /\ MayTrade
  /\ grid.anchored \/ price = 0
  /\ signals' = {WaitingKey(l, price) : l \in levels} \cup doubled
  /\ signals' # {}
  /\ grid' = [grid EXCEPT !.anchored = TRUE, !.placed = @ \cup levels,
                          !.legs = {k \in @ : k[1] \notin levels}, !.queued = FALSE]
  /\ pc' = "reads"
  /\ UNCHANGED <<faults, accountVars, orderMap, tradeMap, retryVars, gone, flat>>

ReadsAnswer ==
  /\ pc = "reads" /\ pc' = "signals"
  /\ UNCHANGED <<faults, accountVars, orderMap, tradeMap, retryVars, grid, gone, cycleVars>>

\* The exception ends the cycle, and what generate() has returned is lost.
ReadsFail ==
  /\ pc = "reads" /\ "read" \in faults
  /\ signals' = {} /\ flat' = FALSE /\ pc' = "poll"
  /\ UNCHANGED <<faults, accountVars, orderMap, tradeMap, retryVars, grid, gone>>

\* The doubled signal is the first of its cycle.
Processing(k) ==
  /\ pc = "signals" /\ k \in signals
  /\ k[2] = "doubled" \/ \A j \in signals : j[2] # "doubled"
  /\ signals' = signals \ {k}

PlaceRests(k) ==
  /\ Processing(k) /\ k \in Legs
  /\ resting' = resting \cup {k} /\ orderMap' = orderMap \cup {k}
  /\ UNCHANGED <<faults, unseen, open, tradeMap, retryVars, grid, pc, gone, flat>>

\* Price has passed the level since generate(): the order fills at once.
PlaceFills(k) ==
  /\ Processing(k) /\ k \in Legs
  /\ HedgedFill(k, unseen, open)
  /\ UNCHANGED <<faults, resting, orderMap, retryVars, pc, gone, flat>>

PlaceDoubled(k) ==
  /\ Processing(k) /\ k \notin Legs
  /\ open' = open \cup {k} /\ tradeMap' = tradeMap \cup {k}
  /\ grid' = ReportFill(grid, k)
  /\ UNCHANGED <<faults, resting, unseen, orderMap, retryVars, pc, gone, flat>>

PlaceRefused(k) ==
  /\ Processing(k)
  /\ (IF k \in Legs THEN "refuse" ELSE "double") \in faults
  /\ grid' = OnSignalRejected(grid, k[1])
  /\ UNCHANGED <<faults, accountVars, orderMap, tradeMap, retryVars, pc, gone, flat>>

SignalsDone ==
  /\ pc = "signals" /\ signals = {} /\ ~flat
  /\ pc' = "poll"
  /\ UNCHANGED <<faults, accountVars, orderMap, tradeMap, retryVars, grid, gone, cycleVars>>
-----------------------------------------------------------------------------
(***************************************************************************)
(* _close_all_trades, for one FLAT signal.                                 *)
(***************************************************************************)
Attempting == pc = "signals" /\ flat /\ failedCount < MaxRetries /\ ~waiting

BackoffEnds ==
  /\ waiting /\ waiting' = FALSE
  /\ UNCHANGED <<faults, accountVars, orderMap, tradeMap, failedCount, running, grid, pc,
                 gone, cycleVars>>

BreakerTrips ==
  /\ pc = "signals" /\ flat /\ failedCount = MaxRetries
  /\ running' = FALSE /\ flat' = FALSE /\ pc' = "poll"
  /\ UNCHANGED <<faults, accountVars, orderMap, tradeMap, failedCount, waiting, grid, gone,
                 signals>>

StillWaiting ==
  /\ pc = "signals" /\ flat /\ failedCount < MaxRetries /\ waiting
  /\ flat' = FALSE /\ pc' = "poll"
  /\ UNCHANGED <<faults, accountVars, orderMap, tradeMap, retryVars, grid, gone, signals>>

CloseAllSucceeds ==
  /\ Attempting
  /\ resting' = {} /\ unseen' = {} /\ open' = {} /\ orderMap' = {} /\ tradeMap' = {}
  /\ failedCount' = 0
  /\ grid' = NotifyComplete(grid)
  /\ flat' = FALSE /\ pc' = "poll"
  /\ UNCHANGED <<faults, waiting, running, gone, signals>>

\* The orders are cancelled, some trades stay open; the maps keep everything.  The
\* attempt counts unless a read of the open trades raises; trades that are left
\* although every close has answered schedule no back-off.
CloseAllFails ==
  /\ Attempting /\ "close" \in faults
  /\ resting' = {} /\ unseen' \in SUBSET unseen /\ open' \in SUBSET open
  /\ \/ UNCHANGED <<failedCount, waiting>>
     \/ /\ unseen' \cup open' # {}
        /\ failedCount' = failedCount + 1 /\ waiting' \in BOOLEAN
  /\ flat' = FALSE /\ pc' = "poll"
  /\ UNCHANGED <<faults, orderMap, tradeMap, running, grid, gone, signals>>

Next ==
  \/ PollStarts \/ PollFails \/ PollEnds \/ SkipCycle \/ EmitFlat \/ ReadsAnswer \/ ReadsFail
  \/ SignalsDone \/ BackoffEnds \/ BreakerTrips \/ StillWaiting
  \/ CloseAllSucceeds \/ CloseAllFails
  \/ \E price \in -5 .. 5 : EmitEntries(price)
  \/ \E k \in Keys :
       \/ BrokerFill(k) \/ BrokerClose(k)
       \/ MatchFill(k) \/ MatchCancelled(k) \/ CheckClosure(k)
       \/ PlaceRests(k) \/ PlaceFills(k) \/ PlaceDoubled(k) \/ PlaceRefused(k)

Spec == Init /\ [][Next]_vars
-----------------------------------------------------------------------------
(***************************************************************************)
(* Properties.                                                             *)
(***************************************************************************)
GridType ==
  [ anchored : BOOLEAN, active : BOOLEAN,
    placed : SUBSET Levels, filled : SUBSET Levels,
    legs : SUBSET Legs, closed : SUBSET Keys,
    triggers : [Levels -> 0 .. WhipsawLimit], paused : BOOLEAN,
    doubledLevel : Levels \cup {None}, doubledActive : BOOLEAN, queued : BOOLEAN,
    pending : BOOLEAN, closing : BOOLEAN, exiting : BOOLEAN ]

TypeOK ==
  /\ faults \in Environments
  /\ resting \subseteq Legs /\ unseen \subseteq Legs /\ open \subseteq Keys
  /\ orderMap \subseteq Legs /\ tradeMap \subseteq Keys
  /\ failedCount \in 0 .. MaxRetries /\ waiting \in BOOLEAN /\ running \in BOOLEAN
  /\ grid \in GridType
  /\ pc \in {"poll", "fills", "cycle", "reads", "signals"}
  /\ gone \subseteq Legs /\ signals \subseteq Keys /\ flat \in BOOLEAN

\* "Hedged pairs net to zero" (class docstring): between polls both sides of a
\* pair are held until the first of them ends at the broker.
Hedged ==
  (pc = "poll" /\ grid.active /\ faults \cap {"opposite", "rush"} = {}) =>
    \A l \in grid.filled : LegsOf(l) \cap grid.closed = {} => LegsOf(l) \subseteq tradeMap

\* A level's order rests only while no trade of its pair is open, and there is
\* one doubled position at a time: a level is released when its exposure is over.
OneOfEach ==
  "double" \notin faults =>
    /\ \A k \in resting : LegsOf(k[1]) \cap (open \cup unseen) = {}
    /\ \A j, k \in open : j[2] = "doubled" /\ k[2] = "doubled" => j = k

\* The strategy waits for the end of the doubled position only while there is one,
\* or the order for it is on its way.
DoubledBacked ==
  (pc = "poll" /\ faults \cap {"double", "read"} = {} /\ grid.doubledActive) =>
    \/ grid.queued \/ grid.exiting \/ ~grid.active
    \/ <<grid.doubledLevel, "doubled">> \in tradeMap

\* "If the doubled position closed, close all and restart" (report_trade_closed),
\* "the session pauses automatically" (trading-concepts.md): once a callback or the
\* loss limit has asked for the exit, no further level is placed before it is done.
ExitHolds == [][grid.exiting => grid'.placed \subseteq grid.placed]_vars

\* The same, as long as no attempt fails and no FLAT signal is lost.
ExitHoldsUnlessLost ==
  [][grid.exiting /\ faults \cap {"close", "read"} = {} =>
       grid'.placed \subseteq grid.placed]_vars

=============================================================================
