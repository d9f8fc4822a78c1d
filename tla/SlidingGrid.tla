----------------------------- MODULE SlidingGrid -----------------------------
(***************************************************************************)
(* The ladder of CibySlidingGridStrategy and the window that slides over   *)
(* it: which orders rest at which price, which levels are retracted and    *)
(* which are retired as price moves, and whose fill the engine takes a new *)
(* trade for.                                                              *)
(*                                                                         *)
(* Prices are integers, relative to the anchor of the session; price moves *)
(* by one unit at a time, any number of times between two iterations of    *)
(* the engine's loop.  The broker takes every order and fills it at its    *)
(* price: failing calls, gaps and fills within a poll are FillTracking's.  *)
(* An iteration polls, then may run a cycle; the repeated generate() of    *)
(* one cycle finds nothing more to do and is left out, as are P&L exits.   *)
(***************************************************************************)
EXTENDS Integers, FiniteSets

CONSTANTS
  Reach,        \* levels above and below the anchor: 100 in _build_ladder
  AnchorGap, GridSpacing, BuySellOffset, StopBuffer,
  MinDistance,  \* _MIN_RESTING_DISTANCE
  Ahead,        \* _max_levels_ahead
  Behind,       \* _max_levels_behind
  Lowest,       \* bounds: price stays within Lowest .. Highest, relative to the
  Highest       \* anchor

ASSUME SlidingGridConstants ==
  /\ Reach \in Nat \ {0} /\ AnchorGap \in Nat \ {0} /\ GridSpacing \in Nat \ {0}
  /\ BuySellOffset \in Nat /\ StopBuffer \in Nat /\ MinDistance \in Nat
  /\ Ahead \in Nat \ {0} /\ Behind \in Nat \ {0}
  /\ Lowest \in Int /\ Highest \in Nat /\ Lowest <= 0

VARIABLES
  price,        \* at the broker
  resting,      \* the account: keys of the resting orders
  opened,       \* the account: keys of the open trades the engine has not seen
  tracked,      \* the account: the others, as <<key the engine has mapped to the
                \* trade in _grid_trade_map, key the trade was placed for>>
  orderMap,     \* the engine's _pending_order_map
  \* the strategy: _anchor_price is set, and the keys or levels of _placed,
  \* _filled (the keys of _grid_trade_map are the same), _retired, _pending_close
  anchored, placed, filled, retired, pendingClose,
  phase         \* of the iteration: before, in or after its fast poll

accountVars == <<price, resting, opened, tracked>>
bookVars    == <<anchored, placed, filled, retired, pendingClose>>
vars == <<accountVars, orderMap, bookVars, phase>>
-----------------------------------------------------------------------------
Levels == -Reach .. Reach
Anchor == 0
Sides == {"long", "short"}
Keys == Levels \X Sides

\* The ladder: the first level is AnchorGap away, the others GridSpacing apart.
PriceOf(level) ==
  CASE level = Anchor -> 0
    [] level > Anchor -> AnchorGap + (level - 1) * GridSpacing
    [] OTHER          -> -AnchorGap + (level + 1) * GridSpacing

\* The buy of a pair is entered above the sell.
Entry(k) == IF k[2] = "long" THEN PriceOf(k[1]) + BuySellOffset ELSE PriceOf(k[1])

\* The neighbour in the losing direction, past which the stop goes.
Neighbour(k) == IF k[2] = "long" THEN k[1] - 1 ELSE k[1] + 1

Stop(k) ==
  LET gap == PriceOf(Neighbour(k)) - PriceOf(k[1]) IN
  IF k[2] = "long" THEN Entry(k) + gap - StopBuffer ELSE Entry(k) + gap + StopBuffer

SidesOf(levels) == levels \X Sides
LevelsOf(keys) == {k[1] : k \in keys}

Gap(p, q) == IF p >= q THEN p - q ELSE q - p
Distance(level) == Gap(PriceOf(level), price)
-----------------------------------------------------------------------------
Init ==
  /\ price = 0 /\ resting = {} /\ opened = {} /\ tracked = {} /\ orderMap = {}
  /\ anchored = FALSE /\ placed = {} /\ filled = {} /\ retired = {} /\ pendingClose = {}
  /\ phase = "market"

(***************************************************************************)
(* The account: a price touches entries and stops.                         *)
(***************************************************************************)
PriceMoves(d) ==
  /\ anchored /\ phase = "market" /\ price + d \in Lowest .. Highest
  /\ price' = price + d
  /\ resting' = {k \in resting : Entry(k) # price'}
  /\ opened' = {k \in opened : Stop(k) # price'} \cup {k \in resting : Entry(k) = price'}
  /\ tracked' = {t \in tracked : Stop(t[2]) # price'}
  /\ UNCHANGED <<orderMap, bookVars, phase>>

(***************************************************************************)
(* The fast poll.                                                          *)
(***************************************************************************)
\* The orders that are no longer pending (`disappeared`).
Gone == {k \in orderMap : k \notin resting}

\* The new trades of k's side that were opened nearest to k's level, be they its own
\* order's or another's.
Nearest(k) ==
  LET sameSide == {j \in opened : j[2] = k[2]}
      from(j)  == Gap(Entry(j), PriceOf(k[1]))
  IN  {j \in sameSide : \A i \in sameSide : from(j) <= from(i)}

\* A vanished order takes one of these for its fill; whose turn comes first is left open.
MatchFill(k, j) ==
  /\ phase # "cycle" /\ k \in Gone /\ j \in Nearest(k)
  /\ orderMap' = orderMap \ {k}
  /\ opened' = opened \ {j} /\ tracked' = tracked \cup {<<k, j>>}
  /\ placed' = placed \ {k} /\ filled' = filled \cup {k}
  /\ phase' = "poll"
  /\ UNCHANGED <<price, resting, anchored, retired, pendingClose>>

\* Mutant: only the trade at the order's own entry is taken for its fill.
MatchCancelledIfNotOwn(k) ==
  /\ phase # "cycle" /\ k \in Gone /\ k \notin opened
  /\ orderMap' = orderMap \ {k} /\ placed' = placed \ {k}
  /\ phase' = "poll"
  /\ UNCHANGED <<accountVars, anchored, filled, retired, pendingClose>>

\* There is none: it was cancelled, as far as the engine can tell, or its trade has been
\* stopped out; its side is released.
MatchCancelled(k) ==
  /\ phase # "cycle" /\ k \in Gone /\ Nearest(k) = {}
  /\ orderMap' = orderMap \ {k} /\ placed' = placed \ {k}
  /\ phase' = "poll"
  /\ UNCHANGED <<accountVars, anchored, filled, retired, pendingClose>>

\* Vanished trades are reported closed, then the keys handed over are cancelled
\* and closed.
FinishPoll ==
  LET live      == {k \in filled : \E t \in tracked : t[1] = k}
      trims     == {k \in live : k \in pendingClose}
      forgotten == {k \in (filled \ live) \cup trims : k[1] \in retired}
  IN
  /\ anchored /\ phase # "cycle" /\ Gone = {}
  /\ placed' = {k \in placed : k \notin forgotten}
  /\ filled' = {k \in live : k \notin pendingClose}
  /\ tracked' = {t \in tracked : t[1] \notin pendingClose}
  /\ resting' = {k \in resting : k \notin orderMap \cap pendingClose}
  /\ orderMap' = {k \in orderMap : k \notin pendingClose}
  /\ pendingClose' = {}
  /\ phase' = "cycle"
  /\ UNCHANGED <<price, opened, anchored, retired>>

(***************************************************************************)
(* generate(), for a session whose P&L is within its limits.               *)
(***************************************************************************)
Rising == price >= 0

LevelsAbove == IF Rising THEN Ahead ELSE Behind
LevelsBelow == IF Rising THEN Behind ELSE Ahead

\* Mutant: the ladder is taken to be one level longer than its stops.
WindowPastLadder ==
  {l \in -Reach .. Reach + 1 :
     \/ /\ PriceOf(l) > price
        /\ l - LevelsAbove \notin Levels \/ PriceOf(l - LevelsAbove) <= price
     \/ /\ PriceOf(l) < price
        /\ l + LevelsBelow \notin Levels \/ PriceOf(l + LevelsBelow) >= price}

\* The levels nearest to price on each side, more of them where it is heading: a
\* level above price is among the first n if the n-th below it is not above price.
Window ==
  {l \in Levels :
     \/ /\ PriceOf(l) > price
        /\ l - LevelsAbove \notin Levels \/ PriceOf(l - LevelsAbove) <= price
     \/ /\ PriceOf(l) < price
        /\ l + LevelsBelow \notin Levels \/ PriceOf(l + LevelsBelow) >= price}

Active == LevelsOf(filled)

\* sorted by distance to price; of two levels at the same distance, one on each
\* side of price, either may come first.
Nearer(l, m, lowerFirst) ==
  \/ Distance(l) < Distance(m)
  \/ Distance(l) = Distance(m) /\ IF lowerFirst THEN l < m ELSE l > m

BeyondCap(side, cap, lowerFirst) ==
  {l \in side : Cardinality({m \in side : Nearer(m, l, lowerFirst)}) >= cap}

\* Mutant: the anchor counts as a level of either side.
TrimmedWithAnchor(lowerFirst) ==
  BeyondCap({l \in Active : l >= Anchor}, LevelsAbove, lowerFirst)
  \cup
  BeyondCap({l \in Active : l <= Anchor}, LevelsBelow, lowerFirst)

\* _trim_active_levels: the levels that are retired, the anchor apart.
Trimmed(lowerFirst) ==
  BeyondCap({l \in Active : l > Anchor}, LevelsAbove, lowerFirst)
  \cup
  BeyondCap({l \in Active : l < Anchor}, LevelsBelow, lowerFirst)

\* Mutant: the resting side of a half-filled level is left at the broker.
HandedOverTradesOnly(trimmed) ==
  {k \in filled : k[1] \in trimmed \ retired}

\* _retire_level: every open or resting side of a newly retired level is handed over.
HandedOver(trimmed) ==
  {k \in filled \cup placed : k[1] \in trimmed \ retired}

\* Mutant: no order is ever retracted.
NothingStale(window) == {}

\* _retract_stale_placed: levels that only rest, outside the window.
Stale(window) ==
  {k \in placed : k[1] \notin window \cup {Anchor} /\ k[1] \notin Active}

\* What the next get_levels_to_close returns.
ToClose(trimmed, stale) == HandedOver(trimmed) \cup stale

\* _queue_side: the sides to be entered, if there is room to rest an order.
HasStop(k) == Neighbour(k) \in Levels
CanRest(k) ==
  LET distance == Entry(k) - price IN distance >= MinDistance \/ distance <= -MinDistance

Missing(window, excluded, present) ==
  {k \in SidesOf(window \ excluded) \ present : HasStop(k) /\ CanRest(k)}

\* _trim_active_levels and _maintain_grid, then the placement of what was queued.
MaintainGrid(lowerFirst) ==
  LET trimmed == Trimmed(lowerFirst)
      stale  == Stale(Window)
      queued == Missing(Window, retired \cup trimmed, filled \cup (placed \ stale))
  IN
  /\ anchored /\ phase = "cycle"
  /\ retired' = retired \cup trimmed
  /\ pendingClose' = pendingClose \cup ToClose(trimmed, stale)
  /\ placed' = (placed \ stale) \cup queued
  /\ resting' = resting \cup queued
  /\ orderMap' = orderMap \cup queued
  /\ phase' = "market"
  /\ UNCHANGED <<price, opened, tracked, anchored, filled>>

\* The interval has not elapsed: the iteration ends with its poll.
SkipCycle ==
  /\ phase = "cycle"
  /\ phase' = "market"
  /\ UNCHANGED <<accountVars, orderMap, bookVars>>

\* A fresh anchor at the current price: its pair at market, the first levels out.
OpenSession ==
  LET pair   == {k \in SidesOf({Anchor}) : HasStop(k)}
      queued == Missing(Window, {}, pair)
  IN
  /\ ~anchored
  /\ anchored' = TRUE
  /\ tracked' = {<<k, k>> : k \in pair} /\ filled' = pair
  /\ resting' = queued /\ placed' = queued /\ orderMap' = queued
  /\ UNCHANGED <<price, opened, retired, pendingClose, phase>>

\* A liquidation, and notify_close_all_complete: the next anchor will be
\* wherever price is then.
EndSession ==
  /\ anchored /\ phase = "cycle"
  /\ anchored' = FALSE /\ price' = 0
  /\ resting' = {} /\ opened' = {} /\ tracked' = {} /\ orderMap' = {}
  /\ placed' = {} /\ filled' = {} /\ retired' = {} /\ pendingClose' = {}
  /\ phase' = "market"

FastPoll ==
  \/ FinishPoll
  \/ \E k \in orderMap, j \in opened : MatchFill(k, j)
  \/ \E k \in orderMap : MatchCancelled(k)

Next ==
  \/ \E d \in {-1, 1} : PriceMoves(d)
  \/ FastPoll
  \/ \E lowerFirst \in BOOLEAN : MaintainGrid(lowerFirst)
  \/ SkipCycle
  \/ OpenSession
  \/ EndSession

Spec == Init /\ [][Next]_vars
-----------------------------------------------------------------------------
(***************************************************************************)
(* Properties.                                                             *)
(***************************************************************************)
TypeOK ==
  /\ price \in Lowest .. Highest
  /\ resting \subseteq Keys /\ opened \subseteq Keys /\ orderMap \subseteq Keys
  /\ tracked \subseteq Keys \X Keys
  /\ anchored \in BOOLEAN
  /\ placed \subseteq Keys /\ filled \subseteq Keys
  /\ retired \subseteq Levels /\ pendingClose \subseteq Keys
  /\ phase \in {"market", "poll", "cycle"}

\* The levels the engine has an order or a trade for that has not been handed over, the
\* anchor apart.
Footprint == LevelsOf((orderMap \cup filled) \ pendingClose) \ {Anchor}

\* "so the footprint does not grow without bound" (_maintain_grid): however price
\* runs between two cycles, the levels with an order or a trade, the anchor apart,
\* are no more than the window and the caps allow.
BoundedFootprint == Cardinality(Footprint) <= 2 * (Ahead + Behind)

\* Every trade the engine tracks is its key's own.  A vanished order whose own trade was
\* stopped out unseen takes another order's for it (_check_limit_fills), and ends this.
OwnKeys == \A t \in tracked : t[1] = t[2]

\* A retired level is closed by the next fast poll and not opened again (_retire_level
\* and its callers): it has no order, no trade is taken for one of it, and as long as
\* the engine takes no trade for another's, it has none at the account.
RetiredStaysShut ==
  phase = "cycle" =>
    /\ \A k \in resting \cup filled : k[1] \notin retired
    /\ OwnKeys => \A t \in tracked : t[2][1] \notin retired

\* Every resting order is one the strategy has placed or asked to be cancelled, and
\* the engine knows it.  Every open trade is tracked, under a key of its own, or
\* was a resting order till just now; and none is missed by a poll, although
\* orders may take each other's trades.
NothingForgotten ==
  /\ resting \subseteq orderMap
  /\ orderMap \subseteq placed \cup pendingClose
  /\ \A t \in tracked : t[1] \in filled /\ t[1][2] = t[2][2]
  /\ \A t, u \in tracked : t[1] = u[1] => t = u
  /\ phase = "market" => opened \subseteq Gone
  /\ phase = "cycle" => opened = {}

\* The trades that the engine takes for the anchor pair's, and as long as it takes none
\* for another's the pair itself, are never closed for margin: they end by their
\* stops, or with the session.
AnchorRides ==
  [][\A t \in tracked :
       t[1][1] = Anchor /\ t \notin tracked' => ~anchored' \/ price' = Stop(t[2])]_vars

=============================================================================
