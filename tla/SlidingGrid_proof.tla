-------------------------- MODULE SlidingGrid_proof --------------------------
(***************************************************************************)
(* For any ladder, gaps, caps and path of the price: no order or trade is  *)
(* forgotten, a retired level stays shut, the anchor pair rides, and the   *)
(* levels with an order or a trade stay within the window and the caps.    *)
(***************************************************************************)
EXTENDS SlidingGrid, FiniteSetTheorems, WellFoundedInduction, TLAPS

\* A pairing of the trades that the engine has not seen with vanished orders of their
\* sides.
Pairs(f, trades, orders) ==
  /\ f \in [trades -> orders]
  /\ \A j \in trades : f[j][2] = j[2]
  /\ \A i, j \in trades : i # j => f[i] # f[j]

\* What is booked as filled has no order; an order that has become a trade does not rest;
\* as many orders have vanished as there are trades to find; and right after a poll
\* the orders are the account's.
Tracking ==
  /\ filled \cap orderMap = {} /\ resting \cap opened = {}
  /\ phase = "poll" => \E f : Pairs(f, opened, Gone)
  /\ phase = "cycle" => orderMap \subseteq resting /\ pendingClose = {}
  /\ phase # "market" => anchored
  /\ ~anchored => /\ orderMap = {} /\ tracked = {} /\ filled = {}
                  /\ retired = {} /\ pendingClose = {}

\* What is left of a retired level has been handed over.
Shut ==
  \A k \in orderMap \cup filled : k[1] \in retired => k \in pendingClose

\* The anchor never is.
AnchorKept == \A k \in pendingClose : k[1] # Anchor

IInv == TypeOK /\ NothingForgotten /\ Tracking /\ Shut /\ AnchorKept

LEMMA NextCases ==
  ASSUME Next
  PROVE  \/ \E d \in {-1, 1} : PriceMoves(d)
         \/ \E k \in orderMap, j \in opened : MatchFill(k, j)
         \/ \E k \in orderMap : MatchCancelled(k)
         \/ FinishPoll
         \/ \E lowerFirst \in BOOLEAN : MaintainGrid(lowerFirst)
         \/ SkipCycle
         \/ OpenSession
         \/ EndSession
  BY DEF Next, FastPoll

\* Before and in a poll there is a vanished order for each trade the engine has not seen.
LEMMA OrdersToMatch ==
  ASSUME NothingForgotten, Tracking, phase \in {"market", "poll"}
  PROVE  \E f : Pairs(f, opened, Gone)
  <1>1. CASE phase = "market"
    <2>1. Pairs([j \in opened |-> j], opened, Gone)
      BY <1>1 DEF Pairs, NothingForgotten
    <2>2. QED
      BY <2>1
  <1>2. QED
    BY <1>1 DEF Tracking

LEMMA TimesMonotone ==
  ASSUME NEW a \in Int, NEW b \in Int, NEW g \in Nat, a <= b
  PROVE  a * g <= b * g
  <1>1. PICK d \in Nat : b = a + d
    <2>1. b - a \in Nat /\ b = a + (b - a)
      OBVIOUS
    <2>2. QED
      BY <2>1
  <1>2. b * g = a * g + d * g /\ d * g >= 0
    BY <1>1
  <1>3. a * g \in Int /\ b * g \in Int /\ d * g \in Int
    BY <1>1
  <1>4. QED
    BY <1>2, <1>3

\* Further up the ladder is not at a lower price.
LEMMA PriceOfMonotone ==
  ASSUME NEW l \in Int, NEW m \in Int
  PROVE  PriceOf(l) \in Int /\ (l <= m => PriceOf(l) <= PriceOf(m))
  <1>1. /\ AnchorGap \in Nat /\ GridSpacing \in Nat
        /\ \A k \in Int : (k - 1) * GridSpacing \in Int /\ (k + 1) * GridSpacing \in Int
    BY SlidingGridConstants
  <1>2. \A k \in Int : /\ k = 0 => PriceOf(k) = 0
                       /\ k > 0 => PriceOf(k) = AnchorGap + (k - 1) * GridSpacing
                       /\ k < 0 => PriceOf(k) = -AnchorGap + (k + 1) * GridSpacing
    BY DEF PriceOf, Anchor
  <1>3. l <= m => /\ (l - 1) * GridSpacing <= (m - 1) * GridSpacing
                  /\ (l + 1) * GridSpacing <= (m + 1) * GridSpacing
    BY <1>1, TimesMonotone
  <1>4. \A k \in Int : /\ k > 0 => (k - 1) * GridSpacing >= 0
                       /\ k < 0 => (k + 1) * GridSpacing <= 0
    <2>1. 0 * GridSpacing = 0
      BY <1>1
    <2>2. ASSUME NEW k \in Int, k > 0 PROVE (k - 1) * GridSpacing >= 0
      BY <1>1, <2>1, <2>2, TimesMonotone
    <2>3. ASSUME NEW k \in Int, k < 0 PROVE (k + 1) * GridSpacing <= 0
      BY <1>1, <2>1, <2>3, TimesMonotone
    <2>4. QED
      BY <2>2, <2>3
  <1> DEFINE down(k) == (k - 1) * GridSpacing
             up(k)   == (k + 1) * GridSpacing
  <1>5. /\ \A k \in Int : down(k) \in Int /\ up(k) \in Int
        /\ \A k \in Int : /\ k = 0 => PriceOf(k) = 0
                          /\ k > 0 => PriceOf(k) = AnchorGap + down(k) /\ down(k) >= 0
                          /\ k < 0 => PriceOf(k) = -AnchorGap + up(k) /\ up(k) <= 0
        /\ l <= m => down(l) <= down(m) /\ up(l) <= up(m)
    BY <1>1, <1>2, <1>3, <1>4
  <1> HIDE DEF down, up
  <1>6. QED
    BY <1>1, <1>5

\* A set of numbers has a least element.
LEMMA LeastElement ==
  ASSUME NEW T \in SUBSET Nat, T # {}
  PROVE  \E d \in T : \A e \in T : d <= e
  <1> DEFINE less == OpToRel(<, Nat)
  <1>1. PICK d \in T : \A e \in T : ~(<<e, d>> \in less)
    BY NatLessThanWellFounded, WFMin
  <1>2. ASSUME NEW e \in T PROVE d <= e
    <2>1. d \in Nat /\ e \in Nat
      OBVIOUS
    <2>2. ~(<<e, d>> \in less)
      BY <1>1
    <2>3. e < d => <<e, d>> \in less
      BY <2>1, Zenon DEF OpToRel
    <2> HIDE DEF less
    <2>4. ~(e < d)
      BY <2>2, <2>3
    <2>5. QED
      BY <2>1, <2>4
  <1>3. QED
    BY <1>2

\* If there are new trades of a key's side, one is nearest.
LEMMA NearestExists ==
  ASSUME TypeOK, NEW k \in orderMap, NEW j \in opened, j[2] = k[2]
  PROVE  Nearest(k) # {}
  <1> DEFINE sameSide == {i \in opened : i[2] = k[2]}
             from(i)  == Gap(Entry(i), PriceOf(k[1]))
             far == {from(i) : i \in sameSide}
  <1>1. \A i \in sameSide : from(i) \in Nat
    <2>1. ASSUME NEW i \in Keys PROVE PriceOf(i[1]) \in Int /\ Entry(i) \in Int
      <3>1. i[1] \in Int /\ BuySellOffset \in Int
        BY SlidingGridConstants DEF Keys, Levels
      <3>2. PriceOf(i[1]) \in Int
        BY <3>1, PriceOfMonotone
      <3>3. QED
        BY <3>1, <3>2 DEF Entry
    <2>2. k \in Keys /\ \A i \in sameSide : i \in Keys
      BY DEF TypeOK
    <2>3. ASSUME NEW a \in Int, NEW b \in Int PROVE Gap(a, b) \in Nat
      BY DEF Gap
    <2>4. QED
      BY <2>1, <2>2, <2>3
  <1>2. far \in SUBSET Nat /\ far # {}
    BY <1>1
  <1>3. PICK d \in far : \A e \in far : d <= e
    <2> HIDE DEF far
    <2>1. QED
      BY <1>2, LeastElement
  <1>4. PICK i \in sameSide : d = from(i)
    OBVIOUS
  <1>5. i \in Nearest(k)
    BY <1>3, <1>4 DEF Nearest
  <1>6. QED
    BY <1>5

\* What is nearest is on offer, and of the key's side.
LEMMA NearestIsNew ==
  ASSUME NEW k, NEW j \in Nearest(k)
  PROVE  j \in opened /\ j[2] = k[2]
  BY DEF Nearest

LEMMA WindowInLadder == Window \subseteq Levels
  BY DEF Window

\* Only levels on one side of the anchor are trimmed.
LEMMA TrimmedBesideAnchor ==
  ASSUME NEW lowerFirst \in BOOLEAN, TypeOK
  PROVE  Trimmed(lowerFirst) \subseteq Levels \ {Anchor}
  <1>1. Active \subseteq Levels
    BY DEF Active, LevelsOf, TypeOK, Keys
  <1>2. Levels \subseteq Int
    BY SlidingGridConstants DEF Levels
  <1>3. \A l \in Active : l > Anchor \/ l < Anchor => l \in Levels \ {Anchor}
    BY <1>1, <1>2 DEF Anchor
  <1>4. Trimmed(lowerFirst) \subseteq {l \in Active : l > Anchor \/ l < Anchor}
    BY DEF Trimmed, BeyondCap
  <1>5. QED
    BY <1>3, <1>4

\* What is queued is new: no side that is filled, placed or retracted just now.
LEMMA QueuedIsNew ==
  ASSUME TypeOK, NEW excluded, NEW stale, stale = Stale(Window),
         NEW k \in Missing(Window, excluded, filled \cup (placed \ stale))
  PROVE  k \in Keys /\ k \notin filled /\ k \notin placed /\ k[1] \notin excluded
  <1>1. k \in SidesOf(Window \ excluded) /\ k \notin filled /\ k \notin placed \ stale
    BY DEF Missing
  <1>2. k[1] \in Window \ excluded /\ k \in Keys
    BY <1>1, WindowInLadder DEF SidesOf, Keys
  <1>3. k \notin stale
    BY <1>2 DEF Stale
  <1>4. QED
    BY <1>1, <1>2, <1>3

LEMMA PairTyped == {k \in SidesOf({Anchor}) : HasStop(k)} \subseteq Keys
  BY SlidingGridConstants DEF SidesOf, Keys, Levels, Anchor

LEMMA FirstOrders ==
  ASSUME NEW pair
  PROVE  /\ Missing(Window, {}, pair) \subseteq Keys
         /\ Missing(Window, {}, pair) \cap pair = {}
  BY WindowInLadder DEF Missing, SidesOf, Keys

LEMMA StartInBounds == 0 \in Lowest .. Highest
  BY SlidingGridConstants

LEMMA TypeInit == Init => TypeOK
  BY StartInBounds DEF Init, TypeOK

LEMMA TypeStep ==
  ASSUME TypeOK, [Next]_vars
  PROVE  TypeOK'
  <1> USE DEF accountVars, bookVars
  <1>1. ASSUME NEW d \in {-1, 1}, PriceMoves(d) PROVE TypeOK'
    BY <1>1 DEF PriceMoves, TypeOK
  <1>2. ASSUME NEW k \in orderMap, NEW j \in opened, MatchFill(k, j) PROVE TypeOK'
    BY <1>2 DEF MatchFill, TypeOK
  <1>3. ASSUME NEW k \in orderMap, MatchCancelled(k) PROVE TypeOK'
    BY <1>3 DEF MatchCancelled, TypeOK
  <1>4. ASSUME FinishPoll PROVE TypeOK'
    BY <1>4 DEF FinishPoll, TypeOK
  <1>5. ASSUME NEW lowerFirst \in BOOLEAN, MaintainGrid(lowerFirst) PROVE TypeOK'
    <2> DEFINE trimmed == Trimmed(lowerFirst)
               stale   == Stale(Window)
               queued  == Missing(Window, retired \cup trimmed, filled \cup (placed \ stale))
    <2>1. \A k \in queued :
            k \in Keys /\ k \notin filled /\ k \notin placed /\ k[1] \notin retired \cup trimmed
      BY QueuedIsNew
    <2>2. /\ placed' = (placed \ stale) \cup queued
          /\ resting' = resting \cup queued /\ orderMap' = orderMap \cup queued
          /\ retired' = retired \cup trimmed
          /\ pendingClose' = pendingClose \cup HandedOver(trimmed) \cup stale
          /\ anchored /\ anchored' = anchored /\ phase = "cycle" /\ phase' = "market"
          /\ price' = price /\ opened' = opened /\ tracked' = tracked /\ filled' = filled
      BY <1>5 DEF MaintainGrid, ToClose
    <2>3. trimmed \subseteq Levels \ {Anchor}
      BY TrimmedBesideAnchor
    <2>4. /\ HandedOver(trimmed) = {k \in filled \cup placed : k[1] \in trimmed \ retired}
          /\ stale \subseteq placed /\ \A k \in stale : k[1] # Anchor
      BY DEF HandedOver, Stale
    <2> HIDE DEF trimmed, stale, queued
    <2>5. QED
      BY <2>1, <2>2, <2>3, <2>4 DEF TypeOK
  <1>6. ASSUME SkipCycle PROVE TypeOK'
    BY <1>6 DEF SkipCycle, TypeOK
  <1>7. ASSUME OpenSession PROVE TypeOK'
    <2> DEFINE pair == {k \in SidesOf({Anchor}) : HasStop(k)}
               queued == Missing(Window, {}, pair)
    <2>1. pair \subseteq Keys /\ queued \subseteq Keys
      BY PairTyped, FirstOrders
    <2>2. /\ anchored' = TRUE /\ tracked' = {<<k, k>> : k \in pair} /\ filled' = pair
          /\ resting' = queued /\ placed' = queued /\ orderMap' = queued
          /\ UNCHANGED <<price, opened, retired, pendingClose, phase>>
      BY <1>7 DEF OpenSession
    <2> HIDE DEF pair, queued
    <2>3. tracked' \subseteq Keys \X Keys
      BY <2>1, <2>2
    <2>4. QED
      BY <2>1, <2>2, <2>3 DEF TypeOK
  <1>8. ASSUME EndSession PROVE TypeOK'
    BY <1>8, StartInBounds DEF EndSession, TypeOK
  <1>9. CASE UNCHANGED vars
    BY <1>9 DEF vars, TypeOK, Gone
  <1>10. QED
    BY NextCases, <1>1, <1>2, <1>3, <1>4, <1>5, <1>6, <1>7, <1>8, <1>9

\* Keys stay on the ladder.
THEOREM TypeCorrect == Spec => []TypeOK
  <1>1. QED
    BY TypeInit, TypeStep, PTL DEF Spec

LEMMA ForgottenStep ==
  ASSUME TypeOK, NothingForgotten, Tracking, [Next]_vars
  PROVE  NothingForgotten'
  <1> USE DEF accountVars, bookVars
  <1>1. ASSUME NEW d \in {-1, 1}, PriceMoves(d) PROVE NothingForgotten'
    BY <1>1 DEF PriceMoves, TypeOK, NothingForgotten, Tracking, Gone
  <1>2. ASSUME NEW k \in orderMap, NEW j \in opened, MatchFill(k, j) PROVE NothingForgotten'
    <2>1. j \in opened /\ j[2] = k[2] /\ k \in orderMap /\ k \notin resting /\ k \notin filled
      BY <1>2, NearestIsNew DEF MatchFill, Gone, Tracking
    <2>2. \A t \in tracked : t[1] # k
      BY <2>1 DEF NothingForgotten
    <2>3. /\ \A t \in tracked' : t[1] \in filled' /\ t[1][2] = t[2][2]
          /\ \A t, u \in tracked' : t[1] = u[1] => t = u
      <3>1. tracked' = tracked \cup {<<k, j>>} /\ filled' = filled \cup {k}
        BY <1>2 DEF MatchFill
      <3>2. <<k, j>>[1] = k /\ <<k, j>>[2] = j
        OBVIOUS
      <3>3. QED
        BY <2>1, <2>2, <3>1, <3>2 DEF NothingForgotten
    <2>4. QED
      BY <1>2, <2>1, <2>3 DEF MatchFill, NothingForgotten
  <1>3. ASSUME NEW k \in orderMap, MatchCancelled(k) PROVE NothingForgotten'
    BY <1>3 DEF MatchCancelled, TypeOK, NothingForgotten, Tracking, Gone
  <1>4. ASSUME FinishPoll PROVE NothingForgotten'
    <2>1. opened = {}
      BY <1>4, OrdersToMatch DEF FinishPoll, Pairs, TypeOK
    <2>2. QED
      BY <1>4, <2>1 DEF FinishPoll, TypeOK, NothingForgotten, Tracking, Gone
  <1>5. ASSUME NEW lowerFirst \in BOOLEAN, MaintainGrid(lowerFirst) PROVE NothingForgotten'
    <2> DEFINE trimmed == Trimmed(lowerFirst)
               stale   == Stale(Window)
               queued  == Missing(Window, retired \cup trimmed, filled \cup (placed \ stale))
    <2>1. \A k \in queued :
            k \in Keys /\ k \notin filled /\ k \notin placed /\ k[1] \notin retired \cup trimmed
      BY QueuedIsNew
    <2>2. /\ placed' = (placed \ stale) \cup queued
          /\ resting' = resting \cup queued /\ orderMap' = orderMap \cup queued
          /\ retired' = retired \cup trimmed
          /\ pendingClose' = pendingClose \cup HandedOver(trimmed) \cup stale
          /\ anchored /\ anchored' = anchored /\ phase = "cycle" /\ phase' = "market"
          /\ price' = price /\ opened' = opened /\ tracked' = tracked /\ filled' = filled
      BY <1>5 DEF MaintainGrid, ToClose
    <2>3. trimmed \subseteq Levels \ {Anchor}
      BY TrimmedBesideAnchor
    <2>4. /\ HandedOver(trimmed) = {k \in filled \cup placed : k[1] \in trimmed \ retired}
          /\ stale \subseteq placed /\ \A k \in stale : k[1] # Anchor
      BY DEF HandedOver, Stale
    <2> HIDE DEF trimmed, stale, queued
    <2>5. QED
      BY <2>1, <2>2, <2>3, <2>4 DEF TypeOK, NothingForgotten, Tracking, Gone
  <1>6. ASSUME SkipCycle PROVE NothingForgotten'
    BY <1>6 DEF SkipCycle, TypeOK, NothingForgotten, Tracking, Gone
  <1>7. ASSUME OpenSession PROVE NothingForgotten'
    BY <1>7, PairTyped, FirstOrders DEF OpenSession, TypeOK, NothingForgotten, Tracking, Gone
  <1>8. ASSUME EndSession PROVE NothingForgotten'
    BY <1>8, StartInBounds DEF EndSession, TypeOK, NothingForgotten, Tracking, Gone
  <1>9. CASE UNCHANGED vars
    BY <1>9 DEF vars, TypeOK, NothingForgotten, Tracking, Gone, Gone
  <1>10. QED
    BY NextCases, <1>1, <1>2, <1>3, <1>4, <1>5, <1>6, <1>7, <1>8, <1>9

LEMMA TrackingStep ==
  ASSUME TypeOK, NothingForgotten, Tracking, [Next]_vars
  PROVE  Tracking'
  <1> USE DEF accountVars, bookVars
  <1>1. ASSUME NEW d \in {-1, 1}, PriceMoves(d) PROVE Tracking'
    BY <1>1 DEF PriceMoves, TypeOK, NothingForgotten, Tracking, Gone
  <1>2. ASSUME NEW k \in orderMap, NEW j \in opened, MatchFill(k, j) PROVE Tracking'
    <2>1. j \in opened /\ j[2] = k[2] /\ k \in Gone
      BY <1>2, NearestIsNew DEF MatchFill
    <2>2. PICK f : Pairs(f, opened, Gone)
      BY <1>2, OrdersToMatch DEF MatchFill, TypeOK
    <2> DEFINE g == [i \in opened \ {j} |-> IF f[i] = k THEN f[j] ELSE f[i]]
    <2>3. /\ g \in [opened \ {j} -> Gone \ {k}]
          /\ \A i \in opened \ {j} : g[i][2] = i[2]
          /\ \A h, i \in opened \ {j} : h # i => g[h] # g[i]
      BY <2>1, <2>2 DEF Pairs
    <2>4. opened' = opened \ {j} /\ Gone' = Gone \ {k}
      BY <1>2 DEF MatchFill, Gone
    <2>5. Pairs(g, opened', Gone')
      <3> HIDE DEF g
      <3>1. QED
        BY <2>3, <2>4 DEF Pairs
    <2>6. phase' = "poll" /\ anchored /\ anchored' /\ filled' \cap orderMap' = {}
          /\ resting' \cap opened' = {}
      BY <1>2 DEF MatchFill, Gone, Tracking
    <2>7. QED
      BY <2>5, <2>6 DEF Tracking
  <1>3. ASSUME NEW k \in orderMap, MatchCancelled(k) PROVE Tracking'
    <2>1. k \in Gone /\ Nearest(k) = {}
      BY <1>3 DEF MatchCancelled
    <2>2. PICK f : Pairs(f, opened, Gone)
      BY <1>3, OrdersToMatch DEF MatchCancelled, TypeOK
    <2>3. \A j \in opened : j[2] # k[2]
      BY <2>1, NearestExists
    <2>4. f \in [opened -> Gone \ {k}]
      BY <2>2, <2>3 DEF Pairs
    <2>5. opened' = opened /\ Gone' = Gone \ {k}
      BY <1>3 DEF MatchCancelled, Gone, accountVars
    <2>6. Pairs(f, opened', Gone')
      BY <2>2, <2>4, <2>5 DEF Pairs
    <2>7. phase' = "poll" /\ anchored /\ anchored' /\ filled' \cap orderMap' = {}
          /\ resting' \cap opened' = {}
      BY <1>3 DEF MatchCancelled, Gone, Tracking
    <2>8. QED
      BY <2>6, <2>7 DEF Tracking
  <1>4. ASSUME FinishPoll PROVE Tracking'
    <2>1. opened = {}
      BY <1>4, OrdersToMatch DEF FinishPoll, Pairs, TypeOK
    <2>2. QED
      BY <1>4, <2>1 DEF FinishPoll, TypeOK, NothingForgotten, Tracking, Gone
  <1>5. ASSUME NEW lowerFirst \in BOOLEAN, MaintainGrid(lowerFirst) PROVE Tracking'
    <2> DEFINE trimmed == Trimmed(lowerFirst)
               stale   == Stale(Window)
               queued  == Missing(Window, retired \cup trimmed, filled \cup (placed \ stale))
    <2>1. \A k \in queued :
            k \in Keys /\ k \notin filled /\ k \notin placed /\ k[1] \notin retired \cup trimmed
      BY QueuedIsNew
    <2>2. /\ placed' = (placed \ stale) \cup queued
          /\ resting' = resting \cup queued /\ orderMap' = orderMap \cup queued
          /\ retired' = retired \cup trimmed
          /\ pendingClose' = pendingClose \cup HandedOver(trimmed) \cup stale
          /\ anchored /\ anchored' = anchored /\ phase = "cycle" /\ phase' = "market"
          /\ price' = price /\ opened' = opened /\ tracked' = tracked /\ filled' = filled
      BY <1>5 DEF MaintainGrid, ToClose
    <2>3. trimmed \subseteq Levels \ {Anchor}
      BY TrimmedBesideAnchor
    <2>4. /\ HandedOver(trimmed) = {k \in filled \cup placed : k[1] \in trimmed \ retired}
          /\ stale \subseteq placed /\ \A k \in stale : k[1] # Anchor
      BY DEF HandedOver, Stale
    <2> HIDE DEF trimmed, stale, queued
    <2>5. QED
      BY <2>1, <2>2, <2>3, <2>4 DEF TypeOK, NothingForgotten, Tracking, Gone
  <1>6. ASSUME SkipCycle PROVE Tracking'
    BY <1>6 DEF SkipCycle, TypeOK, NothingForgotten, Tracking, Gone
  <1>7. ASSUME OpenSession PROVE Tracking'
    BY <1>7, PairTyped, FirstOrders DEF OpenSession, TypeOK, NothingForgotten, Tracking, Gone
  <1>8. ASSUME EndSession PROVE Tracking'
    BY <1>8, StartInBounds DEF EndSession, TypeOK, NothingForgotten, Tracking, Gone
  <1>9. CASE UNCHANGED vars
    BY <1>9 DEF vars, TypeOK, NothingForgotten, Tracking, Gone, Gone
  <1>10. QED
    BY NextCases, <1>1, <1>2, <1>3, <1>4, <1>5, <1>6, <1>7, <1>8, <1>9

LEMMA ShutStep ==
  ASSUME TypeOK, NothingForgotten, Tracking, Shut, [Next]_vars
  PROVE  Shut'
  <1> USE DEF accountVars, bookVars
  <1>1. ASSUME NEW d \in {-1, 1}, PriceMoves(d) PROVE Shut'
    BY <1>1 DEF PriceMoves, TypeOK, NothingForgotten, Tracking, Shut
  <1>2. ASSUME NEW k \in orderMap, NEW j \in opened, MatchFill(k, j) PROVE Shut'
    BY <1>2 DEF MatchFill, TypeOK, NothingForgotten, Tracking, Shut
  <1>3. ASSUME NEW k \in orderMap, MatchCancelled(k) PROVE Shut'
    BY <1>3 DEF MatchCancelled, TypeOK, NothingForgotten, Tracking, Shut
  <1>4. ASSUME FinishPoll PROVE Shut'
    BY <1>4 DEF FinishPoll, TypeOK, NothingForgotten, Tracking, Shut
  <1>5. ASSUME NEW lowerFirst \in BOOLEAN, MaintainGrid(lowerFirst) PROVE Shut'
    <2> DEFINE trimmed == Trimmed(lowerFirst)
               stale   == Stale(Window)
               queued  == Missing(Window, retired \cup trimmed, filled \cup (placed \ stale))
    <2>1. \A k \in queued :
            k \in Keys /\ k \notin filled /\ k \notin placed /\ k[1] \notin retired \cup trimmed
      BY QueuedIsNew
    <2>2. /\ placed' = (placed \ stale) \cup queued
          /\ resting' = resting \cup queued /\ orderMap' = orderMap \cup queued
          /\ retired' = retired \cup trimmed
          /\ pendingClose' = pendingClose \cup HandedOver(trimmed) \cup stale
          /\ anchored /\ anchored' = anchored /\ phase = "cycle" /\ phase' = "market"
          /\ price' = price /\ opened' = opened /\ tracked' = tracked /\ filled' = filled
      BY <1>5 DEF MaintainGrid, ToClose
    <2>3. trimmed \subseteq Levels \ {Anchor}
      BY TrimmedBesideAnchor
    <2>4. /\ HandedOver(trimmed) = {k \in filled \cup placed : k[1] \in trimmed \ retired}
          /\ stale \subseteq placed /\ \A k \in stale : k[1] # Anchor
      BY DEF HandedOver, Stale
    <2> HIDE DEF trimmed, stale, queued
    <2>5. QED
      BY <2>1, <2>2, <2>3, <2>4 DEF TypeOK, NothingForgotten, Tracking, Shut
  <1>6. ASSUME SkipCycle PROVE Shut'
    BY <1>6 DEF SkipCycle, TypeOK, NothingForgotten, Tracking, Shut
  <1>7. ASSUME OpenSession PROVE Shut'
    BY <1>7, PairTyped, FirstOrders DEF OpenSession, TypeOK, NothingForgotten, Tracking, Shut
  <1>8. ASSUME EndSession PROVE Shut'
    BY <1>8, StartInBounds DEF EndSession, TypeOK, NothingForgotten, Tracking, Shut
  <1>9. CASE UNCHANGED vars
    BY <1>9 DEF vars, TypeOK, NothingForgotten, Tracking, Shut, Gone
  <1>10. QED
    BY NextCases, <1>1, <1>2, <1>3, <1>4, <1>5, <1>6, <1>7, <1>8, <1>9

LEMMA AnchorStep ==
  ASSUME TypeOK, Tracking, AnchorKept, [Next]_vars
  PROVE  AnchorKept'
  <1> USE DEF accountVars, bookVars
  <1>1. ASSUME NEW d \in {-1, 1}, PriceMoves(d) PROVE AnchorKept'
    BY <1>1 DEF PriceMoves, Tracking, AnchorKept
  <1>2. ASSUME NEW k \in orderMap, NEW j \in opened, MatchFill(k, j) PROVE AnchorKept'
    BY <1>2 DEF MatchFill, Tracking, AnchorKept
  <1>3. ASSUME NEW k \in orderMap, MatchCancelled(k) PROVE AnchorKept'
    BY <1>3 DEF MatchCancelled, Tracking, AnchorKept
  <1>4. ASSUME FinishPoll PROVE AnchorKept'
    BY <1>4 DEF FinishPoll, Tracking, AnchorKept
  <1>5. ASSUME NEW lowerFirst \in BOOLEAN, MaintainGrid(lowerFirst) PROVE AnchorKept'
    <2> DEFINE trimmed == Trimmed(lowerFirst)
               stale   == Stale(Window)
               queued  == Missing(Window, retired \cup trimmed, filled \cup (placed \ stale))
    <2>1. \A k \in queued :
            k \in Keys /\ k \notin filled /\ k \notin placed /\ k[1] \notin retired \cup trimmed
      BY QueuedIsNew
    <2>2. /\ placed' = (placed \ stale) \cup queued
          /\ resting' = resting \cup queued /\ orderMap' = orderMap \cup queued
          /\ retired' = retired \cup trimmed
          /\ pendingClose' = pendingClose \cup HandedOver(trimmed) \cup stale
          /\ anchored /\ anchored' = anchored /\ phase = "cycle" /\ phase' = "market"
          /\ price' = price /\ opened' = opened /\ tracked' = tracked /\ filled' = filled
      BY <1>5 DEF MaintainGrid, ToClose
    <2>3. trimmed \subseteq Levels \ {Anchor}
      BY TrimmedBesideAnchor
    <2>4. /\ HandedOver(trimmed) = {k \in filled \cup placed : k[1] \in trimmed \ retired}
          /\ stale \subseteq placed /\ \A k \in stale : k[1] # Anchor
      BY DEF HandedOver, Stale
    <2> HIDE DEF trimmed, stale, queued
    <2>5. QED
      BY <2>1, <2>2, <2>3, <2>4 DEF Tracking, AnchorKept
  <1>6. ASSUME SkipCycle PROVE AnchorKept'
    BY <1>6 DEF SkipCycle, Tracking, AnchorKept
  <1>7. ASSUME OpenSession PROVE AnchorKept'
    BY <1>7, PairTyped, FirstOrders DEF OpenSession, Tracking, AnchorKept
  <1>8. ASSUME EndSession PROVE AnchorKept'
    BY <1>8, StartInBounds DEF EndSession, Tracking, AnchorKept
  <1>9. CASE UNCHANGED vars
    BY <1>9 DEF vars, Tracking, AnchorKept, Gone
  <1>10. QED
    BY NextCases, <1>1, <1>2, <1>3, <1>4, <1>5, <1>6, <1>7, <1>8, <1>9

LEMMA Invariant == Spec => []IInv
  <1>1. Init => IInv
    <2>1. Init => NothingForgotten /\ Tracking /\ Shut /\ AnchorKept
      BY DEF Init, NothingForgotten, Tracking, Shut, AnchorKept
    <2>2. QED
      BY <2>1, TypeInit DEF IInv
  <1>2. IInv /\ [Next]_vars => IInv'
    BY TypeStep, ForgottenStep, TrackingStep, ShutStep, AnchorStep DEF IInv
  <1>3. QED
    BY <1>1, <1>2, PTL DEF Spec

\* Every resting order is placed or handed over, every trade is tracked or was an order till
\* just now, and a poll finds one trade for each of them, even when orders take each other's.
THEOREM NothingForgottenCorrect == Spec => []NothingForgotten
  <1>1. IInv => NothingForgotten
    BY DEF IInv
  <1>2. QED
    BY <1>1, Invariant, PTL

\* A retired level has neither order nor trade after the next poll, as far as the engine
\* knows, and none at all while it takes no trade for another's.
THEOREM RetiredCorrect == Spec => []RetiredStaysShut
  <1>1. IInv => RetiredStaysShut
    BY DEF IInv, RetiredStaysShut, OwnKeys, NothingForgotten, Tracking, Shut
  <1>2. QED
    BY <1>1, Invariant, PTL

\* The trades taken for the anchor's end by their own stops or with the session.
THEOREM AnchorCorrect == Spec => AnchorRides
  <1> DEFINE Ends(t) ==
        t[1][1] = Anchor /\ t \notin tracked' => ~anchored' \/ price' = Stop(t[2])
  <1>1. ASSUME IInv, Next, NEW t \in tracked PROVE Ends(t)
    <2> USE <1>1 DEF accountVars, bookVars, IInv
    <2>1. ASSUME NEW d \in {-1, 1}, PriceMoves(d) PROVE Ends(t)
      BY <2>1 DEF PriceMoves
    <2>2. ASSUME NEW k \in orderMap, NEW j \in opened, MatchFill(k, j) PROVE Ends(t)
      BY <2>2 DEF MatchFill
    <2>3. ASSUME NEW k \in orderMap, MatchCancelled(k) PROVE Ends(t)
      BY <2>3 DEF MatchCancelled
    <2>4. ASSUME FinishPoll PROVE Ends(t)
      BY <2>4 DEF FinishPoll, AnchorKept
    <2>5. ASSUME NEW lowerFirst \in BOOLEAN, MaintainGrid(lowerFirst) PROVE Ends(t)
      BY <2>5 DEF MaintainGrid
    <2>6. ASSUME SkipCycle PROVE Ends(t)
      BY <2>6 DEF SkipCycle
    <2>7. ASSUME OpenSession PROVE Ends(t)
      BY <2>7 DEF OpenSession, Tracking
    <2>8. ASSUME EndSession PROVE Ends(t)
      BY <2>8 DEF EndSession
    <2>9. QED
      BY NextCases, <2>1, <2>2, <2>3, <2>4, <2>5, <2>6, <2>7, <2>8
  <1>2. IInv /\ [Next]_vars => [\A t \in tracked : Ends(t)]_vars
    BY <1>1
  <1>3. QED
    BY <1>2, Invariant, PTL DEF AnchorRides, Spec
-----------------------------------------------------------------------------
(***************************************************************************)
(* The levels a cycle leaves are counted.                                  *)
(***************************************************************************)
LEMMA LevelsFinite ==
  ASSUME NEW S \in SUBSET Levels
  PROVE  IsFiniteSet(S) /\ Cardinality(S) \in Nat
  <1>1. -Reach \in Int /\ Reach \in Int
    BY SlidingGridConstants
  <1>2. IsFiniteSet(Levels)
    BY <1>1, FS_Interval DEF Levels
  <1>3. QED
    BY <1>2, FS_Subset, FS_CardinalityType

LEMMA UnionBound ==
  ASSUME NEW S \in SUBSET Levels, NEW T \in SUBSET Levels, NEW a \in Nat, NEW b \in Nat,
         Cardinality(S) <= a, Cardinality(T) <= b
  PROVE  Cardinality(S \cup T) <= a + b
  <1>1. Cardinality(S \cup T) = Cardinality(S) + Cardinality(T) - Cardinality(S \cap T)
    BY LevelsFinite, FS_Union
  <1>2. Cardinality(S) \in Nat /\ Cardinality(T) \in Nat /\ Cardinality(S \cap T) \in Nat
    BY LevelsFinite
  <1>3. QED
    BY <1>1, <1>2

\* A set whose members each have fewer than cap of it before them in some order.
LEMMA RankBound ==
  ASSUME NEW N \in SUBSET Levels, NEW R, NEW cap \in Nat,
         \A l \in N : <<l, l>> \notin R,
         \A l, m \in N : l # m => <<l, m>> \in R \/ <<m, l>> \in R,
         \A l, m, o \in N : <<l, m>> \in R /\ <<m, o>> \in R => <<l, o>> \in R,
         \A l \in N : Cardinality({m \in N : <<m, l>> \in R}) < cap
  PROVE  Cardinality(N) <= cap
  <1> DEFINE before(l) == {m \in N : <<m, l>> \in R}
             rank == [l \in N |-> Cardinality(before(l))]
  <1>1. \A l \in N : IsFiniteSet(before(l)) /\ Cardinality(before(l)) \in Nat
    BY LevelsFinite
  <1>2. rank \in [N -> 0 .. cap - 1]
    BY <1>1
  <1>3. ASSUME NEW l \in N, NEW m \in N, <<l, m>> \in R PROVE rank[l] # rank[m]
    <2>1. before(l) \subseteq before(m) /\ before(l) # before(m)
      BY <1>3
    <2>2. Cardinality(before(l)) # Cardinality(before(m))
      <3> HIDE DEF before
      <3>1. QED
        BY <1>1, <2>1, FS_Subset
    <2>3. QED
      BY <2>2
  <1>4. rank \in Injection(N, 0 .. cap - 1)
    <2> HIDE DEF rank
    <2>1. \A l, m \in N : rank[l] = rank[m] => l = m
      BY <1>3
    <2>2. QED
      BY <1>2, <2>1 DEF Injection, IsInjective
  <1>5. IsFiniteSet(0 .. cap - 1) /\ Cardinality(0 .. cap - 1) = cap
    BY FS_Interval
  <1>6. QED
    BY <1>4, <1>5, FS_Injection

\* A set of levels that spans fewer than n.
LEMMA SpanBound ==
  ASSUME NEW W \in SUBSET Levels, NEW n \in Nat \ {0},
         \A l, m \in W : m < l => l - m < n
  PROVE  Cardinality(W) <= n
  <1> DEFINE R == {p \in Levels \X Levels : p[1] < p[2]}
  <1>1. Levels \subseteq Int
    BY SlidingGridConstants DEF Levels
  <1>2. ASSUME NEW l \in W PROVE Cardinality({m \in W : <<m, l>> \in R}) < n
    <2> DEFINE B  == {m \in W : <<m, l>> \in R}
               lo == l - n + 1
               hi == l - 1
    <2>1. lo \in Int /\ hi \in Int /\ hi - lo + 1 = n - 1 /\ n - 1 \in Nat
      BY <1>1
    <2>2. ASSUME NEW m \in B PROVE m \in lo .. hi
      <3>1. m \in W /\ m < l /\ m \in Int /\ l \in Int
        BY <1>1
      <3>2. l - m < n
        BY <3>1
      <3>3. QED
        BY <3>1, <3>2
    <2> HIDE DEF B, lo, hi
    <2>3. IsFiniteSet(lo .. hi) /\ Cardinality(lo .. hi) \in Nat /\ Cardinality(lo .. hi) <= n - 1
      <3>1. /\ IsFiniteSet(lo .. hi)
            /\ Cardinality(lo .. hi) = IF lo > hi THEN 0 ELSE hi - lo + 1
        BY <2>1, FS_Interval
      <3>2. QED
        BY <2>1, <3>1
    <2>4. Cardinality(B) \in Nat /\ Cardinality(B) <= Cardinality(lo .. hi)
      BY <2>2, <2>3, FS_Subset, FS_CardinalityType
    <2>5. Cardinality(B) < n
      BY <2>1, <2>3, <2>4
    <2>6. QED
      BY <2>5 DEF B
  <1>3. /\ \A l \in W : <<l, l>> \notin R
        /\ \A l, m \in W : l # m => <<l, m>> \in R \/ <<m, l>> \in R
        /\ \A l, m, o \in W : <<l, m>> \in R /\ <<m, o>> \in R => <<l, o>> \in R
    BY <1>1
  <1> HIDE DEF R
  <1>4. QED
    BY <1>2, <1>3, RankBound

\* No more levels lie in the window than are asked for.
LEMMA WindowBound ==
  ASSUME TypeOK
  PROVE  Cardinality(Window) <= Ahead + Behind
  <1> DEFINE above == {l \in Window : PriceOf(l) > price}
             below == {l \in Window : PriceOf(l) < price}
  <1>1. /\ Levels \subseteq Int /\ price \in Int
        /\ \A l, m \in Levels : \A k \in Int : m <= k /\ k <= l => k \in Levels
    BY SlidingGridConstants DEF Levels, TypeOK
  <1>2. /\ LevelsAbove \in Nat \ {0} /\ LevelsBelow \in Nat \ {0}
        /\ LevelsAbove + LevelsBelow = Ahead + Behind
    BY SlidingGridConstants DEF LevelsAbove, LevelsBelow
  <1>3. Cardinality(above) <= LevelsAbove
    <2>1. ASSUME NEW l \in above, NEW m \in above, m < l, ~(l - m < LevelsAbove) PROVE FALSE
      <3>1. l \in Int /\ m \in Int /\ l - LevelsAbove \in Int /\ m <= l - LevelsAbove
            /\ l - LevelsAbove <= l /\ l \in Levels /\ m \in Levels
        BY <1>1, <1>2, <2>1 DEF Window
      <3>2. l - LevelsAbove \in Levels
        BY <1>1, <3>1
      <3>3. PriceOf(l - LevelsAbove) <= price
        BY <1>1, <3>1, <3>2, PriceOfMonotone DEF Window
      <3>4. PriceOf(m) <= PriceOf(l - LevelsAbove) /\ PriceOf(m) > price
        BY <3>1, PriceOfMonotone
      <3>5. QED
        BY <1>1, <3>1, <3>3, <3>4, PriceOfMonotone
    <2>2. above \in SUBSET Levels
      BY DEF Window
    <2> HIDE DEF above
    <2>3. QED
      BY <1>2, <2>1, <2>2, SpanBound
  <1>4. Cardinality(below) <= LevelsBelow
    <2>1. ASSUME NEW l \in below, NEW m \in below, m < l, ~(l - m < LevelsBelow) PROVE FALSE
      <3>1. l \in Int /\ m \in Int /\ m + LevelsBelow \in Int /\ m + LevelsBelow <= l
            /\ m <= m + LevelsBelow /\ l \in Levels /\ m \in Levels
        BY <1>1, <1>2, <2>1 DEF Window
      <3>2. m + LevelsBelow \in Levels
        BY <1>1, <3>1
      <3>3. PriceOf(m + LevelsBelow) >= price
        BY <1>1, <3>1, <3>2, PriceOfMonotone DEF Window
      <3>4. PriceOf(m + LevelsBelow) <= PriceOf(l) /\ PriceOf(l) < price
        BY <3>1, PriceOfMonotone
      <3>5. QED
        BY <1>1, <3>1, <3>3, <3>4, PriceOfMonotone
    <2>2. below \in SUBSET Levels
      BY DEF Window
    <2> HIDE DEF below
    <2>3. QED
      BY <1>2, <2>1, <2>2, SpanBound
  <1>5. Window = above \cup below /\ above \in SUBSET Levels /\ below \in SUBSET Levels
    BY DEF Window
  <1> HIDE DEF above, below
  <1>6. QED
    BY <1>2, <1>3, <1>4, <1>5, UnionBound

\* A trim leaves no more levels on a side than its cap.
LEMMA CapBound ==
  ASSUME TypeOK, NEW S \in SUBSET Levels, NEW cap \in Nat, NEW lowerFirst \in BOOLEAN
  PROVE  Cardinality(S \ BeyondCap(S, cap, lowerFirst)) <= cap
  <1> DEFINE N == S \ BeyondCap(S, cap, lowerFirst)
             R == {p \in Levels \X Levels : Nearer(p[1], p[2], lowerFirst)}
  <1>1. Levels \subseteq Int /\ \A l \in Levels : Distance(l) \in Int
    <2>1. Levels \subseteq Int /\ price \in Int
      BY SlidingGridConstants DEF Levels, TypeOK
    <2>2. \A l \in Levels : PriceOf(l) \in Int
      BY <2>1, PriceOfMonotone
    <2>3. QED
      BY <2>1, <2>2 DEF Distance, Gap
  <1>2. ASSUME NEW l \in N PROVE Cardinality({m \in N : <<m, l>> \in R}) < cap
    <2> DEFINE nearer == {m \in S : Nearer(m, l, lowerFirst)}
               left   == {m \in N : <<m, l>> \in R}
    <2>1. ~(Cardinality(nearer) >= cap)
      BY DEF BeyondCap
    <2>2. left \in SUBSET nearer /\ nearer \in SUBSET Levels
      OBVIOUS
    <2>3. /\ Cardinality(nearer) \in Nat /\ Cardinality(left) \in Nat
          /\ Cardinality(left) <= Cardinality(nearer)
      <3> HIDE DEF nearer, left
      <3>1. QED
        BY <2>2, LevelsFinite, FS_Subset
    <2> HIDE DEF nearer
    <2>4. QED
      BY <2>1, <2>3
  <1>3. /\ \A l \in N : <<l, l>> \notin R
        /\ \A l, m \in N : l # m => <<l, m>> \in R \/ <<m, l>> \in R
        /\ \A l, m, o \in N : <<l, m>> \in R /\ <<m, o>> \in R => <<l, o>> \in R
    <2> HIDE DEF N
    <2>1. N \in SUBSET Levels
      BY DEF N
    <2>2. QED
      BY <1>1, <2>1 DEF Nearer
  <1>4. N \in SUBSET Levels
    OBVIOUS
  <1> HIDE DEF N, R
  <1>5. Cardinality(N) <= cap
    BY <1>2, <1>3, <1>4, RankBound
  <1>6. QED
    BY <1>5 DEF N

\* The levels with a trade that a trim leaves, the anchor apart.
LEMMA ActiveBound ==
  ASSUME TypeOK, NEW lowerFirst \in BOOLEAN
  PROVE  Cardinality((Active \ {Anchor}) \ Trimmed(lowerFirst)) <= Ahead + Behind
  <1> DEFINE over  == {l \in Active : l > Anchor}
             under == {l \in Active : l < Anchor}
             keptOver  == over \ BeyondCap(over, LevelsAbove, lowerFirst)
             keptUnder == under \ BeyondCap(under, LevelsBelow, lowerFirst)
             kept == (Active \ {Anchor}) \ Trimmed(lowerFirst)
  <1>1. /\ LevelsAbove \in Nat /\ LevelsBelow \in Nat
        /\ LevelsAbove + LevelsBelow = Ahead + Behind /\ Ahead + Behind \in Nat
    BY SlidingGridConstants DEF LevelsAbove, LevelsBelow
  <1>2. Active \in SUBSET Levels /\ Levels \subseteq Int
    BY SlidingGridConstants DEF Active, LevelsOf, TypeOK, Keys, Levels
  <1>3. over \in SUBSET Levels /\ under \in SUBSET Levels
    BY <1>2
  <1>4. kept \subseteq keptOver \cup keptUnder
    <2>1. ASSUME NEW l \in kept PROVE l \in keptOver \cup keptUnder
      <3>1. l \in Active /\ (l > Anchor \/ l < Anchor)
        BY <1>2 DEF Anchor
      <3>2. /\ l \notin BeyondCap(over, LevelsAbove, lowerFirst)
            /\ l \notin BeyondCap(under, LevelsBelow, lowerFirst)
        BY DEF Trimmed
      <3>3. QED
        BY <3>1, <3>2
    <2>2. QED
      BY <2>1
  <1>5. Cardinality(keptOver) <= LevelsAbove /\ Cardinality(keptUnder) <= LevelsBelow
    <2> HIDE DEF over, under
    <2>1. QED
      BY <1>1, <1>3, CapBound
  <1>6. keptOver \in SUBSET Levels /\ keptUnder \in SUBSET Levels /\ kept \in SUBSET Levels
    BY <1>2
  <1> HIDE DEF keptOver, keptUnder, kept
  <1>7. Cardinality(keptOver \cup keptUnder) <= Ahead + Behind
    BY <1>1, <1>5, <1>6, UnionBound
  <1>8. Cardinality(kept) <= Cardinality(keptOver \cup keptUnder)
    BY <1>4, <1>6, LevelsFinite, FS_Subset
  <1>9. keptOver \cup keptUnder \in SUBSET Levels
    BY <1>6
  <1>10. Cardinality(kept) <= Ahead + Behind
    BY <1>1, <1>6, <1>7, <1>8, <1>9, LevelsFinite
  <1>11. QED
    BY <1>10 DEF kept

\* No price move and no poll adds a level to the footprint, and a cycle leaves the
\* window and the trades within the caps.
LEMMA FootprintStep ==
  ASSUME IInv, BoundedFootprint, [Next]_vars
  PROVE  BoundedFootprint'
  <1> USE DEF IInv, accountVars, bookVars
  <1>1. Footprint \in SUBSET Levels
    BY DEF Footprint, LevelsOf, TypeOK, Keys
  <1>2. ASSUME Footprint' \subseteq Footprint PROVE BoundedFootprint'
    <2>1. Cardinality(Footprint') <= Cardinality(Footprint)
      BY <1>1, <1>2, LevelsFinite, FS_Subset
    <2>2. Cardinality(Footprint') \in Nat /\ Cardinality(Footprint) \in Nat
      BY <1>1, <1>2, LevelsFinite
    <2>3. Ahead \in Nat /\ Behind \in Nat
      BY SlidingGridConstants
    <2>4. QED
      BY <2>1, <2>2, <2>3 DEF BoundedFootprint
  <1>3. ASSUME NEW S \in SUBSET Levels, Cardinality(S) <= Ahead + Behind,
               Footprint' \subseteq S \cup Window
        PROVE  BoundedFootprint'
    <2>1. Window \in SUBSET Levels /\ Ahead + Behind \in Nat
      BY WindowInLadder, SlidingGridConstants
    <2>2. Cardinality(S \cup Window) <= (Ahead + Behind) + (Ahead + Behind)
      BY <1>3, <2>1, WindowBound, UnionBound
    <2>3. S \cup Window \in SUBSET Levels
      BY <2>1
    <2>4. Cardinality(Footprint') <= Cardinality(S \cup Window)
      BY <1>3, <2>3, LevelsFinite, FS_Subset
    <2>5. Cardinality(Footprint') \in Nat /\ Cardinality(S \cup Window) \in Nat
      BY <1>3, <2>3, LevelsFinite
    <2>6. Ahead \in Nat /\ Behind \in Nat
      BY SlidingGridConstants
    <2>7. QED
      BY <2>2, <2>4, <2>5, <2>6 DEF BoundedFootprint
  <1>4. ASSUME (orderMap \cup filled)' \ pendingClose' \subseteq (orderMap \cup filled) \ pendingClose
        PROVE  BoundedFootprint'
    BY <1>2, <1>4 DEF Footprint, LevelsOf
  <1>5. ASSUME NEW d \in {-1, 1}, PriceMoves(d) PROVE BoundedFootprint'
    BY <1>4, <1>5 DEF PriceMoves
  <1>6. ASSUME NEW k \in orderMap, NEW j \in opened, MatchFill(k, j) PROVE BoundedFootprint'
    BY <1>4, <1>6 DEF MatchFill
  <1>7. ASSUME NEW k \in orderMap, MatchCancelled(k) PROVE BoundedFootprint'
    BY <1>4, <1>7 DEF MatchCancelled
  <1>8. ASSUME FinishPoll PROVE BoundedFootprint'
    BY <1>4, <1>8 DEF FinishPoll
  <1>9. ASSUME NEW lowerFirst \in BOOLEAN, MaintainGrid(lowerFirst) PROVE BoundedFootprint'
    <2> DEFINE kept == (Active \ {Anchor}) \ Trimmed(lowerFirst)
    <2>1. ASSUME NEW k \in (orderMap \cup filled)' \ pendingClose', k[1] # Anchor
          PROVE  k[1] \in kept \cup Window
      <3> DEFINE trimmed == Trimmed(lowerFirst)
                 stale  == Stale(Window)
                 queued == Missing(Window, retired \cup trimmed, filled \cup (placed \ stale))
      <3>1. CASE k \in queued
        BY <3>1 DEF Missing, SidesOf
      <3>2. CASE k \notin queued
        <4>1. /\ k \in orderMap \cup filled /\ k \notin pendingClose
              /\ k \notin HandedOver(trimmed) /\ k \notin stale
          BY <1>9, <2>1, <3>2 DEF MaintainGrid, ToClose
        <4>2. k \in filled \cup placed
          BY <1>9, <4>1 DEF MaintainGrid, NothingForgotten, Tracking
        <4>3. k[1] \notin trimmed
          BY <4>1, <4>2 DEF HandedOver, Shut
        <4>4. CASE k[1] \in Active
          BY <2>1, <4>3, <4>4
        <4>5. CASE k[1] \notin Active
          <5>1. k \in placed
            BY <4>2, <4>5 DEF Active, LevelsOf
          <5>2. QED
            BY <2>1, <4>1, <4>5, <5>1 DEF Stale
        <4>6. QED
          BY <4>4, <4>5
      <3>3. QED
        BY <3>1, <3>2
    <2>2. kept \in SUBSET Levels
      BY DEF Active, LevelsOf, TypeOK, Keys
    <2>3. Footprint' \subseteq kept \cup Window
      BY <2>1 DEF Footprint, LevelsOf
    <2>4. QED
      BY <1>3, <2>2, <2>3, ActiveBound
  <1>10. ASSUME SkipCycle PROVE BoundedFootprint'
    BY <1>4, <1>10 DEF SkipCycle
  <1>11. ASSUME OpenSession PROVE BoundedFootprint'
    <2>1. Footprint' \subseteq {} \cup Window
      BY <1>11 DEF OpenSession, Footprint, LevelsOf, Missing, SidesOf
    <2>2. Cardinality({}) <= Ahead + Behind
      BY FS_EmptySet, SlidingGridConstants
    <2>3. QED
      BY <1>3, <2>1, <2>2
  <1>12. ASSUME EndSession PROVE BoundedFootprint'
    BY <1>4, <1>12 DEF EndSession
  <1>13. CASE UNCHANGED vars
    BY <1>4, <1>13 DEF vars
  <1>14. QED
    BY NextCases, <1>5, <1>6, <1>7, <1>8, <1>9, <1>10, <1>11, <1>12, <1>13

\* "so the footprint does not grow without bound": whatever the ladder, the caps and the
\* path of the price, the levels with an order or a trade are no more than the window
\* and the caps allow.
THEOREM FootprintCorrect == Spec => []BoundedFootprint
  <1>1. Init => BoundedFootprint
    <2>1. Init => Footprint = {}
      BY DEF Init, Footprint, LevelsOf
    <2>2. Cardinality({}) <= 2 * (Ahead + Behind)
      BY FS_EmptySet, SlidingGridConstants
    <2>3. QED
      BY <2>1, <2>2 DEF BoundedFootprint
  <1>2. IInv /\ BoundedFootprint /\ [Next]_vars => BoundedFootprint'
    BY FootprintStep
  <1>3. QED
    BY <1>1, <1>2, Invariant, PTL DEF Spec
=============================================================================
