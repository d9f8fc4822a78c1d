-------------------------- MODULE DoublingGrid_proof --------------------------
(***************************************************************************)
(* For any levels, limits and combinations of faults: an exit that has     *)
(* been asked for holds, unless an attempt fails or its signal is lost;    *)
(* pairs are held at both sides; a level has an order or trades, and never *)
(* more than one doubled position, which the strategy does not outwait.    *)
(***************************************************************************)
EXTENDS DoublingGrid, TLAPS

LEMMA NewGridTyped == NewGrid \in GridType
  BY DoublingGridConstants DEF NewGrid, GridType

LEMMA AskExitTyped ==
  ASSUME NEW g \in GridType
  PROVE  AskExit(g) \in GridType
  BY DEF AskExit, GridType

LEMMA OpenPairTyped ==
  ASSUME NEW g \in GridType, NEW l \in Levels
  PROVE  OpenPair(g, l) \in GridType
  <1>1. WhipsawLimit \in Nat
    BY DoublingGridConstants
  <1>2. \A n \in 0 .. WhipsawLimit :
          (IF n < WhipsawLimit THEN n + 1 ELSE n) \in 0 .. WhipsawLimit
    BY <1>1
  <1>3. QED
    BY <1>2 DEF OpenPair, GridType

LEMMA DoubleTyped ==
  ASSUME NEW g \in GridType, NEW l \in Levels
  PROVE  Double(g, l) \in GridType
  BY DEF Double, GridType

LEMMA ReportFillTyped ==
  ASSUME NEW g \in GridType, NEW k \in Keys
  PROVE  ReportFill(g, k) \in GridType
  <1> DEFINE recorded == [g EXCEPT !.legs = @ \cup ({k} \cap Legs)]
             opened == OpenPair(recorded, k[1])
             paused == [opened EXCEPT !.paused = TRUE]
  <1>1. k[1] \in Levels
    BY DEF Keys
  <1>2. recorded \in GridType
    BY DEF GridType
  <1>3. opened \in GridType
    BY <1>1, <1>2, OpenPairTyped
  <1>4. paused \in GridType
    BY <1>3 DEF GridType
  <1>5. /\ AskExit(paused) \in GridType
        /\ Double(recorded, k[1]) \in GridType /\ Double(opened, k[1]) \in GridType
    BY <1>1, <1>2, <1>3, <1>4, AskExitTyped, DoubleTyped
  <1>6. \/ ReportFill(g, k) = AskExit(paused)
        \/ ReportFill(g, k) = Double(recorded, k[1])
        \/ ReportFill(g, k) = Double(opened, k[1])
    BY DEF ReportFill
  <1>7. QED
    BY <1>5, <1>6

LEMMA ReportTradeClosedTyped ==
  ASSUME NEW g \in GridType, NEW k \in Keys
  PROVE  ReportTradeClosed(g, k) \in GridType
  <1>1. [g EXCEPT !.doubledActive = FALSE] \in GridType
    BY DEF GridType
  <1>2. AskExit([g EXCEPT !.doubledActive = FALSE]) \in GridType
    BY <1>1, AskExitTyped
  <1>3. [g EXCEPT !.filled = @ \ {k[1]}, !.closed = @ \ LegsOf(k[1]),
                  !.legs = @ \ LegsOf(k[1])] \in GridType
    BY DEF GridType
  <1>4. [g EXCEPT !.closed = @ \cup {k}] \in GridType
    BY DEF GridType
  <1>5. QED
    BY <1>2, <1>3, <1>4 DEF ReportTradeClosed

LEMMA OnSignalRejectedTyped ==
  ASSUME NEW g \in GridType, NEW l \in Levels
  PROVE  OnSignalRejected(g, l) \in GridType
  BY DEF OnSignalRejected, GridType

LEMMA NotifyCompleteTyped ==
  ASSUME NEW g \in GridType
  PROVE  NotifyComplete(g) \in GridType
  BY NewGridTyped DEF NotifyComplete, GridType

LEMMA LegKeys ==
  /\ Legs \subseteq Keys
  /\ \A k \in Legs : OtherLeg(k) \in Legs
  BY DEF Legs, Keys, OtherLeg
LEMMA LegsTyped ==
  ASSUME NEW k \in Keys, k \in Legs \/ k[2] # "doubled"
  PROVE  k \in Legs /\ OtherLeg(k) \in Legs /\ k[1] \in Levels
  BY LegKeys DEF Legs, Keys

LEMMA HedgedFillTyped ==
  ASSUME TypeOK, NEW k \in Legs, NEW u \in SUBSET Legs, HedgedFill(k, u, open)
  PROVE  unseen' \subseteq Legs /\ open' \subseteq Keys /\ tradeMap' \subseteq Keys
           /\ grid' \in GridType
  <1>1. k \in Keys /\ OtherLeg(k) \in Keys
    BY LegKeys
  <1>2. grid \in GridType
    BY DEF TypeOK
  <1>3. ReportFill(grid, k) \in GridType
    BY <1>1, <1>2, ReportFillTyped
  <1>4. ReportFill(ReportFill(grid, k), OtherLeg(k)) \in GridType
    BY <1>1, <1>3, ReportFillTyped
  <1>5. QED
    BY <1>1, <1>3, <1>4 DEF HedgedFill, TypeOK

\* A doubled signal or position has a level.
Levelled(g) == g.queued \/ g.doubledActive => g.doubledLevel # None

\* What a callback may do to the exit that is asked for, and to the levels placed.
Later(g, h) ==
  /\ h.placed \subseteq g.placed
  /\ h.closing = g.closing /\ (g.pending => h.pending)
  /\ h.exiting => h.pending \/ g.exiting
  /\ Levelled(g) => Levelled(h)

LEMMA LaterTransitive ==
  ASSUME NEW f \in GridType, NEW g \in GridType, NEW h \in GridType, Later(f, g), Later(g, h)
  PROVE  Later(f, h)
  BY DEF Later

LEMMA AskExitLater ==
  ASSUME NEW g \in GridType
  PROVE  Later(g, AskExit(g))
  BY DEF Later, Levelled, AskExit, GridType

LEMMA DoubleLater ==
  ASSUME NEW g \in GridType, NEW l \in Levels
  PROVE  Later(g, Double(g, l))
  BY DoublingGridConstants DEF Later, Levelled, Double, GridType

LEMMA ReportFillLater ==
  ASSUME NEW g \in GridType, NEW k \in Keys
  PROVE  Later(g, ReportFill(g, k))
  <1> DEFINE recorded == [g EXCEPT !.legs = @ \cup ({k} \cap Legs)]
             opened == OpenPair(recorded, k[1])
             paused == [opened EXCEPT !.paused = TRUE]
  <1>1. k[1] \in Levels
    BY DEF Keys
  <1>2. recorded \in GridType /\ Later(g, recorded)
    BY DEF GridType, Later, Levelled
  <1>3. opened \in GridType
    BY <1>1, <1>2, OpenPairTyped
  <1>4. Later(recorded, opened)
    BY <1>2 DEF GridType, Later, Levelled, OpenPair
  <1>5. paused \in GridType /\ Later(opened, paused)
    BY <1>3 DEF GridType, Later, Levelled
  <1> HIDE DEF recorded, opened, paused
  <1>6. /\ AskExit(paused) \in GridType /\ Later(paused, AskExit(paused))
        /\ Double(recorded, k[1]) \in GridType /\ Later(recorded, Double(recorded, k[1]))
        /\ Double(opened, k[1]) \in GridType /\ Later(opened, Double(opened, k[1]))
    BY <1>1, <1>2, <1>3, <1>5, AskExitTyped, DoubleTyped, AskExitLater, DoubleLater
  <1>7. Later(g, opened) /\ Later(g, paused)
    BY <1>2, <1>3, <1>4, <1>5, LaterTransitive
  <1>8. /\ Later(g, AskExit(paused)) /\ Later(g, Double(recorded, k[1]))
        /\ Later(g, Double(opened, k[1]))
    BY <1>2, <1>3, <1>5, <1>6, <1>7, LaterTransitive
  <1>9. \/ ReportFill(g, k) = AskExit(paused)
        \/ ReportFill(g, k) = Double(recorded, k[1])
        \/ ReportFill(g, k) = Double(opened, k[1])
    BY DEF ReportFill, recorded, opened, paused
  <1>10. QED
    BY <1>8, <1>9

LEMMA ReportTradeClosedLater ==
  ASSUME NEW g \in GridType, NEW k \in Keys
  PROVE  Later(g, ReportTradeClosed(g, k))
  <1>1. Later(g, AskExit([g EXCEPT !.doubledActive = FALSE]))
    BY DEF GridType, AskExit, Later, Levelled
  <1>2. Later(g, [g EXCEPT !.filled = @ \ {k[1]}, !.closed = @ \ LegsOf(k[1]),
                           !.legs = @ \ LegsOf(k[1])])
    BY DEF GridType, Later, Levelled
  <1>3. Later(g, [g EXCEPT !.closed = @ \cup {k}]) /\ Later(g, g)
    BY DEF GridType, Later, Levelled
  <1>4. QED
    BY <1>1, <1>2, <1>3 DEF ReportTradeClosed

LEMMA OnSignalRejectedLater ==
  ASSUME NEW g \in GridType, NEW l \in Levels
  PROVE  Later(g, OnSignalRejected(g, l))
  BY DEF OnSignalRejected, GridType, Later, Levelled

LEMMA HedgedFillLater ==
  ASSUME grid \in GridType, NEW k \in Legs, NEW u \in SUBSET Legs, HedgedFill(k, u, open)
  PROVE  Later(grid, grid')
  <1>1. k \in Keys /\ OtherLeg(k) \in Keys
    BY LegKeys
  <1> DEFINE g == ReportFill(grid, k)
             h == ReportFill(g, OtherLeg(k))
  <1>2. g \in GridType /\ Later(grid, g)
    BY <1>1, ReportFillTyped, ReportFillLater
  <1>3. h \in GridType /\ Later(g, h)
    BY <1>1, <1>2, ReportFillTyped, ReportFillLater
  <1>4. grid' = g \/ grid' = h
    BY DEF HedgedFill
  <1> HIDE DEF g, h
  <1>5. QED
    BY <1>2, <1>3, <1>4, LaterTransitive

LEMMA EntriesTyped ==
  ASSUME TypeOK, Levelled(grid), NEW price \in -5 .. 5, EmitEntries(price)
  PROVE  grid' \in GridType /\ signals' \subseteq Keys
  <1>1. grid \in GridType
    BY DEF TypeOK
  <1>2. grid' \in GridType
    BY <1>1 DEF EmitEntries, GridType
  <1>3. \A l \in Levels : WaitingKey(l, price) \in Keys
    BY DEF WaitingKey, Keys
  <1>4. grid.queued => <<grid.doubledLevel, "doubled">> \in Keys
    BY <1>1 DEF GridType, Keys, Levelled
  <1>5. QED
    BY <1>1, <1>2, <1>3, <1>4 DEF EmitEntries
-----------------------------------------------------------------------------
\* Locals are empty outside their steps; a FLAT signal is alone in its cycle.
Shape ==
  /\ flat => pc \in {"reads", "signals"} /\ signals = {}
  /\ signals # {} => pc \in {"reads", "signals"}

\* An exit that has been asked for is still to be emitted, or on its way.
ExitOnItsWay ==
  faults \cap {"close", "read"} = {} =>
    /\ failedCount = 0 /\ ~waiting
    /\ grid.exiting => grid.pending \/ grid.closing \/ flat

IInv == TypeOK /\ Levelled(grid) /\ Shape /\ ExitOnItsWay

LEMMA InitInv == Init => IInv
  <1> SUFFICES ASSUME Init PROVE IInv
    OBVIOUS
  <1>1. grid \in GridType
    BY NewGridTyped DEF Init
  <1>2. failedCount \in 0 .. MaxRetries
    BY DoublingGridConstants DEF Init
  <1>3. TypeOK
    BY <1>1, <1>2 DEF Init, TypeOK
  <1>4. Levelled(grid) /\ ~grid.exiting
    BY DEF Init, Levelled, NewGrid
  <1>5. Shape /\ ExitOnItsWay
    BY <1>4 DEF Init, Shape, ExitOnItsWay
  <1>6. QED
    BY <1>3, <1>4, <1>5 DEF IInv

LEMMA StepInv ==
  ASSUME IInv, [Next]_vars
  PROVE  IInv'
  <1> USE DEF accountVars, retryVars, cycleVars
  <1>t. TypeOK /\ grid \in GridType
    BY DEF IInv, TypeOK
  <1>a. ASSUME grid' \in GridType, Later(grid, grid'), UNCHANGED <<faults, failedCount, waiting, flat>>
        PROVE  Levelled(grid)' /\ ExitOnItsWay'
    BY <1>a DEF IInv, Later, Levelled, ExitOnItsWay
  <1>b. ASSUME UNCHANGED <<faults, failedCount, waiting, flat, grid>>
        PROVE  Levelled(grid)' /\ ExitOnItsWay'
    BY <1>b DEF IInv, Levelled, ExitOnItsWay
  <1>1. CASE UNCHANGED vars
    BY <1>1 DEF vars, IInv, TypeOK, Levelled, Shape, ExitOnItsWay
  <1>2. ASSUME NEW k \in Keys, BrokerFill(k) PROVE IInv'
    <2>1. TypeOK' /\ Shape'
      BY <1>2, <1>t DEF BrokerFill, TypeOK, Shape, IInv
    <2>2. QED
      BY <2>1, <1>2, <1>b DEF BrokerFill, IInv
  <1>3. ASSUME NEW k \in Keys, BrokerClose(k) PROVE IInv'
    <2>1. TypeOK' /\ Shape'
      BY <1>3, <1>t DEF BrokerClose, TypeOK, Shape, IInv
    <2>2. QED
      BY <2>1, <1>3, <1>b DEF BrokerClose, IInv
  <1>4. CASE PollStarts
    <2>1. TypeOK' /\ Shape'
      BY <1>4, <1>t DEF PollStarts, TypeOK, Shape, IInv
    <2>2. QED
      BY <2>1, <1>4, <1>b DEF PollStarts, IInv
  <1>5. ASSUME NEW k \in Keys, MatchFill(k) PROVE IInv'
    <2>1. k \in Legs
      BY <1>5, <1>t DEF MatchFill, TypeOK
    <2>2. HedgedFill(k, unseen \ {k}, open)
      BY <1>5 DEF MatchFill
    <2>3. unseen \ {k} \in SUBSET Legs
      BY <1>t DEF TypeOK
    <2>4. Later(grid, grid')
      BY <2>1, <2>2, <2>3, <1>t, HedgedFillLater
    <2>5. unseen' \subseteq Legs /\ open' \subseteq Keys /\ tradeMap' \subseteq Keys
            /\ grid' \in GridType
      BY <2>1, <2>2, <2>3, <1>t, HedgedFillTyped
    <2>6. TypeOK' /\ Shape'
      BY <2>5, <1>5, <1>t DEF MatchFill, TypeOK, Shape, IInv
    <2>7. QED
      BY <2>4, <2>5, <2>6, <1>5, <1>a DEF MatchFill, IInv
  <1>6. ASSUME NEW k \in Keys, MatchCancelled(k) PROVE IInv'
    <2>1. k[1] \in Levels
      BY DEF Keys
    <2>2. grid' \in GridType /\ Later(grid, grid')
      BY <2>1, <1>6, <1>t, OnSignalRejectedTyped, OnSignalRejectedLater DEF MatchCancelled
    <2>3. TypeOK' /\ Shape'
      BY <2>2, <1>6, <1>t DEF MatchCancelled, TypeOK, Shape, IInv
    <2>4. QED
      BY <2>2, <2>3, <1>6, <1>a DEF MatchCancelled, IInv
  <1>7. ASSUME NEW k \in Keys, CheckClosure(k) PROVE IInv'
    <2>1. grid' \in GridType /\ Later(grid, grid')
      BY <1>7, <1>t, ReportTradeClosedTyped, ReportTradeClosedLater DEF CheckClosure
    <2>2. TypeOK' /\ Shape'
      BY <2>1, <1>7, <1>t DEF CheckClosure, TypeOK, Shape, IInv
    <2>3. QED
      BY <2>1, <2>2, <1>7, <1>a DEF CheckClosure, IInv
  <1>8. CASE PollFails \/ PollEnds \/ SkipCycle \/ ReadsAnswer \/ SignalsDone
    <2>1. TypeOK' /\ Shape'
      BY <1>8, <1>t DEF PollFails, PollEnds, SkipCycle, ReadsAnswer, SignalsDone, TypeOK, Shape,
                            IInv
    <2>2. QED
      BY <2>1, <1>8, <1>b DEF PollFails, PollEnds, SkipCycle, ReadsAnswer, SignalsDone, IInv
  <1>9. CASE EmitFlat
    <2>1. grid' \in GridType /\ Levelled(grid)'
      BY <1>9, <1>t DEF EmitFlat, GridType, Levelled, IInv
    <2>2. TypeOK'
      BY <2>1, <1>9, <1>t DEF EmitFlat, TypeOK
    <2>3. Shape' /\ ExitOnItsWay'
      BY <1>9 DEF EmitFlat, Shape, ExitOnItsWay, IInv
    <2>4. QED
      BY <2>1, <2>2, <2>3 DEF IInv
  <1>10. ASSUME NEW price \in -5 .. 5, EmitEntries(price) PROVE IInv'
    <2>1. grid' \in GridType /\ signals' \subseteq Keys
      BY <1>10, <1>t, EntriesTyped DEF IInv
    <2>2. TypeOK'
      BY <2>1, <1>10, <1>t DEF EmitEntries, TypeOK
    <2>3. grid'.exiting = grid.exiting /\ grid'.pending = grid.pending
            /\ grid'.closing = grid.closing /\ Levelled(grid)'
      BY <1>10, <1>t DEF EmitEntries, GridType, Levelled, IInv
    <2>4. Shape' /\ ExitOnItsWay'
      BY <2>3, <1>10 DEF EmitEntries, Shape, ExitOnItsWay, IInv
    <2>5. QED
      BY <2>2, <2>3, <2>4 DEF IInv
  <1>11. CASE ReadsFail
    <2>1. TypeOK' /\ Shape'
      BY <1>11, <1>t DEF ReadsFail, TypeOK, Shape
    <2>2. Levelled(grid)' /\ ExitOnItsWay'
      BY <1>11 DEF ReadsFail, IInv, Levelled, ExitOnItsWay
    <2>3. QED
      BY <2>1, <2>2 DEF IInv
  <1>12. ASSUME NEW k \in Keys, PlaceRests(k) PROVE IInv'
    <2>1. TypeOK' /\ Shape'
      BY <1>12, <1>t DEF PlaceRests, Processing, TypeOK, Shape, IInv
    <2>2. QED
      BY <2>1, <1>12, <1>b DEF PlaceRests, IInv
  <1>13. ASSUME NEW k \in Keys, PlaceFills(k) PROVE IInv'
    <2>1. k \in Legs /\ HedgedFill(k, unseen, open) /\ unseen \in SUBSET Legs
      BY <1>13, <1>t DEF PlaceFills, TypeOK
    <2>2. Later(grid, grid')
      BY <2>1, <1>t, HedgedFillLater
    <2>3. unseen' \subseteq Legs /\ open' \subseteq Keys /\ tradeMap' \subseteq Keys
            /\ grid' \in GridType
      BY <2>1, <1>t, HedgedFillTyped
    <2>4. TypeOK' /\ Shape'
      BY <2>3, <1>13, <1>t DEF PlaceFills, Processing, TypeOK, Shape, IInv
    <2>5. QED
      BY <2>2, <2>3, <2>4, <1>13, <1>a DEF PlaceFills, IInv
  <1>14. ASSUME NEW k \in Keys, PlaceDoubled(k) PROVE IInv'
    <2>1. grid' \in GridType /\ Later(grid, grid')
      BY <1>14, <1>t, ReportFillTyped, ReportFillLater DEF PlaceDoubled
    <2>2. TypeOK' /\ Shape'
      BY <2>1, <1>14, <1>t DEF PlaceDoubled, Processing, TypeOK, Shape, IInv
    <2>3. QED
      BY <2>1, <2>2, <1>14, <1>a DEF PlaceDoubled, IInv
  <1>15. ASSUME NEW k \in Keys, PlaceRefused(k) PROVE IInv'
    <2>1. k[1] \in Levels
      BY DEF Keys
    <2>2. grid' \in GridType /\ Later(grid, grid')
      BY <2>1, <1>15, <1>t, OnSignalRejectedTyped, OnSignalRejectedLater DEF PlaceRefused
    <2>3. TypeOK' /\ Shape'
      BY <2>2, <1>15, <1>t DEF PlaceRefused, Processing, TypeOK, Shape, IInv
    <2>4. QED
      BY <2>2, <2>3, <1>15, <1>a DEF PlaceRefused, IInv
  <1>16. CASE BackoffEnds
    <2>1. TypeOK' /\ Shape' /\ Levelled(grid)'
      BY <1>16, <1>t DEF BackoffEnds, TypeOK, Shape, Levelled, IInv
    <2>2. ExitOnItsWay'
      BY <1>16 DEF BackoffEnds, ExitOnItsWay, IInv
    <2>3. QED
      BY <2>1, <2>2 DEF IInv
  <1>17. CASE BreakerTrips \/ StillWaiting
    <2>1. TypeOK' /\ Shape' /\ Levelled(grid)'
      BY <1>17, <1>t DEF BreakerTrips, StillWaiting, TypeOK, Shape, Levelled, IInv
    <2>2. ExitOnItsWay'
      BY <1>17, DoublingGridConstants DEF BreakerTrips, StillWaiting, ExitOnItsWay, IInv
    <2>3. QED
      BY <2>1, <2>2 DEF IInv
  <1>18. CASE CloseAllSucceeds
    <2>1. grid' \in GridType
      BY <1>18, <1>t, NotifyCompleteTyped DEF CloseAllSucceeds
    <2>2. ~grid'.exiting /\ Levelled(grid)'
      <3>1. ~NewGrid.exiting /\ Levelled(NewGrid)
        BY DEF NewGrid, Levelled
      <3>2. CASE grid.paused
        BY <3>2, <1>18, <1>t DEF CloseAllSucceeds, NotifyComplete, GridType, Levelled, IInv
      <3>3. CASE ~grid.paused
        BY <3>1, <3>3, <1>18 DEF CloseAllSucceeds, NotifyComplete, Levelled
      <3>4. QED
        BY <3>2, <3>3
    <2>3. failedCount' \in 0 .. MaxRetries
      BY <1>18, DoublingGridConstants DEF CloseAllSucceeds
    <2>4. TypeOK'
      BY <2>1, <2>3, <1>18, <1>t DEF CloseAllSucceeds, TypeOK
    <2>5. Shape'
      BY <1>18 DEF CloseAllSucceeds, Attempting, Shape, IInv
    <2>6. ExitOnItsWay'
      BY <2>2, <1>18 DEF CloseAllSucceeds, ExitOnItsWay, IInv
    <2>7. QED
      BY <2>2, <2>4, <2>5, <2>6 DEF IInv
  <1>19. CASE CloseAllFails
    <2>1. failedCount' \in 0 .. MaxRetries /\ waiting' \in BOOLEAN
      BY <1>19, <1>t, DoublingGridConstants DEF CloseAllFails, Attempting, TypeOK
    <2>2. TypeOK' /\ Shape'
      BY <2>1, <1>19, <1>t DEF CloseAllFails, Attempting, TypeOK, Shape, IInv
    <2>3. Levelled(grid)' /\ ExitOnItsWay'
      BY <1>19 DEF CloseAllFails, Levelled, ExitOnItsWay, IInv
    <2>4. QED
      BY <2>2, <2>3 DEF IInv
  <1>20. QED
    BY <1>1, <1>2, <1>3, <1>4, <1>5, <1>6, <1>7, <1>8, <1>9, <1>10, <1>11, <1>12, <1>13,
       <1>14, <1>15, <1>16, <1>17, <1>18, <1>19 DEF Next

LEMMA Invariance == Spec => []IInv
  BY InitInv, StepInv, PTL DEF Spec

\* The types, under every combination of faults.
THEOREM TypeCorrect == Spec => []TypeOK
  <1>1. IInv => TypeOK
    BY DEF IInv
  <1>2. QED
    BY <1>1, Invariance, PTL

\* An exit that a callback or the loss limit has asked for keeps every further level
\* from being placed, as long as no attempt fails and no signal is lost.
THEOREM ExitCorrect == Spec => ExitHoldsUnlessLost
  <1>1. ASSUME IInv, [Next]_vars, grid.exiting, faults \cap {"close", "read"} = {}
        PROVE  grid'.placed \subseteq grid.placed
    <2> USE DEF accountVars, retryVars, cycleVars
    <2>t. grid \in GridType /\ TypeOK
      BY <1>1 DEF IInv, TypeOK
    <2>e. grid.pending \/ grid.closing \/ (flat /\ pc \in {"reads", "signals"})
      BY <1>1 DEF IInv, ExitOnItsWay, Shape
    <2>1. CASE UNCHANGED grid
      BY <2>1
    <2>2. ASSUME NEW k \in Keys, MatchFill(k) \/ PlaceFills(k) PROVE grid'.placed \subseteq grid.placed
      <3>1. k \in Legs /\ \E u \in SUBSET Legs : HedgedFill(k, u, open)
        BY <2>2, <2>t DEF MatchFill, PlaceFills, TypeOK
      <3>2. QED
        BY <3>1, <2>t, HedgedFillLater DEF Later
    <2>3. ASSUME NEW k \in Keys, MatchCancelled(k) \/ PlaceRefused(k)
          PROVE  grid'.placed \subseteq grid.placed
      <3>1. k[1] \in Levels
        BY DEF Keys
      <3>2. QED
        BY <3>1, <2>3, <2>t, OnSignalRejectedLater DEF MatchCancelled, PlaceRefused, Later
    <2>4. ASSUME NEW k \in Keys, CheckClosure(k) PROVE grid'.placed \subseteq grid.placed
      BY <2>4, <2>t, ReportTradeClosedLater DEF CheckClosure, Later
    <2>5. ASSUME NEW k \in Keys, PlaceDoubled(k) PROVE grid'.placed \subseteq grid.placed
      BY <2>5, <2>t, ReportFillLater DEF PlaceDoubled, Later
    <2>6. CASE EmitFlat
      BY <2>6, <2>t DEF EmitFlat, GridType
    <2>7. ASSUME NEW price \in -5 .. 5, EmitEntries(price) PROVE FALSE
      BY <2>7, <2>e DEF EmitEntries, MayTrade
    <2>8. CASE CloseAllSucceeds
      <3>1. NewGrid.placed = {}
        BY DEF NewGrid
      <3>2. QED
        BY <3>1, <2>8, <2>t DEF CloseAllSucceeds, NotifyComplete, GridType
    <2>9. QED
      BY <1>1, <2>1, <2>2, <2>3, <2>4, <2>5, <2>6, <2>7, <2>8
      DEF Next, vars, PollStarts, PollFails, PollEnds, SkipCycle, ReadsAnswer, ReadsFail,
          SignalsDone, BackoffEnds, BreakerTrips, StillWaiting, CloseAllFails, BrokerFill, BrokerClose,
          PlaceRests
  <1>2. IInv /\ [Next]_vars
          => [grid.exiting /\ faults \cap {"close", "read"} = {} =>
                grid'.placed \subseteq grid.placed]_vars
    BY <1>1
  <1>3. QED
    BY <1>2, Invariance, PTL DEF Spec, ExitHoldsUnlessLost
-----------------------------------------------------------------------------
(***************************************************************************)
(* The books of a level and of the doubled position.                       *)
(***************************************************************************)
DoubledKey == <<grid.doubledLevel, "doubled">>
Orders == orderMap \cup signals

\* A level whose doubled order was refused is released with its pair still open.
Clean(l) ==
  \/ "double" \notin faults \/ l # grid.doubledLevel
  \/ grid.queued \/ <<l, "doubled">> \in signals

\* The engine's maps cover what is at the broker; a key found gone does not rest.
Broker ==
  /\ resting \cup unseen \subseteq orderMap /\ open \subseteq tradeMap
  /\ gone \subseteq orderMap \ resting /\ (pc # "fills" => gone = {})

\* A level has one order, or trades: never both, and never either unbooked.
LevelOk(k) ==
  /\ k \in orderMap => k \notin signals
  /\ k \in resting => k \notin unseen
  /\ k \in grid.closed => k \notin tradeMap
  /\ k \in Orders \cup tradeMap \cup grid.closed => k[1] \in grid.placed \cup grid.filled
  /\ k \in Orders =>
       \A j \in Legs : j[1] = k[1] =>
         j \notin tradeMap \cup grid.closed /\ (j \in Orders => j = k)

LevelBooks == \A k \in Legs : Clean(k[1]) => LevelOk(k)

\* There is one doubled key; its level has no order while its signal waits.
DoubledBooks ==
  /\ \A k \in signals \cup tradeMap : k \notin Legs => k = DoubledKey /\ grid.doubledLevel # None
  /\ grid.queued => \A k \in Legs \cap Orders : k[1] # grid.doubledLevel
  /\ grid.queued /\ flat => grid.closing
  /\ grid.pending => grid.exiting \/ ~grid.active
  /\ faults \cap {"double", "read"} = {} /\ grid.doubledActive =>
       grid.queued \/ grid.exiting \/ ~grid.active \/ DoubledKey \in tradeMap \cup signals

\* A pair that is doubled is open at both sides, and so is every pair of which no
\* side has been seen to end.
PairStands ==
  faults \cap {"opposite", "rush"} = {} =>
    /\ grid.active /\ grid.queued /\ ~grid.closing =>
         /\ grid.doubledLevel \in grid.filled
         /\ \A k \in Legs : k[1] = grid.doubledLevel => k \in open
    /\ DoubledKey \in signals =>
         /\ grid.doubledLevel \in grid.filled
         /\ \A k \in Legs \cap signals : k[1] # grid.doubledLevel
    /\ grid.active =>
         \A k \in Legs : k[1] \in grid.filled /\ k \notin tradeMap =>
           \E j \in Legs : j[1] = k[1] /\ j \in grid.closed

Books == Broker /\ LevelBooks /\ DoubledBooks /\ PairStands

LEMMA LegFacts ==
  /\ \A k \in Legs : /\ k \in Keys /\ k[1] \in Levels /\ k[2] # "doubled"
                     /\ OtherLeg(k) \in Legs /\ OtherLeg(k)[1] = k[1]
                     /\ \A j \in Legs : j[1] = k[1] => j = k \/ j = OtherLeg(k)
  /\ \A k \in Keys : /\ k[1] \in Levels
                     /\ k \notin Legs => k[2] = "doubled" /\ k = <<k[1], "doubled">>
  /\ \A l : LegsOf(l) \cap Legs = {k \in Legs : k[1] = l}
  /\ \A l \in Levels : LegsOf(l) \subseteq Legs
  /\ None \notin Levels
  BY DoublingGridConstants DEF Legs, Keys, OtherLeg, LegsOf

\* What a report of a fill at level l may do.
FillEffect(g, h, l) ==
  /\ IF IsFirstFill(g, l)
     THEN h.filled = g.filled \cup {l} /\ h.placed = g.placed \ {l}
            /\ h.closed = g.closed \ LegsOf(l)
     ELSE h.filled = g.filled /\ h.placed = g.placed /\ h.closed = g.closed
  /\ h.active = g.active /\ h.closing = g.closing
  /\ \/ h.doubledLevel = g.doubledLevel /\ h.doubledActive = g.doubledActive
          /\ h.queued = g.queued
     \/ g.doubledLevel = None /\ h.doubledLevel = l /\ h.queued
  /\ \/ h.pending = g.pending /\ h.exiting = g.exiting
     \/ h.pending /\ h.exiting

LEMMA FillEffectTwice ==
  ASSUME NEW f \in GridType, NEW g \in GridType, NEW h \in GridType, NEW l \in Levels,
         FillEffect(f, g, l), FillEffect(g, h, l)
  PROVE  FillEffect(f, h, l)
  <1>1. CASE IsFirstFill(f, l)
    <2>1. ~IsFirstFill(g, l)
      BY <1>1 DEF FillEffect, IsFirstFill
    <2>2. QED
      BY <1>1, <2>1, DoublingGridConstants DEF FillEffect
  <1>2. CASE ~IsFirstFill(f, l)
    <2>1. ~IsFirstFill(g, l)
      BY <1>2 DEF FillEffect, IsFirstFill
    <2>2. QED
      BY <1>2, <2>1, DoublingGridConstants DEF FillEffect
  <1>3. QED
    BY <1>1, <1>2

LEMMA ReportFillEffect ==
  ASSUME NEW g \in GridType, NEW k \in Keys
  PROVE  FillEffect(g, ReportFill(g, k), k[1])
  <1> DEFINE recorded == [g EXCEPT !.legs = @ \cup ({k} \cap Legs)]
             opened == OpenPair(recorded, k[1])
             paused == [opened EXCEPT !.paused = TRUE]
  <1>1. recorded \in GridType
    BY DEF GridType
  <1>2. opened \in GridType /\ paused \in GridType
    <2>1. opened \in GridType
      BY <1>1, OpenPairTyped, LegFacts
    <2>2. QED
      BY <2>1 DEF GridType
  <1>3. CASE ~IsFirstFill(g, k[1])
    <2>1. ReportFill(g, k) = Double(recorded, k[1])
      BY <1>3 DEF ReportFill
    <2>2. QED
      BY <2>1, <1>1, <1>3 DEF FillEffect, Double, GridType
  <1>4. ASSUME IsFirstFill(g, k[1])
        PROVE  /\ opened.filled = g.filled \cup {k[1]} /\ opened.placed = g.placed \ {k[1]}
               /\ opened.closed = g.closed \ LegsOf(k[1])
               /\ opened.active = g.active /\ opened.closing = g.closing
               /\ opened.doubledLevel = g.doubledLevel /\ opened.queued = g.queued
               /\ opened.doubledActive = g.doubledActive
               /\ opened.pending = g.pending /\ opened.exiting = g.exiting
    BY DEF OpenPair, GridType
  <1>5. CASE IsFirstFill(g, k[1])
    <2>1. FillEffect(g, Double(opened, k[1]), k[1])
      <3> HIDE DEF opened
      <3>1. QED
        BY <1>2, <1>4, <1>5 DEF FillEffect, Double, GridType
    <2>2. FillEffect(g, AskExit(paused), k[1])
      <3> HIDE DEF opened
      <3>1. QED
        BY <1>2, <1>4, <1>5 DEF FillEffect, AskExit, GridType
    <2>3. ReportFill(g, k) = AskExit(paused) \/ ReportFill(g, k) = Double(opened, k[1])
      BY <1>5 DEF ReportFill
    <2>4. QED
      BY <2>1, <2>2, <2>3
  <1>6. QED
    BY <1>3, <1>5

LEMMA HedgedFillEffect ==
  ASSUME grid \in GridType, NEW k \in Legs, NEW u \in SUBSET Legs, HedgedFill(k, u, open)
  PROVE  /\ FillEffect(grid, grid', k[1]) /\ grid' \in GridType
         /\ \/ open' = open \cup {k, OtherLeg(k)} /\ tradeMap' = tradeMap \cup {k, OtherLeg(k)}
            \/ /\ "opposite" \in faults
               /\ open' = open \cup {k} /\ tradeMap' = tradeMap \cup {k}
  <1>1. k \in Keys /\ OtherLeg(k) \in Keys /\ OtherLeg(k)[1] = k[1] /\ k[1] \in Levels
    BY LegFacts
  <1> DEFINE g == ReportFill(grid, k)
             h == ReportFill(g, OtherLeg(k))
  <1>2. g \in GridType /\ FillEffect(grid, g, k[1])
    BY <1>1, ReportFillTyped, ReportFillEffect
  <1>3. h \in GridType /\ FillEffect(g, h, k[1])
    <2>1. h \in GridType /\ FillEffect(g, h, OtherLeg(k)[1])
      BY <1>1, <1>2, ReportFillTyped, ReportFillEffect
    <2>2. QED
      BY <2>1, <1>1
  <1>4. grid' = g \/ grid' = h
    BY DEF HedgedFill
  <1>5. FillEffect(grid, h, k[1])
    <2> HIDE DEF g, h
    <2>1. QED
      BY <1>1, <1>2, <1>3, FillEffectTwice
  <1>6. FillEffect(grid, grid', k[1]) /\ grid' \in GridType
    <2> HIDE DEF g, h
    <2>1. QED
      BY <1>2, <1>3, <1>4, <1>5
  <1>7. QED
    BY <1>6 DEF HedgedFill, HedgeFails
LEMMA BrokerStep ==
  ASSUME IInv, Books, [Next]_vars
  PROVE  Broker'
  <1> USE DEF accountVars, retryVars, cycleVars, Broker
  <1>t. TypeOK /\ Broker /\ Shape
    BY DEF IInv, Books
  <1>1. ASSUME NEW k \in Keys,
               BrokerFill(k) \/ BrokerClose(k) \/ PlaceRests(k) \/ PlaceDoubled(k)
        PROVE  Broker'
    BY <1>1, <1>t DEF BrokerFill, BrokerClose, MarketMoves, PlaceRests, PlaceDoubled, Processing
  <1>2. ASSUME NEW k \in Keys, MatchFill(k) PROVE Broker'
    <2>1. k \in Legs /\ HedgedFill(k, unseen \ {k}, open)
      BY <1>2, <1>t DEF MatchFill, TypeOK
    <2>2. open' \subseteq tradeMap'
      BY <2>1, <1>t DEF HedgedFill
    <2>3. QED
      BY <1>2, <2>2, <1>t DEF MatchFill, HedgedFill
  <1>3. ASSUME NEW k \in Keys, PlaceFills(k) PROVE Broker'
    BY <1>3, <1>t DEF PlaceFills, HedgedFill, Processing
  <1>4. ASSUME NEW k \in Keys, MatchCancelled(k) \/ CheckClosure(k) \/ PlaceRefused(k)
        PROVE  Broker'
    BY <1>4, <1>t DEF MatchCancelled, CheckClosure, PlaceRefused, Processing
  <1>5. ASSUME NEW price \in -5 .. 5, EmitEntries(price) PROVE Broker'
    BY <1>5, <1>t DEF EmitEntries
  <1>6. CASE CloseAllSucceeds \/ CloseAllFails
    BY <1>6, <1>t DEF CloseAllSucceeds, CloseAllFails, Attempting
  <1>7. CASE PollStarts \/ PollEnds \/ PollFails
    BY <1>7, <1>t DEF PollStarts, PollEnds, PollFails
  <1>8. CASE SkipCycle \/ EmitFlat \/ ReadsAnswer \/ ReadsFail \/ SignalsDone \/ BackoffEnds
               \/ BreakerTrips \/ StillWaiting \/ UNCHANGED vars
    BY <1>8, <1>t DEF SkipCycle, EmitFlat, ReadsAnswer, ReadsFail, SignalsDone, BackoffEnds,
                      BreakerTrips, StillWaiting, vars
  <1>9. QED
    BY <1>1, <1>2, <1>3, <1>4, <1>5, <1>6, <1>7, <1>8 DEF Next

\* The order that is filled, or filled at once, is the only one of its level.
LEMMA FillLevelBooks ==
  ASSUME TypeOK, Levelled(grid), LevelBooks, NEW k \in Legs \cap Orders,
         FillEffect(grid, grid', k[1]),
         tradeMap' \subseteq tradeMap \cup {k, OtherLeg(k)},
         orderMap' \subseteq orderMap, signals' \subseteq signals,
         Clean(k[1]) => k \notin Orders',
         resting' = resting, unseen' \subseteq unseen, faults' = faults
  PROVE  LevelBooks'
  <1> SUFFICES ASSUME NEW j \in Legs, Clean(j[1])' PROVE LevelOk(j)'
    BY DEF LevelBooks
  <1>1. Clean(j[1])
    BY LegFacts DEF Clean, FillEffect
  <1>2. Orders' \subseteq Orders
    BY DEF Orders
  <1>3. /\ grid'.closed \subseteq grid.closed
        /\ grid.placed \cup grid.filled \subseteq grid'.placed \cup grid'.filled
    BY DEF FillEffect, IsFirstFill
  <1>4. CASE j[1] # k[1]
    <2>1. \A i \in Legs : i[1] = j[1] =>
            (i \in tradeMap' \cup grid'.closed => i \in tradeMap \cup grid.closed)
      BY <1>3, <1>4, LegFacts
    <2>2. /\ j \in orderMap' => j \notin signals'
          /\ j \in resting' => j \notin unseen'
          /\ j \in grid'.closed => j \notin tradeMap'
      BY <1>1, <1>3, <1>4, LegFacts DEF LevelBooks, LevelOk
    <2>3. j \in Orders' \cup tradeMap' \cup grid'.closed
            => j[1] \in grid'.placed \cup grid'.filled
      BY <1>1, <1>2, <1>3, <2>1 DEF LevelBooks, LevelOk
    <2>4. j \in Orders' =>
            \A i \in Legs : i[1] = j[1] =>
              i \notin tradeMap' \cup grid'.closed /\ (i \in Orders' => i = j)
      BY <1>1, <1>2, <2>1 DEF LevelBooks, LevelOk
    <2>5. QED
      BY <2>2, <2>3, <2>4 DEF LevelOk
  <1>5. CASE j[1] = k[1]
    <2>1. \A i \in Legs : i[1] = j[1] => i \notin Orders' /\ i \notin grid.closed
      BY <1>1, <1>2, <1>5 DEF LevelBooks, LevelOk
    <2>2. j[1] \in grid.placed \cup grid.filled
      BY <1>1, <1>5 DEF LevelBooks, LevelOk
    <2>3. j \in resting' => j \notin unseen'
      BY <1>1 DEF LevelBooks, LevelOk
    <2>4. QED
      BY <1>3, <2>1, <2>2, <2>3 DEF Orders, LevelOk
  <1>6. QED
    BY <1>4, <1>5

\* A level whose order has gone, unfilled or refused, is released.
LEMMA ReleaseLevelBooks ==
  ASSUME TypeOK, Levelled(grid), LevelBooks, NEW k \in Keys,
         k \in Legs \cap Orders \/ (k = DoubledKey /\ "double" \in faults),
         grid' = OnSignalRejected(grid, k[1]),
         orderMap' \subseteq orderMap, signals' \subseteq signals,
         Clean(k[1]) => k \notin Orders',
         tradeMap' = tradeMap, resting' = resting, unseen' = unseen, faults' = faults
  PROVE  LevelBooks'
  <1> SUFFICES ASSUME NEW j \in Legs, Clean(j[1])' PROVE LevelOk(j)'
    BY DEF LevelBooks
  <1>1. /\ grid'.placed = grid.placed \ {k[1]} /\ grid'.filled = grid.filled \ {k[1]}
        /\ grid'.closed = grid.closed /\ grid'.doubledLevel = grid.doubledLevel
        /\ grid'.queued => grid.queued /\ grid.doubledLevel # k[1]
    BY DEF OnSignalRejected, TypeOK, GridType
  <1>2. Clean(j[1])
    BY <1>1, LegFacts DEF Clean
  <1>3. Orders' \subseteq Orders
    BY DEF Orders
  <1>4. CASE j[1] # k[1]
    <2>1. /\ j \in orderMap' => j \notin signals'
          /\ j \in resting' => j \notin unseen'
          /\ j \in grid'.closed => j \notin tradeMap'
      BY <1>1, <1>2 DEF LevelBooks, LevelOk
    <2>2. j \in Orders' \cup tradeMap' \cup grid'.closed
            => j[1] \in grid'.placed \cup grid'.filled
      BY <1>1, <1>2, <1>3, <1>4 DEF LevelBooks, LevelOk
    <2>3. j \in Orders' =>
            \A i \in Legs : i[1] = j[1] =>
              i \notin tradeMap' \cup grid'.closed /\ (i \in Orders' => i = j)
      BY <1>1, <1>2, <1>3 DEF LevelBooks, LevelOk
    <2>4. QED
      BY <2>1, <2>2, <2>3 DEF LevelOk
  <1>5. CASE j[1] = k[1] /\ k \in Legs
    <2>1. k \in Orders
      BY <1>5, LegFacts DEF DoubledKey
    <2>2. \A i \in Legs : i[1] = j[1] => i \notin Orders' \cup tradeMap \cup grid.closed
      BY <1>2, <1>3, <1>5, <2>1 DEF LevelBooks, LevelOk
    <2>3. j \in resting' => j \notin unseen'
      BY <1>2 DEF LevelBooks, LevelOk
    <2>4. QED
      BY <1>1, <2>2, <2>3 DEF Orders, LevelOk
  <1>6. CASE j[1] = k[1] /\ k \notin Legs
    <2>1. k = <<j[1], "doubled">> /\ "double" \in faults /\ j[1] = grid.doubledLevel
      BY <1>6, LegFacts DEF DoubledKey
    <2>2. ~Clean(j[1])'
      BY <1>1, <1>6, <2>1 DEF Clean, Orders
    <2>3. QED
      BY <2>2
  <1>7. QED
    BY <1>4, <1>5, <1>6

\* Less at the broker and in the books of a level leaves it in order.
LEMMA SmallerLevelBooks ==
  ASSUME TypeOK, LevelBooks, faults' = faults,
         grid'.doubledLevel = grid.doubledLevel, grid'.queued => grid.queued,
         grid'.placed = grid.placed, grid'.filled = grid.filled,
         grid'.closed = grid.closed,
         orderMap' \subseteq orderMap, signals' \subseteq signals,
         tradeMap' \subseteq tradeMap,
         \A k \in Legs : k \in resting' /\ k \in unseen' =>
           \/ k \in orderMap' /\ k \in signals
           \/ k \in resting /\ k \in unseen
  PROVE  LevelBooks'
  <1> SUFFICES ASSUME NEW j \in Legs, Clean(j[1])' PROVE LevelOk(j)'
    BY DEF LevelBooks
  <1>1. Clean(j[1])
    BY DEF Clean
  <1>2. Orders' \subseteq Orders
    BY DEF Orders
  <1>3. QED
    BY <1>1, <1>2 DEF LevelBooks, LevelOk

LEMMA LevelStep ==
  ASSUME IInv, Books, [Next]_vars
  PROVE  LevelBooks'
  <1> USE DEF accountVars, retryVars, cycleVars
  <1>t. /\ TypeOK /\ Broker /\ Shape /\ LevelBooks /\ DoubledBooks /\ Levelled(grid)
        /\ grid \in GridType
    BY DEF IInv, Books, TypeOK
  <1>1. ASSUME NEW k \in Keys, BrokerFill(k) \/ BrokerClose(k) PROVE LevelBooks'
    <2>1. \A j \in Legs : j \in resting' /\ j \in unseen' => j \in resting /\ j \in unseen
      BY <1>1, <1>t DEF BrokerFill, BrokerClose
    <2>2. QED
      BY <1>1, <1>t, <2>1, SmallerLevelBooks DEF BrokerFill, BrokerClose
  <1>2. ASSUME NEW k \in Keys, MatchFill(k) PROVE LevelBooks'
    <2>1. k \in Legs /\ HedgedFill(k, unseen \ {k}, open) /\ unseen \ {k} \in SUBSET Legs
      BY <1>2, <1>t DEF MatchFill, TypeOK
    <2>2. FillEffect(grid, grid', k[1]) /\ tradeMap' \subseteq tradeMap \cup {k, OtherLeg(k)}
      BY <2>1, <1>t, HedgedFillEffect
    <2>3. k \in Orders /\ k \notin Orders'
      BY <1>2, <1>t DEF MatchFill, Shape, Orders, Broker
    <2>4. unseen' \subseteq unseen
      BY <2>1 DEF HedgedFill
    <2>5. QED
      BY <1>2, <1>t, <2>1, <2>2, <2>3, <2>4, FillLevelBooks DEF MatchFill
  <1>3. ASSUME NEW k \in Keys, PlaceFills(k) PROVE LevelBooks'
    <2>1. k \in Legs /\ HedgedFill(k, unseen, open) /\ unseen \in SUBSET Legs
      BY <1>3, <1>t DEF PlaceFills, TypeOK
    <2>2. FillEffect(grid, grid', k[1]) /\ tradeMap' \subseteq tradeMap \cup {k, OtherLeg(k)}
      BY <2>1, <1>t, HedgedFillEffect
    <2>3. unseen' = unseen /\ k \in Orders /\ k \in signals
      BY <1>3, <2>1 DEF PlaceFills, Processing, HedgedFill, Orders
    <2>4. Clean(k[1]) => k \notin Orders'
      BY <1>3, <1>t, <2>1, <2>3 DEF PlaceFills, Processing, Orders, LevelBooks, LevelOk
    <2>5. QED
      BY <1>3, <1>t, <2>1, <2>2, <2>3, <2>4, FillLevelBooks DEF PlaceFills, Processing
  <1>4. ASSUME NEW k \in Keys, MatchCancelled(k) PROVE LevelBooks'
    <2>1. k \in Legs \cap Orders /\ k \notin Orders'
      BY <1>4, <1>t DEF MatchCancelled, Broker, Orders, Shape, TypeOK
    <2>2. QED
      BY <1>4, <1>t, <2>1, ReleaseLevelBooks DEF MatchCancelled
  <1>5. ASSUME NEW k \in Keys, PlaceRefused(k) PROVE LevelBooks'
    <2>1. k \in Legs \cap Orders \/ (k = DoubledKey /\ "double" \in faults)
      BY <1>5, <1>t DEF PlaceRefused, Processing, Orders, DoubledBooks
    <2>2. Clean(k[1]) => k \notin Orders'
      <3>1. CASE k \in Legs
        BY <1>5, <1>t, <3>1 DEF PlaceRefused, Processing, Orders, LevelBooks, LevelOk
      <3>2. CASE k \notin Legs
        BY <1>5, <1>t, <3>2 DEF PlaceRefused, Processing, Orders, TypeOK
      <3>3. QED
        BY <3>1, <3>2
    <2>3. QED
      BY <1>5, <1>t, <2>1, <2>2, ReleaseLevelBooks DEF PlaceRefused, Processing
  <1>6. ASSUME NEW k \in Keys, CheckClosure(k) PROVE LevelBooks'
    <2>1. CASE IsDoubled(grid, k) \/ k[1] \notin grid.filled
      <3>1. /\ grid'.doubledLevel = grid.doubledLevel /\ grid'.queued = grid.queued
            /\ grid'.placed = grid.placed /\ grid'.filled = grid.filled
            /\ grid'.closed = grid.closed
        BY <1>6, <1>t, <2>1 DEF CheckClosure, ReportTradeClosed, AskExit, GridType
      <3>2. QED
        BY <1>6, <1>t, <3>1, SmallerLevelBooks DEF CheckClosure
    <2>2. CASE ~IsDoubled(grid, k) /\ k[1] \in grid.filled
      <3> SUFFICES ASSUME NEW j \in Legs, Clean(j[1])' PROVE LevelOk(j)'
        BY DEF LevelBooks
      <3>1. k \in Legs
        BY <1>6, <1>t, <2>2 DEF CheckClosure, DoubledBooks, DoubledKey, IsDoubled
      <3>2. /\ grid'.doubledLevel = grid.doubledLevel /\ grid'.queued = grid.queued
            /\ grid'.placed = grid.placed
            /\ \/ /\ PairOver(grid, k) /\ grid'.filled = grid.filled \ {k[1]}
                  /\ grid'.closed = grid.closed \ LegsOf(k[1])
               \/ grid'.filled = grid.filled /\ grid'.closed = grid.closed \cup {k}
        BY <1>6, <1>t, <2>2 DEF CheckClosure, ReportTradeClosed, GridType
      <3>3. Clean(j[1]) /\ Orders' = Orders
        BY <1>6, <3>2 DEF CheckClosure, Clean, Orders
      <3>4. CASE j[1] # k[1]
        BY <1>6, <1>t, <3>2, <3>3, <3>4, LegFacts DEF CheckClosure, LevelBooks, LevelOk
      <3>5. CASE j[1] = k[1]
        <4>1. \A i \in Legs : i[1] = j[1] => i \notin Orders
          BY <1>6, <1>t, <3>1, <3>3, <3>5 DEF CheckClosure, LevelBooks, LevelOk
        <4>2. j \in resting' => j \notin unseen'
          BY <1>6, <1>t, <3>3 DEF CheckClosure, LevelBooks, LevelOk
        <4>3. CASE PairOver(grid, k) /\ grid'.closed = grid.closed \ LegsOf(k[1])
          <5>1. j \notin tradeMap'
            BY <1>6, <1>t, <3>3, <3>5, <4>3, LegFacts
            DEF CheckClosure, LevelBooks, LevelOk, PairOver
          <5>2. j \notin grid'.closed
            BY <3>5, <4>3, LegFacts
          <5>3. QED
            BY <3>3, <4>1, <4>2, <5>1, <5>2 DEF Orders, LevelOk
        <4>4. CASE grid'.filled = grid.filled /\ grid'.closed = grid.closed \cup {k}
          <5>1. j \in grid'.closed => j \notin tradeMap'
            BY <1>6, <1>t, <3>3, <4>4 DEF CheckClosure, LevelBooks, LevelOk
          <5>2. QED
            BY <2>2, <3>3, <3>5, <4>1, <4>2, <4>4, <5>1 DEF Orders, LevelOk
        <4>5. QED
          BY <3>2, <4>3, <4>4
      <3>6. QED
        BY <3>4, <3>5
    <2>3. QED
      BY <2>1, <2>2
  <1>7. CASE EmitFlat
    <2>1. /\ grid'.doubledLevel = grid.doubledLevel /\ (grid'.queued => grid.queued)
          /\ grid'.placed = grid.placed /\ grid'.filled = grid.filled
          /\ grid'.closed = grid.closed
      BY <1>7, <1>t DEF EmitFlat, GridType
    <2>2. QED
      BY <1>7, <1>t, <2>1, SmallerLevelBooks DEF EmitFlat
  <1>8. ASSUME NEW k \in Keys, PlaceRests(k) PROVE LevelBooks'
    <2> SUFFICES ASSUME NEW j \in Legs, Clean(j[1])' PROVE LevelOk(j)'
      BY DEF LevelBooks
    <2>1. Clean(j[1]) /\ Orders' = Orders
      BY <1>8 DEF PlaceRests, Processing, Clean, Orders
    <2>2. j \in resting' => j \notin unseen'
      BY <1>8, <1>t, <2>1 DEF PlaceRests, Processing, LevelBooks, LevelOk, Broker
    <2>3. QED
      BY <1>8, <1>t, <2>1, <2>2 DEF PlaceRests, Processing, LevelBooks, LevelOk
  <1>9. ASSUME NEW k \in Keys, PlaceDoubled(k) PROVE LevelBooks'
    <2> SUFFICES ASSUME NEW j \in Legs, Clean(j[1])' PROVE LevelOk(j)'
      BY DEF LevelBooks
    <2>1. FillEffect(grid, grid', k[1]) /\ grid.doubledLevel # None
      BY <1>9, <1>t, ReportFillEffect DEF PlaceDoubled, Processing, DoubledBooks
    <2>2. /\ grid'.closed \subseteq grid.closed
          /\ grid.placed \cup grid.filled \subseteq grid'.placed \cup grid'.filled
      BY <2>1 DEF FillEffect, IsFirstFill
    <2>3. Clean(j[1]) /\ Orders' \subseteq Orders /\ (j \in tradeMap' => j \in tradeMap)
      BY <1>9, <2>1 DEF PlaceDoubled, Processing, Clean, Orders, FillEffect
    <2>4. \A i \in Legs : i \in tradeMap' => i \in tradeMap
      BY <1>9 DEF PlaceDoubled
    <2>5. /\ j \in orderMap' => j \notin signals'
          /\ j \in resting' => j \notin unseen'
          /\ j \in grid'.closed => j \notin tradeMap'
      BY <1>9, <1>t, <2>2, <2>3 DEF PlaceDoubled, Processing, LevelBooks, LevelOk
    <2>6. QED
      BY <1>t, <2>2, <2>3, <2>4, <2>5 DEF LevelBooks, LevelOk
  <1>10. ASSUME NEW price \in -5 .. 5, EmitEntries(price) PROVE LevelBooks'
    <2> DEFINE levels == {l \in Levels \ {price} : l \notin grid.placed \cup grid.filled}
    <2> SUFFICES ASSUME NEW j \in Legs, Clean(j[1])' PROVE LevelOk(j)'
      BY DEF LevelBooks
    <2>1. /\ grid'.doubledLevel = grid.doubledLevel /\ ~grid'.queued
          /\ grid'.placed = grid.placed \cup levels /\ grid'.filled = grid.filled
          /\ grid'.closed = grid.closed
      BY <1>10, <1>t DEF EmitEntries, GridType
    <2>2. signals = {}
      BY <1>10, <1>t DEF EmitEntries, Shape
    <2>3. \A k \in signals' : \/ k[1] \in levels /\ k = WaitingKey(k[1], price)
                              \/ k = DoubledKey /\ grid.queued
      BY <1>10 DEF EmitEntries, WaitingKey, DoubledKey
    <2>4. Clean(j[1])
      <3>1. <<j[1], "doubled">> \in signals' => grid.queued
        BY <2>3 DEF WaitingKey
      <3>2. QED
        BY <1>10, <2>1, <3>1 DEF EmitEntries, Clean
    <2>5. \A i \in Legs : i[1] = j[1] /\ i \in signals' =>
             i[1] \in levels /\ i = WaitingKey(j[1], price)
      BY <2>3, LegFacts DEF DoubledKey
    <2>6. j[1] \in levels => \A i \in Legs : i[1] = j[1] =>
             i \notin orderMap \cup tradeMap \cup grid.closed
      BY <1>t, <2>4 DEF LevelBooks, LevelOk, Orders
    <2> HIDE DEF levels
    <2>7. CASE j[1] \in levels
      BY <1>10, <1>t, <2>1, <2>4, <2>5, <2>6, <2>7 DEF EmitEntries, LevelBooks, LevelOk, Orders
    <2>8. CASE j[1] \notin levels
      <3>1. \A i \in Legs : i[1] = j[1] => i \notin signals'
        BY <2>5, <2>8
      <3>2. QED
        BY <1>10, <1>t, <2>1, <2>2, <2>4, <3>1 DEF EmitEntries, LevelBooks, LevelOk, Orders
    <2>9. QED
      BY <2>7, <2>8
  <1>11. CASE CloseAllSucceeds
    <2>1. signals' = {} /\ orderMap' = {} /\ tradeMap' = {} /\ resting' = {} /\ faults' = faults
      BY <1>11, <1>t DEF CloseAllSucceeds, Attempting, Shape
    <2>2. CASE grid.paused
      <3>1. /\ grid'.doubledLevel = grid.doubledLevel /\ grid'.queued = grid.queued
            /\ grid'.placed = grid.placed /\ grid'.filled = grid.filled
            /\ grid'.closed = grid.closed
        BY <1>11, <1>t, <2>2 DEF CloseAllSucceeds, NotifyComplete, GridType
      <3>2. QED
        BY <1>t, <2>1, <3>1, SmallerLevelBooks
    <2>3. CASE ~grid.paused
      <3>1. grid'.closed = {}
        BY <1>11, <2>3 DEF CloseAllSucceeds, NotifyComplete, NewGrid
      <3>2. QED
        BY <2>1, <3>1 DEF LevelBooks, LevelOk, Orders
    <2>4. QED
      BY <2>2, <2>3
  <1>12. CASE CloseAllFails
    BY <1>12, <1>t, SmallerLevelBooks DEF CloseAllFails
  <1>13. CASE ReadsFail
    BY <1>13, <1>t, SmallerLevelBooks DEF ReadsFail
  <1>14. CASE PollStarts \/ PollFails \/ PollEnds \/ SkipCycle \/ ReadsAnswer \/ SignalsDone
                \/ BackoffEnds \/ BreakerTrips \/ StillWaiting \/ UNCHANGED vars
    <2>1. UNCHANGED <<faults, resting, unseen, orderMap, tradeMap, grid, signals>>
      BY <1>14 DEF PollStarts, PollFails, PollEnds, SkipCycle, ReadsAnswer, SignalsDone,
                   BackoffEnds, BreakerTrips, StillWaiting, vars
    <2>2. QED
      BY <2>1, <1>t, SmallerLevelBooks
  <1>15. QED
    BY <1>1, <1>2, <1>3, <1>4, <1>5, <1>6, <1>7, <1>8, <1>9, <1>10, <1>11, <1>12, <1>13, <1>14
    DEF Next

\* An order fills and leaves; its level may be the one that is doubled now.
LEMMA FillDoubledBooks ==
  ASSUME IInv, LevelBooks, DoubledBooks, NEW k \in Legs \cap Orders,
         FillEffect(grid, grid', k[1]), grid' \in GridType,
         tradeMap \subseteq tradeMap', tradeMap' \subseteq tradeMap \cup {k, OtherLeg(k)},
         orderMap' \subseteq orderMap, signals' \subseteq signals, signals \ signals' \subseteq {k},
         Clean(k[1]) => k \notin Orders', faults' = faults, flat' = flat, ~flat
  PROVE  DoubledBooks'
  <1>1. Orders' \subseteq Orders /\ k[1] \in Levels /\ OtherLeg(k) \in Legs
    BY LegFacts DEF Orders
  <1>2. grid.doubledLevel = None => \A l \in Levels : Clean(l)
    BY LegFacts DEF Clean
  <1>3. \A j \in signals' \cup tradeMap' :
           j \notin Legs => j = DoubledKey' /\ grid'.doubledLevel # None
    BY <1>1 DEF DoubledBooks, FillEffect, DoubledKey
  <1>4. grid'.queued => \A j \in Legs \cap Orders' : j[1] # grid'.doubledLevel
    <2>1. CASE grid'.doubledLevel = grid.doubledLevel /\ grid'.queued = grid.queued
      BY <1>1, <2>1 DEF DoubledBooks
    <2>2. CASE grid.doubledLevel = None /\ grid'.doubledLevel = k[1]
      BY <1>1, <1>2, <2>2 DEF LevelBooks, LevelOk
    <2>3. QED
      BY <2>1, <2>2 DEF FillEffect
  <1>5. grid'.pending => grid'.exiting \/ ~grid'.active
    BY DEF DoubledBooks, FillEffect
  <1>6. faults \cap {"double", "read"} = {} /\ grid'.doubledActive =>
          grid'.queued \/ grid'.exiting \/ ~grid'.active
            \/ DoubledKey' \in tradeMap' \cup signals'
    <2>1. CASE grid'.queued
      BY <2>1
    <2>2. CASE ~grid'.queued
      <3>1. grid'.doubledLevel = grid.doubledLevel /\ grid'.queued = grid.queued
              /\ grid'.doubledActive = grid.doubledActive
        BY <2>2 DEF FillEffect
      <3>2. DoubledKey' = DoubledKey /\ DoubledKey # k
        BY <3>1, LegFacts DEF DoubledKey
      <3>3. QED
        BY <3>1, <3>2 DEF DoubledBooks, FillEffect
    <2>3. QED
      BY <2>1, <2>2
  <1>7. QED
    BY <1>3, <1>4, <1>5, <1>6 DEF DoubledBooks

LEMMA DoubledStep ==
  ASSUME IInv, Books, [Next]_vars
  PROVE  DoubledBooks'
  <1> USE DEF accountVars, retryVars, cycleVars
  <1>t. /\ TypeOK /\ Broker /\ Shape /\ LevelBooks /\ DoubledBooks /\ Levelled(grid)
        /\ grid \in GridType
    BY DEF IInv, Books, TypeOK
  <1>1. ASSUME NEW k \in Keys, MatchFill(k) PROVE DoubledBooks'
    <2>1. k \in Legs /\ HedgedFill(k, unseen \ {k}, open) /\ unseen \ {k} \in SUBSET Legs
      BY <1>1, <1>t DEF MatchFill, TypeOK
    <2>2. /\ FillEffect(grid, grid', k[1]) /\ grid' \in GridType
          /\ tradeMap \subseteq tradeMap' /\ tradeMap' \subseteq tradeMap \cup {k, OtherLeg(k)}
      BY <2>1, <1>t, HedgedFillEffect
    <2>3. k \in Orders /\ k \notin Orders' /\ ~flat
      BY <1>1, <1>t DEF MatchFill, Shape, Orders, Broker
    <2>4. QED
      BY <1>1, <1>t, <2>1, <2>2, <2>3, FillDoubledBooks DEF MatchFill
  <1>2. ASSUME NEW k \in Keys, PlaceFills(k) PROVE DoubledBooks'
    <2>1. k \in Legs /\ HedgedFill(k, unseen, open) /\ unseen \in SUBSET Legs
      BY <1>2, <1>t DEF PlaceFills, TypeOK
    <2>2. /\ FillEffect(grid, grid', k[1]) /\ grid' \in GridType
          /\ tradeMap \subseteq tradeMap' /\ tradeMap' \subseteq tradeMap \cup {k, OtherLeg(k)}
      BY <2>1, <1>t, HedgedFillEffect
    <2>3. k \in Orders /\ k \in signals /\ ~flat
      BY <1>2, <1>t DEF PlaceFills, Processing, Orders, Shape
    <2>4. Clean(k[1]) => k \notin Orders'
      BY <1>2, <1>t, <2>1, <2>3 DEF PlaceFills, Processing, Orders, LevelBooks, LevelOk
    <2>5. QED
      BY <1>2, <1>t, <2>1, <2>2, <2>3, <2>4, FillDoubledBooks DEF PlaceFills, Processing
  <1>3. ASSUME NEW k \in Keys, MatchCancelled(k) \/ (PlaceRefused(k) /\ k \in Legs)
        PROVE  DoubledBooks'
    <2>1. k \in Legs \cap Orders
      BY <1>3, <1>t DEF MatchCancelled, PlaceRefused, Processing, Broker, Orders, Shape, TypeOK
    <2>2. grid.queued => grid.doubledLevel # k[1]
      BY <1>t, <2>1 DEF DoubledBooks
    <2>3. /\ grid'.doubledLevel = grid.doubledLevel /\ grid'.doubledActive = grid.doubledActive
          /\ grid'.queued = grid.queued /\ grid'.pending = grid.pending
          /\ grid'.exiting = grid.exiting /\ grid'.active = grid.active
          /\ grid'.closing = grid.closing
      BY <1>3, <1>t, <2>2 DEF MatchCancelled, PlaceRefused, OnSignalRejected, GridType
    <2>4. /\ Orders' \subseteq Orders /\ signals' \subseteq signals /\ tradeMap' = tradeMap
          /\ (DoubledKey \in signals => DoubledKey \in signals')
          /\ flat' = flat /\ faults' = faults
      BY <1>3, <1>t, <2>1, LegFacts
      DEF MatchCancelled, PlaceRefused, Processing, Orders, DoubledKey
    <2>5. DoubledKey' = DoubledKey
      BY <2>3 DEF DoubledKey
    <2>6. QED
      BY <1>t, <2>3, <2>4, <2>5 DEF DoubledBooks
  <1>4. ASSUME NEW k \in Keys, PlaceRefused(k), k \notin Legs PROVE DoubledBooks'
    <2>1. k = DoubledKey /\ "double" \in faults /\ k[1] = grid.doubledLevel
      BY <1>4, <1>t, LegFacts DEF PlaceRefused, Processing, DoubledBooks, DoubledKey
    <2>2. /\ grid'.doubledLevel = grid.doubledLevel
          /\ ~grid'.queued /\ grid'.pending = grid.pending
          /\ grid'.exiting = grid.exiting /\ grid'.active = grid.active
      BY <1>4, <1>t, <2>1 DEF PlaceRefused, OnSignalRejected, GridType
    <2>3. QED
      BY <1>4, <1>t, <2>1, <2>2 DEF PlaceRefused, Processing, DoubledBooks, DoubledKey
  <1>5. ASSUME NEW k \in Keys, CheckClosure(k) PROVE DoubledBooks'
    <2>1. /\ grid'.doubledLevel = grid.doubledLevel
          /\ grid'.queued = grid.queued /\ grid'.active = grid.active
          /\ grid'.closing = grid.closing /\ (grid'.pending => grid.pending \/ grid'.exiting)
          /\ (grid.exiting => grid'.exiting)
          /\ (grid'.doubledActive => grid.doubledActive)
          /\ (IsDoubled(grid, k) => grid'.exiting)
      BY <1>5, <1>t DEF CheckClosure, ReportTradeClosed, AskExit, GridType
    <2>2. DoubledKey' = DoubledKey /\ Orders' = Orders
      BY <1>5, <2>1 DEF DoubledKey, Orders, CheckClosure
    <2>3. k = DoubledKey => IsDoubled(grid, k)
      BY <1>t, LegFacts DEF DoubledKey, IsDoubled, Keys
    <2>4. QED
      BY <1>5, <1>t, <2>1, <2>2, <2>3 DEF CheckClosure, DoubledBooks
  <1>6. CASE EmitFlat
    <2>1. /\ grid'.doubledLevel = grid.doubledLevel /\ grid'.active = grid.active
          /\ grid'.doubledActive = grid.doubledActive /\ (grid'.queued => grid.queued)
          /\ (grid'.queued => grid'.closing)
          /\ (grid.exiting => grid'.exiting) /\ (grid'.pending => grid.pending)
          /\ (grid.queued => grid'.queued \/ grid'.exiting \/ grid.pending)
      <3>1. CASE grid.pending /\ grid' = [grid EXCEPT !.pending = FALSE, !.queued = FALSE]
        BY <3>1, <1>t DEF GridType
      <3>2. CASE grid.closing /\ UNCHANGED grid
        BY <3>2
      <3>3. CASE grid' = [grid EXCEPT !.closing = TRUE, !.queued = FALSE, !.exiting = TRUE]
        BY <3>3, <1>t DEF GridType
      <3>4. QED
        BY <1>6, <3>1, <3>2, <3>3 DEF EmitFlat
    <2>2. DoubledKey' = DoubledKey /\ Orders' = Orders /\ signals = {}
      BY <1>6, <1>t, <2>1 DEF EmitFlat, DoubledKey, Orders, Shape
    <2>3. QED
      BY <1>6, <1>t, <2>1, <2>2 DEF EmitFlat, DoubledBooks
  <1>7. ASSUME NEW price \in -5 .. 5, EmitEntries(price) PROVE DoubledBooks'
    <2>1. /\ grid'.doubledLevel = grid.doubledLevel /\ ~grid'.queued
          /\ grid'.doubledActive = grid.doubledActive /\ grid'.active = grid.active
          /\ grid'.pending = grid.pending /\ grid'.exiting = grid.exiting
      BY <1>7, <1>t DEF EmitEntries, GridType
    <2>2. \A k \in signals' : k \notin Legs => k = DoubledKey /\ grid.queued
      <3>1. \A l \in Levels : WaitingKey(l, price) \in Legs
        BY DEF WaitingKey, Legs
      <3>2. QED
        BY <1>7, <3>1 DEF EmitEntries, DoubledKey
    <2>3. grid.queued => DoubledKey \in signals'
      BY <1>7 DEF EmitEntries, DoubledKey
    <2>4. DoubledKey' = DoubledKey /\ signals = {}
      BY <1>7, <1>t, <2>1 DEF EmitEntries, DoubledKey, Shape
    <2>5. QED
      BY <1>7, <1>t, <2>1, <2>2, <2>3, <2>4 DEF EmitEntries, DoubledBooks, Levelled
  <1>8. ASSUME NEW k \in Keys, PlaceRests(k) PROVE DoubledBooks'
    <2>1. Orders' = Orders /\ DoubledKey' = DoubledKey
      BY <1>8 DEF PlaceRests, Processing, Orders, DoubledKey
    <2>2. DoubledKey # k
      BY <1>8, LegFacts DEF PlaceRests, DoubledKey
    <2>3. QED
      BY <1>8, <1>t, <2>1, <2>2 DEF PlaceRests, Processing, DoubledBooks
  <1>9. ASSUME NEW k \in Keys, PlaceDoubled(k) PROVE DoubledBooks'
    <2>1. k = DoubledKey /\ grid.doubledLevel # None
      BY <1>9, <1>t DEF PlaceDoubled, Processing, DoubledBooks
    <2>2. FillEffect(grid, grid', k[1])
      BY <1>9, <1>t, ReportFillEffect DEF PlaceDoubled
    <2>3. /\ grid'.doubledLevel = grid.doubledLevel /\ grid'.queued = grid.queued
          /\ grid'.doubledActive = grid.doubledActive
      BY <2>1, <2>2 DEF FillEffect
    <2>4. Orders' \subseteq Orders /\ DoubledKey' = DoubledKey
      BY <1>9, <2>3 DEF PlaceDoubled, Processing, Orders, DoubledKey
    <2>5. QED
      BY <1>9, <1>t, <2>1, <2>2, <2>3, <2>4
      DEF PlaceDoubled, Processing, DoubledBooks, FillEffect
  <1>10. CASE CloseAllSucceeds
    <2>1. signals' = {} /\ orderMap' = {} /\ tradeMap' = {} /\ ~flat'
      BY <1>10, <1>t DEF CloseAllSucceeds, Attempting, Shape
    <2>2. CASE grid.paused
      <3>1. ~grid'.active
        BY <1>10, <1>t, <2>2 DEF CloseAllSucceeds, NotifyComplete, GridType
      <3>2. QED
        BY <2>1, <3>1 DEF DoubledBooks, Orders
    <2>3. CASE ~grid.paused
      <3>1. ~grid'.pending /\ ~grid'.doubledActive /\ ~grid'.queued
        BY <1>10, <2>3 DEF CloseAllSucceeds, NotifyComplete, NewGrid
      <3>2. QED
        BY <2>1, <3>1 DEF DoubledBooks
    <2>4. QED
      BY <2>2, <2>3
  <1>11. CASE ReadsFail
    BY <1>11, <1>t DEF ReadsFail, DoubledBooks, DoubledKey, Orders
  <1>12. ASSUME NEW k \in Keys, BrokerFill(k) \/ BrokerClose(k) PROVE DoubledBooks'
    BY <1>12, <1>t DEF BrokerFill, BrokerClose, DoubledBooks, DoubledKey, Orders
  <1>13. CASE PollStarts \/ PollFails \/ PollEnds \/ SkipCycle \/ ReadsAnswer \/ SignalsDone
                \/ BackoffEnds \/ BreakerTrips \/ StillWaiting \/ CloseAllFails \/ UNCHANGED vars
    <2>1. UNCHANGED <<faults, orderMap, tradeMap, grid, signals>> /\ (flat' => flat)
      BY <1>13 DEF PollStarts, PollFails, PollEnds, SkipCycle, ReadsAnswer, SignalsDone,
                   BackoffEnds, BreakerTrips, StillWaiting, CloseAllFails, vars
    <2>2. QED
      BY <2>1, <1>t DEF DoubledBooks, DoubledKey, Orders
  <1>14. QED
    BY <1>1, <1>2, <1>3, <1>4, <1>5, <1>6, <1>7, <1>8, <1>9, <1>10, <1>11, <1>12, <1>13
    DEF Next

\* Both sides of the level are booked and open when its pair opens.
LEMMA FillPairStands ==
  ASSUME IInv, LevelBooks, DoubledBooks, PairStands, NEW k \in Legs \cap Orders,
         FillEffect(grid, grid', k[1]), grid' \in GridType,
         open' = open \cup {k, OtherLeg(k)} \/ "opposite" \in faults,
         tradeMap' = tradeMap \cup {k, OtherLeg(k)} \/ "opposite" \in faults,
         signals' \subseteq signals, DoubledKey \notin signals, faults' = faults
  PROVE  PairStands'
  <1> SUFFICES ASSUME faults \cap {"opposite", "rush"} = {} PROVE PairStands'
    BY DEF PairStands
  <1>1. /\ open' = open \cup {k, OtherLeg(k)} /\ tradeMap' = tradeMap \cup {k, OtherLeg(k)}
        /\ k[1] \in Levels /\ OtherLeg(k) \in Legs
    BY LegFacts
  <1>2. grid.filled \subseteq grid'.filled /\ grid'.filled \subseteq grid.filled \cup {k[1]}
    BY DEF FillEffect
  <1>3. ASSUME grid'.active, grid'.queued, ~grid'.closing
        PROVE  /\ grid'.doubledLevel \in grid'.filled
               /\ \A j \in Legs : j[1] = grid'.doubledLevel => j \in open'
    <2>1. CASE grid'.doubledLevel = grid.doubledLevel /\ grid'.queued = grid.queued
      BY <1>1, <1>2, <1>3, <2>1 DEF PairStands, FillEffect
    <2>2. CASE grid.doubledLevel = None /\ grid'.doubledLevel = k[1]
      <3>1. Clean(k[1])
        BY <1>1, <2>2, LegFacts DEF Clean
      <3>2. k[1] \in grid.placed \cup grid.filled
        BY <3>1 DEF LevelBooks, LevelOk
      <3>3. k[1] \in grid'.filled
        BY <3>2 DEF FillEffect, IsFirstFill
      <3>4. QED
        BY <1>1, <2>2, <3>3, LegFacts
    <2>3. QED
      BY <2>1, <2>2 DEF FillEffect
  <1>4. DoubledKey' \notin signals'
    <2>1. CASE grid'.doubledLevel = grid.doubledLevel
      BY <2>1 DEF DoubledKey
    <2>2. CASE grid.doubledLevel = None
      BY <2>2, LegFacts DEF DoubledBooks, DoubledKey
    <2>3. QED
      BY <2>1, <2>2 DEF FillEffect
  <1>5. ASSUME grid'.active, NEW j \in Legs, j[1] \in grid'.filled, j \notin tradeMap'
        PROVE  \E i \in Legs : i[1] = j[1] /\ i \in grid'.closed
    <2>1. j[1] # k[1]
      BY <1>1, <1>5, LegFacts
    <2>2. \E i \in Legs : i[1] = j[1] /\ i \in grid.closed
      BY <1>1, <1>2, <1>5, <2>1 DEF PairStands, FillEffect
    <2>3. QED
      BY <2>1, <2>2, LegFacts DEF FillEffect
  <1>6. QED
    BY <1>3, <1>4, <1>5 DEF PairStands

LEMMA PairStep ==
  ASSUME IInv, Books, [Next]_vars
  PROVE  PairStands'
  <1> USE DEF accountVars, retryVars, cycleVars
  <1>t. /\ TypeOK /\ Broker /\ Shape /\ LevelBooks /\ DoubledBooks /\ Levelled(grid)
        /\ PairStands /\ grid \in GridType
    BY DEF IInv, Books, TypeOK
  <1>f. faults' = faults
    BY DEF Next, vars, PollStarts, PollFails, PollEnds, SkipCycle, EmitFlat, ReadsAnswer,
           ReadsFail, SignalsDone, BackoffEnds, BreakerTrips, StillWaiting, CloseAllSucceeds,
           CloseAllFails, EmitEntries, BrokerFill, BrokerClose, MatchFill, MatchCancelled,
           CheckClosure, PlaceRests, PlaceFills, PlaceDoubled, PlaceRefused
  <1> SUFFICES ASSUME faults \cap {"opposite", "rush"} = {} PROVE PairStands'
    BY <1>f DEF PairStands
  <1>1. ASSUME NEW k \in Keys, MatchFill(k) PROVE PairStands'
    <2>1. k \in Legs /\ HedgedFill(k, unseen \ {k}, open) /\ unseen \ {k} \in SUBSET Legs
      BY <1>1, <1>t DEF MatchFill, TypeOK
    <2>2. /\ FillEffect(grid, grid', k[1]) /\ grid' \in GridType
          /\ open' = open \cup {k, OtherLeg(k)} /\ tradeMap' = tradeMap \cup {k, OtherLeg(k)}
      BY <2>1, <1>t, HedgedFillEffect
    <2>3. k \in Orders /\ DoubledKey \notin signals
      BY <1>1, <1>t DEF MatchFill, Shape, Orders, Broker
    <2>4. QED
      BY <1>1, <1>t, <2>1, <2>2, <2>3, FillPairStands DEF MatchFill, IInv
  <1>2. ASSUME NEW k \in Keys, PlaceFills(k) PROVE PairStands'
    <2>1. k \in Legs /\ HedgedFill(k, unseen, open) /\ unseen \in SUBSET Legs
      BY <1>2, <1>t DEF PlaceFills, TypeOK
    <2>2. /\ FillEffect(grid, grid', k[1]) /\ grid' \in GridType
          /\ open' = open \cup {k, OtherLeg(k)} /\ tradeMap' = tradeMap \cup {k, OtherLeg(k)}
      BY <2>1, <1>t, HedgedFillEffect
    <2>3. k \in Orders /\ DoubledKey \notin signals
      BY <1>2, <2>1, LegFacts DEF PlaceFills, Processing, Orders, DoubledKey
    <2>4. QED
      BY <1>2, <1>t, <2>1, <2>2, <2>3, FillPairStands DEF PlaceFills, Processing, IInv
  <1>3. ASSUME NEW k \in Keys, MatchCancelled(k) \/ (PlaceRefused(k) /\ k \in Legs)
        PROVE  PairStands'
    <2>1. k \in Legs \cap Orders /\ DoubledKey \notin signals
      BY <1>3, <1>t, LegFacts
      DEF MatchCancelled, PlaceRefused, Processing, Broker, Orders, Shape, TypeOK, DoubledKey
    <2>2. grid.queued => grid.doubledLevel # k[1]
      BY <1>t, <2>1 DEF DoubledBooks
    <2>3. /\ grid'.doubledLevel = grid.doubledLevel /\ grid'.queued = grid.queued
          /\ grid'.filled = grid.filled \ {k[1]} /\ grid'.closed = grid.closed
          /\ grid'.active = grid.active /\ grid'.closing = grid.closing
      BY <1>3, <1>t, <2>2 DEF MatchCancelled, PlaceRefused, OnSignalRejected, GridType
    <2>4. signals' \subseteq signals /\ tradeMap' = tradeMap /\ open' = open
      BY <1>3 DEF MatchCancelled, PlaceRefused, Processing
    <2>5. DoubledKey' \notin signals'
      BY <2>1, <2>3, <2>4 DEF DoubledKey
    <2>6. QED
      BY <1>t, <2>2, <2>3, <2>4, <2>5 DEF PairStands
  <1>4. ASSUME NEW k \in Keys, PlaceRefused(k), k \notin Legs PROVE PairStands'
    <2>1. k = DoubledKey /\ k[1] = grid.doubledLevel
      BY <1>4, <1>t, LegFacts DEF PlaceRefused, Processing, DoubledBooks, DoubledKey
    <2>2. /\ grid'.doubledLevel = grid.doubledLevel
          /\ ~grid'.queued /\ grid'.filled \subseteq grid.filled
          /\ grid'.active = grid.active /\ grid'.closed = grid.closed
      BY <1>4, <1>t, <2>1 DEF PlaceRefused, OnSignalRejected, GridType
    <2>3. DoubledKey' \notin signals' /\ tradeMap' = tradeMap
      BY <1>4, <2>1, <2>2 DEF PlaceRefused, Processing, DoubledKey
    <2>4. QED
      BY <1>t, <2>2, <2>3 DEF PairStands
  <1>5. ASSUME NEW k \in Keys, CheckClosure(k) PROVE PairStands'
    <2>1. /\ grid'.doubledLevel = grid.doubledLevel
          /\ grid'.queued = grid.queued /\ grid'.active = grid.active
          /\ grid'.closing = grid.closing
      BY <1>5, <1>t DEF CheckClosure, ReportTradeClosed, AskExit, GridType
    <2>2. \/ /\ grid'.filled = grid.filled /\ grid'.closed = grid.closed
             /\ k[1] \notin grid.filled \/ k \notin Legs
          \/ grid'.filled = grid.filled \ {k[1]} /\ grid'.closed = grid.closed \ LegsOf(k[1])
          \/ grid'.filled = grid.filled /\ grid'.closed = grid.closed \cup {k}
      BY <1>5, <1>t, LegFacts
      DEF CheckClosure, ReportTradeClosed, AskExit, GridType, IsDoubled
    <2>3. tradeMap' = tradeMap \ {k} /\ open' = open /\ k \notin open /\ signals' = {}
      BY <1>5, <1>t DEF CheckClosure, Shape
    <2>4. ASSUME grid'.active, grid'.queued, ~grid'.closing
          PROVE  /\ grid'.doubledLevel \in grid'.filled
                 /\ \A j \in Legs : j[1] = grid'.doubledLevel => j \in open'
      <3>1. /\ grid.doubledLevel \in grid.filled
            /\ \A j \in Legs : j[1] = grid.doubledLevel => j \in open
        BY <1>t, <2>1, <2>4 DEF PairStands
      <3>2. grid.doubledLevel \in grid'.filled
        <4>1. CASE k[1] = grid.doubledLevel
          <5>1. k \notin Legs
            BY <2>3, <3>1, <4>1
          <5>2. k = DoubledKey /\ IsDoubled(grid, k)
            BY <1>5, <1>t, <5>1 DEF CheckClosure, DoubledBooks, DoubledKey, IsDoubled
          <5>3. grid'.filled = grid.filled
            BY <1>5, <1>t, <5>2 DEF CheckClosure, ReportTradeClosed, AskExit, GridType
          <5>4. QED
            BY <3>1, <5>3
        <4>2. CASE k[1] # grid.doubledLevel
          BY <2>2, <3>1, <4>2
        <4>3. QED
          BY <4>1, <4>2
      <3>3. QED
        BY <2>1, <2>3, <3>1, <3>2
    <2>5. ASSUME grid'.active, NEW j \in Legs, j[1] \in grid'.filled, j \notin tradeMap'
          PROVE  \E i \in Legs : i[1] = j[1] /\ i \in grid'.closed
      <3>1. CASE j \notin tradeMap
        <4>1. \E i \in Legs : i[1] = j[1] /\ i \in grid.closed
          BY <1>t, <2>1, <2>2, <2>5, <3>1 DEF PairStands
        <4>2. QED
          BY <2>2, <2>5, <4>1, LegFacts
      <3>2. CASE j = k
        BY <2>2, <2>5, <3>2
      <3>3. QED
        BY <2>3, <2>5, <3>1, <3>2
    <2>6. QED
      BY <2>3, <2>4, <2>5 DEF PairStands
  <1>6. CASE EmitFlat
    <2>1. /\ grid'.doubledLevel = grid.doubledLevel /\ grid'.active = grid.active
          /\ (grid'.queued => grid'.closing)
          /\ grid'.filled = grid.filled /\ grid'.closed = grid.closed
      BY <1>6, <1>t DEF EmitFlat, GridType
    <2>2. signals' = {} /\ tradeMap' = tradeMap
      BY <1>6, <1>t DEF EmitFlat, Shape
    <2>3. QED
      BY <1>t, <2>1, <2>2 DEF PairStands
  <1>7. ASSUME NEW price \in -5 .. 5, EmitEntries(price) PROVE PairStands'
    <2>1. /\ grid'.doubledLevel = grid.doubledLevel /\ ~grid'.queued
          /\ grid'.active = grid.active /\ grid.active /\ ~grid.closing
          /\ grid'.filled = grid.filled /\ grid'.closed = grid.closed
      BY <1>7, <1>t DEF EmitEntries, MayTrade, GridType
    <2>2. \A k \in signals' : k \in Legs => k[1] \notin grid.filled
      BY <1>7, LegFacts DEF EmitEntries, WaitingKey
    <2>3. DoubledKey \in signals' => grid.queued
      BY <1>7 DEF EmitEntries, DoubledKey, WaitingKey
    <2>4. DoubledKey' = DoubledKey /\ tradeMap' = tradeMap
      BY <1>7, <2>1 DEF EmitEntries, DoubledKey
    <2>5. DoubledKey \in signals' => grid.doubledLevel \in grid.filled
      BY <1>t, <2>1, <2>3 DEF PairStands
    <2>6. QED
      BY <1>t, <2>1, <2>2, <2>4, <2>5 DEF PairStands
  <1>8. ASSUME NEW k \in Keys, PlaceRests(k) PROVE PairStands'
    BY <1>8, <1>t DEF PlaceRests, Processing, PairStands, DoubledKey
  <1>9. ASSUME NEW k \in Keys, PlaceDoubled(k) PROVE PairStands'
    <2>1. k = DoubledKey /\ k[1] = grid.doubledLevel /\ grid.doubledLevel # None
      BY <1>9, <1>t, LegFacts DEF PlaceDoubled, Processing, DoubledBooks, DoubledKey
    <2>2. FillEffect(grid, grid', k[1])
      BY <1>9, <1>t, ReportFillEffect DEF PlaceDoubled
    <2>3. k[1] \in grid.filled
      BY <1>9, <1>t, <2>1 DEF PlaceDoubled, Processing, PairStands
    <2>4. /\ grid'.doubledLevel = grid.doubledLevel /\ grid'.queued = grid.queued
          /\ grid'.filled = grid.filled /\ grid'.closed = grid.closed
          /\ grid'.active = grid.active /\ grid'.closing = grid.closing
      BY <2>1, <2>2, <2>3 DEF FillEffect, IsFirstFill
    <2>5. /\ DoubledKey' \notin signals'
          /\ open \subseteq open' /\ tradeMap \subseteq tradeMap'
      BY <1>9, <2>1, <2>4 DEF PlaceDoubled, Processing, DoubledKey
    <2>6. QED
      BY <1>t, <2>4, <2>5 DEF PairStands
  <1>10. CASE CloseAllSucceeds
    <2>1. signals' = {}
      BY <1>10, <1>t DEF CloseAllSucceeds, Attempting, Shape
    <2>2. CASE grid.paused
      <3>1. ~grid'.active
        BY <1>10, <1>t, <2>2 DEF CloseAllSucceeds, NotifyComplete, GridType
      <3>2. QED
        BY <2>1, <3>1 DEF PairStands
    <2>3. CASE ~grid.paused
      <3>1. ~grid'.queued /\ grid'.filled = {}
        BY <1>10, <2>3 DEF CloseAllSucceeds, NotifyComplete, NewGrid
      <3>2. QED
        BY <2>1, <3>1 DEF PairStands
    <2>4. QED
      BY <2>2, <2>3
  <1>11. CASE CloseAllFails
    BY <1>11, <1>t DEF CloseAllFails, Attempting, PairStands, DoubledKey, DoubledBooks
  <1>12. ASSUME NEW k \in Keys, BrokerClose(k) PROVE PairStands'
    BY <1>12, <1>t DEF BrokerClose, PairStands, DoubledKey
  <1>13. ASSUME NEW k \in Keys, BrokerFill(k) PROVE PairStands'
    BY <1>13, <1>t DEF BrokerFill, PairStands, DoubledKey
  <1>14. CASE ReadsFail
    BY <1>14, <1>t DEF ReadsFail, PairStands
  <1>15. CASE PollStarts \/ PollFails \/ PollEnds \/ SkipCycle \/ ReadsAnswer \/ SignalsDone
                \/ BackoffEnds \/ BreakerTrips \/ StillWaiting \/ UNCHANGED vars
    <2>1. UNCHANGED <<faults, open, tradeMap, grid, signals>>
      BY <1>15 DEF PollStarts, PollFails, PollEnds, SkipCycle, ReadsAnswer, SignalsDone,
                   BackoffEnds, BreakerTrips, StillWaiting, vars
    <2>2. QED
      BY <2>1, <1>t DEF PairStands, DoubledKey
  <1>16. QED
    BY <1>1, <1>2, <1>3, <1>4, <1>5, <1>6, <1>7, <1>8, <1>9, <1>10, <1>11, <1>12, <1>13, <1>14,
       <1>15
    DEF Next

LEMMA BooksInvariance == Spec => []Books
  <1>1. Init => Books
    <2> SUFFICES ASSUME Init PROVE Books
      OBVIOUS
    <2>1. /\ grid.filled = {} /\ grid.closed = {} /\ ~grid.queued /\ ~grid.pending
          /\ ~grid.doubledActive
      BY DEF Init, NewGrid
    <2>2. QED
      BY <2>1 DEF Init, Books, Broker, LevelBooks, LevelOk, DoubledBooks, PairStands, Orders
  <1>2. IInv /\ Books /\ [Next]_vars => Books'
    BY BrokerStep, LevelStep, DoubledStep, PairStep DEF Books
  <1>3. QED
    BY <1>1, <1>2, Invariance, PTL DEF Spec

\* Between polls both sides of a pair are held until the first of them ends.
THEOREM HedgeCorrect == Spec => []Hedged
  <1>1. ASSUME IInv, Books PROVE Hedged
    <2> SUFFICES ASSUME grid.active, faults \cap {"opposite", "rush"} = {}, NEW l \in grid.filled,
                        LegsOf(l) \cap grid.closed = {}, NEW k \in LegsOf(l)
                 PROVE  k \in tradeMap
      BY DEF Hedged
    <2>1. l \in Levels
      BY <1>1 DEF IInv, TypeOK, GridType
    <2>2. k \in Legs /\ k[1] = l /\ \A j \in Legs : j[1] = l => j \in LegsOf(l)
      BY <2>1, LegFacts
    <2>3. QED
      BY <1>1, <2>2 DEF Books, PairStands
  <1>2. QED
    BY <1>1, Invariance, BooksInvariance, PTL

\* A level has no order beside a trade of its pair, and one position is doubled.
THEOREM ExposureCorrect == Spec => []OneOfEach
  <1>1. ASSUME IInv, Books PROVE OneOfEach
    <2> SUFFICES ASSUME "double" \notin faults PROVE OneOfEach
      BY DEF OneOfEach
    <2>1. ASSUME NEW k \in resting, NEW j \in LegsOf(k[1]), j \in open \cup unseen PROVE FALSE
      <3>1. k \in Legs /\ j \in Legs /\ j[1] = k[1] /\ Clean(k[1])
        BY <1>1, <2>1, LegFacts DEF IInv, TypeOK, Clean
      <3>2. k \in Orders /\ (j \in unseen => j \in Orders) /\ (j \in open => j \in tradeMap)
        BY <1>1, <2>1 DEF Books, Broker, Orders
      <3>3. QED
        BY <1>1, <2>1, <3>1, <3>2 DEF Books, LevelBooks, LevelOk
    <2>2. ASSUME NEW j \in open, NEW k \in open, j[2] = "doubled", k[2] = "doubled"
          PROVE  j = k
      <3>1. j \notin Legs /\ k \notin Legs
        BY <2>2, LegFacts
      <3>2. QED
        BY <1>1, <3>1 DEF Books, Broker, DoubledBooks
    <2>3. QED
      BY <2>1, <2>2 DEF OneOfEach
  <1>2. QED
    BY <1>1, Invariance, BooksInvariance, PTL

\* The strategy waits for a doubled position only while there is one, or its order.
THEOREM DoubledCorrect == Spec => []DoubledBacked
  <1>1. IInv /\ Books => DoubledBacked
    BY DEF IInv, Shape, Books, DoubledBooks, DoubledKey, DoubledBacked
  <1>2. QED
    BY <1>1, Invariance, BooksInvariance, PTL
=============================================================================
