------------------------- MODULE FillTracking_proof -------------------------
(***************************************************************************)
(* For any levels, any number of orders and the faults each property       *)
(* allows: the books of engine and strategy agree, nothing at the broker   *)
(* goes unknown, a trade is tracked under its own key, no key is exposed   *)
(* twice, and what is trimmed gets closed.                                 *)
(***************************************************************************)
EXTENDS FillTracking, WellFoundedInduction, TLAPS

\* While fills are matched, the trades on offer are not tracked yet.
OnOffer == pc = "match" => newTrades \cap Mapped(tradeMap) = {}

IInv == TypeOK /\ OnOffer /\ BooksAgree

LEMMA NextCases ==
  ASSUME Next
  PROVE  \/ \E n \in Ids : BrokerFill(n)
         \/ \E n \in Ids : BrokerStopOut(n)
         \/ \E n \in Ids : BrokerExpire(n)
         \/ PollTrades
         \/ FetchPending
         \/ \E k \in Keys, n \in Ids : MatchFill(k, n)
         \/ \E k \in Keys : MatchCancelled(k)
         \/ MatchDone
         \/ CheckClosures
         \/ \E k \in Keys : TrimCancel(k)
         \/ \E k \in Keys : TrimClose(k)
         \/ \E k \in Keys : TrimSkip(k)
         \/ PollDone
         \/ SkipCycle
         \/ \E window, trimmed \in SUBSET Levels, queued \in SUBSET Keys :
              Generate(window, trimmed, queued)
         \/ \E k \in Keys : PlaceRejected(k)
         \/ \E k \in Keys, n \in Ids : PlaceResting(k, n)
         \/ \E k \in Keys, n \in Ids : PlaceFilled(k, n)
         \/ \E k \in Keys, n \in Ids : PlaceLost(k, n)
         \/ \E k \in Keys, n, m \in Ids : PlaceNetted(k, n, m)
         \/ \E k \in Keys : PlaceCapped(k)
         \/ CycleAborts
         \/ \E k \in Keys, n \in Ids : SaveTradeFails(k, n)
         \/ CycleDone
  BY DEF Next, Broker, FastPoll, StrategyCycle

LEMMA TypeInit == Init => TypeOK
  <1>1. Init => openPrice \in [Ids -> Nat]
    BY DEF Init
  <1>2. Init => \A n \in Ids : status[n] # "free" => orderKey[n] \in Keys
    BY DEF Init
  <1>3. QED
    BY <1>1, <1>2 DEF Init, TypeOK

\* Fills are made at prices.
LEMMA PricesAreNumbers ==
  ASSUME NEW k \in Keys
  PROVE  /\ Entry(k) \in Nat
         /\ FillPrices(k) \subseteq Nat /\ FilledAtOnce(k) \subseteq Nat
  <1>1. ASSUME NEW j \in Keys PROVE Entry(j) \in Nat
    <2>1. j.level \in Nat /\ BuySellOffset \in Nat
      BY FillTrackingConstants DEF Keys
    <2>2. QED
      BY <2>1 DEF Entry
  <1>2. Anchor \in Nat
    BY FillTrackingConstants
  <1>3. QED
    BY <1>1, <1>2 DEF FillPrices, FilledAtOnce

\* Without gaps they are made at the entry, or at the level itself.
LEMMA FilledAtEntry ==
  ASSUME NEW k \in Keys, "slip" \notin faults, NEW p \in FilledAtOnce(k)
  PROVE  p \in {Entry(k), k.level}
  BY DEF FillPrices, FilledAtOnce

LEMMA TypeStep ==
  ASSUME TypeOK, [Next]_vars
  PROVE  TypeOK'
  <1> USE PricesAreNumbers DEF brokerVars, mapVars, cycleVars, strategyVars, pollVars, ReportFill, OnSignalRejected,
        ReportTradesClosed, TakesOrder, Processing, Unmap
  <1>1. ASSUME NEW n \in Ids, BrokerFill(n) PROVE TypeOK'
    BY <1>1 DEF BrokerFill, TypeOK
  <1>2. ASSUME NEW n \in Ids, BrokerStopOut(n) PROVE TypeOK'
    BY <1>2 DEF BrokerStopOut, TypeOK
  <1>3. ASSUME NEW n \in Ids, BrokerExpire(n) PROVE TypeOK'
    BY <1>3 DEF BrokerExpire, TypeOK
  <1>4. ASSUME PollTrades PROVE TypeOK'
    BY <1>4 DEF PollTrades, TypeOK
  <1>5. ASSUME FetchPending PROVE TypeOK'
    BY <1>5 DEF FetchPending, TypeOK
  <1>6. ASSUME NEW k \in Keys, NEW n \in Ids, MatchFill(k, n) PROVE TypeOK'
    BY <1>6 DEF MatchFill, TypeOK
  <1>7. ASSUME NEW k \in Keys, MatchCancelled(k) PROVE TypeOK'
    BY <1>7 DEF MatchCancelled, TypeOK
  <1>8. ASSUME MatchDone PROVE TypeOK'
    BY <1>8 DEF MatchDone, TypeOK
  <1>9. ASSUME CheckClosures PROVE TypeOK'
    BY <1>9 DEF CheckClosures, TypeOK
  <1>10. ASSUME NEW k \in Keys, TrimCancel(k) PROVE TypeOK'
    BY <1>10 DEF TrimCancel, TypeOK
  <1>11. ASSUME NEW k \in Keys, TrimClose(k) PROVE TypeOK'
    BY <1>11 DEF TrimClose, TypeOK
  <1>12. ASSUME NEW k \in Keys, TrimSkip(k) PROVE TypeOK'
    BY <1>12 DEF TrimSkip, TypeOK
  <1>13. ASSUME PollDone PROVE TypeOK'
    BY <1>13 DEF PollDone, TypeOK
  <1>14. ASSUME SkipCycle PROVE TypeOK'
    BY <1>14 DEF SkipCycle, TypeOK
  <1>15. ASSUME NEW window \in SUBSET Levels, NEW trimmed \in SUBSET Levels,
            NEW queued \in SUBSET Keys, Generate(window, trimmed, queued)
         PROVE  TypeOK'
    <2> DEFINE reached == Cardinality({n \in Ids : status[n] = "open"}) >= MaxOpenTrades
    <2>1. capped' = reached \/ capped' = TRUE
      BY <1>15 DEF Generate
    <2>2. reached \in BOOLEAN
      OBVIOUS
    <2>3. capped' \in BOOLEAN
      <3> HIDE DEF reached
      <3>1. QED
        BY <2>1, <2>2
    <2>4. QED
      BY <1>15, <2>3 DEF Generate, Stale, HandedOver, Missing, TypeOK
  <1>16. ASSUME NEW k \in Keys, PlaceRejected(k) PROVE TypeOK'
    BY <1>16 DEF PlaceRejected, TypeOK
  <1>17. ASSUME NEW k \in Keys, NEW n \in Ids, PlaceResting(k, n) PROVE TypeOK'
    BY <1>17 DEF PlaceResting, TypeOK
  <1>18. ASSUME NEW k \in Keys, NEW n \in Ids, PlaceFilled(k, n) PROVE TypeOK'
    BY <1>18 DEF PlaceFilled, TypeOK
  <1>19. ASSUME NEW k \in Keys, NEW n \in Ids, PlaceLost(k, n) PROVE TypeOK'
    <2>1. PICK as \in {"resting", "open"} : TakesOrder(k, n, as)
      BY <1>19 DEF PlaceLost
    <2>2. /\ status' \in [Ids -> {"free", "resting", "open"}]
          /\ orderKey' \in [Ids -> Keys \cup {None}]
          /\ \A m \in Ids : status'[m] # "free" => orderKey'[m] \in Keys
      BY <2>1 DEF TypeOK
    <2>3. openPrice' \in [Ids -> Nat]
      BY <2>1 DEF TypeOK
    <2>4. UNCHANGED <<faults, mapVars, filled, retired, pendingClose, pc, pollVars, capped>>
          /\ placed' = placed \ {k} /\ signals' = signals \ {k}
      BY <1>19 DEF PlaceLost
    <2>5. QED
      BY <2>2, <2>3, <2>4 DEF TypeOK
  <1>20. ASSUME NEW k \in Keys, NEW n \in Ids, NEW m \in Ids, PlaceNetted(k, n, m) PROVE TypeOK'
    BY <1>20 DEF PlaceNetted, TypeOK
  <1>21. ASSUME NEW k \in Keys, PlaceCapped(k) PROVE TypeOK'
    BY <1>21 DEF PlaceCapped, TypeOK
  <1>22. ASSUME CycleAborts PROVE TypeOK'
    BY <1>22 DEF CycleAborts, TypeOK
  <1>23. ASSUME NEW k \in Keys, NEW n \in Ids, SaveTradeFails(k, n) PROVE TypeOK'
    BY <1>23 DEF SaveTradeFails, TypeOK
  <1>24. ASSUME CycleDone PROVE TypeOK'
    BY <1>24 DEF CycleDone, TypeOK
  <1>25. CASE UNCHANGED vars
    BY <1>25 DEF vars, TypeOK
  <1>26. QED
    BY NextCases, <1>1, <1>2, <1>3, <1>4, <1>5, <1>6, <1>7, <1>8, <1>9, <1>10, <1>11, <1>12,
       <1>13, <1>14, <1>15, <1>16, <1>17, <1>18, <1>19, <1>20, <1>21, <1>22, <1>23, <1>24,
       <1>25

\* The model's types; a local variable is empty outside the step that uses it.
THEOREM TypeCorrect == Spec => []TypeOK
  <1>1. QED
    BY TypeInit, TypeStep, PTL DEF Spec

\* A new trade on one more key keeps the books in agreement.
LEMMA BooksGain ==
  ASSUME TypeOK, BooksAgree, NEW k \in Keys, NEW n \in Ids, None \notin Ids,
         n \notin Mapped(tradeMap), faults' = faults,
         tradeMap' = [tradeMap EXCEPT ![k] = n], filled' = filled \cup {k}
  PROVE  BooksAgree'
  <1> SUFFICES ASSUME "netted" \notin faults
               PROVE  BooksAgree'
    BY DEF BooksAgree
  <1>1. tradeMap'[k] = n /\ n # None
    BY DEF TypeOK
  <1>2. \A j \in Keys : j # k => tradeMap'[j] = tradeMap[j]
    BY DEF TypeOK
  <1>3. \A j \in Keys : tradeMap[j] # n
    BY DEF Mapped
  <1>4. filled' = {j \in Keys : tradeMap'[j] # None}
    BY <1>1, <1>2 DEF BooksAgree
  <1>5. \A i, j \in Keys : i # j /\ tradeMap'[i] # None => tradeMap'[i] # tradeMap'[j]
    BY <1>1, <1>2, <1>3 DEF BooksAgree
  <1>6. QED
    BY <1>4, <1>5 DEF BooksAgree

\* So do trades that are no longer tracked.
LEMMA BooksLose ==
  ASSUME TypeOK, BooksAgree, NEW ks \in SUBSET Keys, faults' = faults,
         \A j \in Keys : tradeMap'[j] = IF j \in ks THEN None ELSE tradeMap[j],
         filled' = filled \ ks
  PROVE  BooksAgree'
  <1> SUFFICES ASSUME "netted" \notin faults
               PROVE  BooksAgree'
    BY DEF BooksAgree
  <1>1. filled' = {j \in Keys : tradeMap'[j] # None}
    BY DEF BooksAgree
  <1>2. \A i, j \in Keys : i # j /\ tradeMap'[i] # None => tradeMap'[i] # tradeMap'[j]
    BY DEF BooksAgree
  <1>3. QED
    BY <1>1, <1>2 DEF BooksAgree

LEMMA BooksStep ==
  ASSUME IInv, [Next]_vars
  PROVE  (OnOffer /\ BooksAgree)'
  <1> USE FillTrackingConstants DEF FillTrackingConstants, brokerVars, mapVars, cycleVars,
        strategyVars, pollVars, ReportFill, OnSignalRejected, ReportTradesClosed, TakesOrder,
        Processing, Unmap
  <1>1. ASSUME NEW n \in Ids, BrokerFill(n) PROVE (OnOffer /\ BooksAgree)'
    BY <1>1 DEF BrokerFill, IInv, OnOffer, BooksAgree, Mapped
  <1>2. ASSUME NEW n \in Ids, BrokerStopOut(n) PROVE (OnOffer /\ BooksAgree)'
    BY <1>2 DEF BrokerStopOut, IInv, OnOffer, BooksAgree, Mapped
  <1>3. ASSUME NEW n \in Ids, BrokerExpire(n) PROVE (OnOffer /\ BooksAgree)'
    BY <1>3 DEF BrokerExpire, IInv, OnOffer, BooksAgree, Mapped
  <1>4. ASSUME PollTrades PROVE (OnOffer /\ BooksAgree)'
    BY <1>4 DEF PollTrades, IInv, OnOffer, BooksAgree, Mapped
  <1>5. ASSUME FetchPending PROVE (OnOffer /\ BooksAgree)'
    <2>1. OnOffer'
      BY <1>5 DEF FetchPending, OnOffer, Mapped
    <2>2. QED
      BY <1>5, <2>1 DEF FetchPending, IInv, BooksAgree
  <1>6. ASSUME NEW k \in Keys, NEW n \in Ids, MatchFill(k, n) PROVE (OnOffer /\ BooksAgree)'
    <2>1. n \notin Mapped(tradeMap) /\ n \in newTrades
      BY <1>6 DEF MatchFill, IInv, OnOffer, Nearest
    <2>2. BooksAgree'
      BY <1>6, <2>1, BooksGain DEF MatchFill, IInv
    <2>3. Mapped(tradeMap') \subseteq Mapped(tradeMap) \cup {n}
      BY <1>6 DEF MatchFill, Mapped, IInv, TypeOK
    <2>4. OnOffer'
      BY <1>6, <2>1, <2>3 DEF MatchFill, IInv, OnOffer
    <2>5. QED
      BY <2>2, <2>4
  <1>7. ASSUME NEW k \in Keys, MatchCancelled(k) PROVE (OnOffer /\ BooksAgree)'
    BY <1>7 DEF MatchCancelled, IInv, OnOffer, BooksAgree, Mapped
  <1>8. ASSUME MatchDone PROVE (OnOffer /\ BooksAgree)'
    BY <1>8 DEF MatchDone, IInv, OnOffer, BooksAgree, Mapped
  <1>9. ASSUME CheckClosures PROVE (OnOffer /\ BooksAgree)'
    <2> DEFINE closed == {k \in Keys : tradeMap[k] \notin openSnap \cup fresh \cup {None}}
    <2>1. /\ \A j \in Keys : tradeMap'[j] = IF j \in closed THEN None ELSE tradeMap[j]
          /\ filled' = filled \ closed
      BY <1>9 DEF CheckClosures
    <2>2. BooksAgree'
      <3> HIDE DEF closed
      <3>1. closed \in SUBSET Keys
        BY DEF closed
      <3>2. faults' = faults
        BY <1>9 DEF CheckClosures
      <3>3. QED
        BY <2>1, <3>1, <3>2, BooksLose DEF IInv
    <2>3. QED
      BY <1>9, <2>2 DEF CheckClosures, OnOffer
  <1>10. ASSUME NEW k \in Keys, TrimCancel(k) PROVE (OnOffer /\ BooksAgree)'
    BY <1>10 DEF TrimCancel, IInv, OnOffer, BooksAgree, Mapped
  <1>11. ASSUME NEW k \in Keys, TrimClose(k) PROVE (OnOffer /\ BooksAgree)'
    <2>1. CASE tradeMap' = tradeMap /\ filled' = filled
      BY <1>11, <2>1 DEF TrimClose, IInv, OnOffer, BooksAgree
    <2>2. CASE tradeMap' = [tradeMap EXCEPT ![k] = None] /\ filled' = filled \ {k}
      <3>1. \A j \in Keys : tradeMap'[j] = IF j \in {k} THEN None ELSE tradeMap[j]
        BY <2>2 DEF IInv, TypeOK
      <3>2. faults' = faults /\ {k} \in SUBSET Keys /\ filled' = filled \ {k}
        BY <1>11, <2>2 DEF TrimClose
      <3>3. BooksAgree'
        BY <3>1, <3>2, BooksLose DEF IInv
      <3>4. QED
        BY <1>11, <3>3 DEF TrimClose, OnOffer
    <2>3. QED
      BY <1>11, <2>1, <2>2 DEF TrimClose
  <1>12. ASSUME NEW k \in Keys, TrimSkip(k) PROVE (OnOffer /\ BooksAgree)'
    BY <1>12 DEF TrimSkip, IInv, OnOffer, BooksAgree, Mapped
  <1>13. ASSUME PollDone PROVE (OnOffer /\ BooksAgree)'
    BY <1>13 DEF PollDone, IInv, OnOffer, BooksAgree, Mapped
  <1>14. ASSUME SkipCycle PROVE (OnOffer /\ BooksAgree)'
    BY <1>14 DEF SkipCycle, IInv, OnOffer, BooksAgree, Mapped
  <1>15. ASSUME NEW window \in SUBSET Levels, NEW trimmed \in SUBSET Levels,
            NEW queued \in SUBSET Keys, Generate(window, trimmed, queued)
         PROVE  (OnOffer /\ BooksAgree)'
    BY <1>15 DEF Generate, IInv, OnOffer, BooksAgree, Mapped
  <1>16. ASSUME NEW k \in Keys, PlaceRejected(k) PROVE (OnOffer /\ BooksAgree)'
    BY <1>16 DEF PlaceRejected, IInv, OnOffer, BooksAgree, Mapped
  <1>17. ASSUME NEW k \in Keys, NEW n \in Ids, PlaceResting(k, n) PROVE (OnOffer /\ BooksAgree)'
    BY <1>17 DEF PlaceResting, IInv, OnOffer, BooksAgree, Mapped
  <1>18. ASSUME NEW k \in Keys, NEW n \in Ids, PlaceFilled(k, n) PROVE (OnOffer /\ BooksAgree)'
    <2>1. n \notin Mapped(tradeMap)
      BY <1>18 DEF PlaceFilled, Unused
    <2>2. BooksAgree'
      BY <1>18, <2>1, BooksGain DEF PlaceFilled, IInv
    <2>3. QED
      BY <1>18, <2>2 DEF PlaceFilled, OnOffer
  <1>19. ASSUME NEW k \in Keys, NEW n \in Ids, PlaceLost(k, n) PROVE (OnOffer /\ BooksAgree)'
    BY <1>19 DEF PlaceLost, IInv, OnOffer, BooksAgree, Mapped
  <1>20. ASSUME NEW k \in Keys, NEW n \in Ids, NEW m \in Ids, PlaceNetted(k, n, m)
         PROVE  (OnOffer /\ BooksAgree)'
    BY <1>20 DEF PlaceNetted, OnOffer, BooksAgree
  <1>21. ASSUME NEW k \in Keys, PlaceCapped(k) PROVE (OnOffer /\ BooksAgree)'
    BY <1>21 DEF PlaceCapped, IInv, OnOffer, BooksAgree, Mapped
  <1>22. ASSUME CycleAborts PROVE (OnOffer /\ BooksAgree)'
    BY <1>22 DEF CycleAborts, IInv, OnOffer, BooksAgree, Mapped
  <1>23. ASSUME NEW k \in Keys, NEW n \in Ids, SaveTradeFails(k, n) PROVE (OnOffer /\ BooksAgree)'
    BY <1>23 DEF SaveTradeFails, IInv, OnOffer, BooksAgree, Mapped
  <1>24. ASSUME CycleDone PROVE (OnOffer /\ BooksAgree)'
    BY <1>24 DEF CycleDone, IInv, OnOffer, BooksAgree, Mapped
  <1>25. CASE UNCHANGED vars
    BY <1>25 DEF vars, IInv, OnOffer, BooksAgree, Mapped
  <1>26. QED
    BY NextCases, <1>1, <1>2, <1>3, <1>4, <1>5, <1>6, <1>7, <1>8, <1>9, <1>10, <1>11, <1>12,
       <1>13, <1>14, <1>15, <1>16, <1>17, <1>18, <1>19, <1>20, <1>21, <1>22, <1>23, <1>24,
       <1>25

LEMMA BooksInit == Init => OnOffer /\ BooksAgree
  BY DEF Init, OnOffer, BooksAgree, Keys

\* Whatever fails or moves in between, as long as every fill opens a trade:
\* engine and strategy track the same keys, and no trade is tracked twice.
THEOREM BooksCorrect == Spec => []BooksAgree
  <1>1. Init => IInv
    BY TypeInit, BooksInit DEF IInv
  <1>2. IInv /\ [Next]_vars => IInv'
    BY TypeStep, BooksStep DEF IInv
  <1>3. IInv => BooksAgree
    BY DEF IInv
  <1>4. QED
    BY <1>1, <1>2, <1>3, PTL DEF Spec
-----------------------------------------------------------------------------
HandedKeys == pendingClose \cup todo

\* The order a key waits for was placed for that key.  The strategy takes the key for
\* placed, or has handed it over; as it has when the level is retired, when the
\* key is filled already, or when it is being placed once more.
OrdersBooked ==
  \A k \in Keys : pendingMap[k] # None =>
    /\ orderKey[pendingMap[k]] = k
    /\ k \in placed \/ k \in HandedKeys
    /\ k \in filled \/ k.level \in retired => k \in HandedKeys
    /\ k \in signals => k \in pendingClose

SignalsBooked ==
  \A k \in signals : k \in placed /\ k \notin filled /\ k.level \notin retired

TradesBooked ==
  \A k \in Keys : tradeMap[k] # None => k \in filled /\ status[tradeMap[k]] # "resting"

\* What a poll has read of the broker, and what has changed since.
Snapshots ==
  /\ \A n \in Ids : status[n] # "free" \/ n \in openSnap \cup newTrades => orderKey[n] \in Keys
  /\ \A n \in openSnap \cup newTrades : status[n] # "resting"
  /\ pc \in {"poll", "cycle", "signals"} => openSnap = {} /\ newTrades = {}
  /\ newTrades \subseteq openSnap /\ \A k \in gone : pendingMap[k] # None
  /\ pc \in {"fills", "match", "closures"} /\ "between" \notin faults =>
       openSnap = {n \in Ids : status[n] = "open"}

\* A poll that begins takes over all that has been handed over.
HandedOnce ==
  pc = "trim" \/ (pc = "cycle" /\ "poll" \notin faults) => pendingClose = {}

Sound == OrdersBooked /\ SignalsBooked /\ TradesBooked /\ Snapshots /\ HandedOnce

\* The order that is lost: of an id that nobody knew.
LEMMA LostOrder ==
  ASSUME TypeOK, NEW k \in Keys, NEW n \in Ids, PlaceLost(k, n)
  PROVE  /\ status[n] = "free" /\ status'[n] # "free" /\ orderKey'[n] = k
         /\ \A m \in Ids \ {n} : status'[m] = status[m] /\ orderKey'[m] = orderKey[m]
         /\ \A j \in Keys : pendingMap[j] # n /\ tradeMap[j] # n
         /\ \A m \in Ids \ {n} : openPrice'[m] = openPrice[m]
         /\ "slip" \notin faults => openPrice'[n] \in {Entry(k), k.level}
  <1>1. PICK as \in {"resting", "open"} : TakesOrder(k, n, as)
    BY DEF PlaceLost
  <1>2. \A j \in Keys : pendingMap[j] # n /\ tradeMap[j] # n
    BY <1>1, FillTrackingConstants DEF TakesOrder, Unused, Mapped
  <1>3. status[n] = "free" /\ status'[n] = as /\ orderKey'[n] = k
    BY <1>1 DEF TakesOrder, Unused, TypeOK
  <1>4. \A m \in Ids \ {n} : status'[m] = status[m] /\ orderKey'[m] = orderKey[m]
    BY <1>1 DEF TakesOrder, TypeOK
  <1>5. PICK q \in (IF as = "open" THEN FilledAtOnce(k) ELSE {Entry(k)}) :
          openPrice' = [openPrice EXCEPT ![n] = q]
    BY <1>1 DEF TakesOrder
  <1>6. "slip" \notin faults => q \in {Entry(k), k.level}
    BY <1>5, FilledAtEntry
  <1>7. \A m \in Ids \ {n} : openPrice'[m] = openPrice[m]
    BY <1>5 DEF TypeOK
  <1>8. openPrice'[n] = q
    BY <1>5 DEF TypeOK
  <1>9. QED
    BY <1>2, <1>3, <1>4, <1>6, <1>7, <1>8

LEMMA SoundStep ==
  ASSUME TypeOK, Sound, [Next]_vars
  PROVE  Sound'
  <1> USE FillTrackingConstants DEF brokerVars, mapVars, cycleVars, strategyVars, pollVars,
        ReportFill, OnSignalRejected, ReportTradesClosed, TakesOrder, Processing, Unmap
  <1> USE DEF TypeOK, Sound, OrdersBooked, SignalsBooked, TradesBooked, Snapshots, HandedOnce,
        HandedKeys
  <1>1. ASSUME NEW n \in Ids, BrokerFill(n) PROVE Sound'
    BY <1>1 DEF BrokerFill, MarketMoves
  <1>2. ASSUME NEW n \in Ids, BrokerStopOut(n) PROVE Sound'
    BY <1>2 DEF BrokerStopOut, MarketMoves
  <1>3. ASSUME NEW n \in Ids, BrokerExpire(n) PROVE Sound'
    BY <1>3 DEF BrokerExpire, MarketMoves
  <1>4. ASSUME PollTrades PROVE Sound'
    BY <1>4 DEF PollTrades
  <1>5. ASSUME FetchPending PROVE Sound'
    BY <1>5 DEF FetchPending, Mapped
  <1>6. ASSUME NEW k \in Keys, NEW n \in Ids, MatchFill(k, n) PROVE Sound'
    BY <1>6 DEF MatchFill, Nearest
  <1>7. ASSUME NEW k \in Keys, MatchCancelled(k) PROVE Sound'
    BY <1>7 DEF MatchCancelled
  <1>8. ASSUME MatchDone PROVE Sound'
    BY <1>8 DEF MatchDone
  <1>9. ASSUME CheckClosures PROVE Sound'
    BY <1>9 DEF CheckClosures
  <1>10. ASSUME NEW k \in Keys, TrimCancel(k) PROVE Sound'
    BY <1>10 DEF TrimCancel
  <1>11. ASSUME NEW k \in Keys, TrimClose(k) PROVE Sound'
    BY <1>11 DEF TrimClose
  <1>12. ASSUME NEW k \in Keys, TrimSkip(k) PROVE Sound'
    BY <1>12 DEF TrimSkip
  <1>13. ASSUME PollDone PROVE Sound'
    BY <1>13 DEF PollDone
  <1>14. ASSUME SkipCycle PROVE Sound'
    BY <1>14 DEF SkipCycle
  <1>15. ASSUME NEW window \in SUBSET Levels, NEW trimmed \in SUBSET Levels,
            NEW queued \in SUBSET Keys, Generate(window, trimmed, queued)
         PROVE  Sound'
    BY <1>15 DEF Generate, HandedOver, Stale, Missing
  <1>16. ASSUME NEW k \in Keys, PlaceRejected(k) PROVE Sound'
    BY <1>16 DEF PlaceRejected
  <1>17. ASSUME NEW k \in Keys, NEW n \in Ids, PlaceResting(k, n) PROVE Sound'
    BY <1>17 DEF PlaceResting, Unused, Mapped
  <1>18. ASSUME NEW k \in Keys, NEW n \in Ids, PlaceFilled(k, n) PROVE Sound'
    BY <1>18 DEF PlaceFilled, Unused, Mapped
  <1>19. ASSUME NEW k \in Keys, NEW n \in Ids, PlaceLost(k, n) PROVE Sound'
    <2>1. /\ status[n] = "free" /\ status'[n] # "free" /\ orderKey'[n] = k
          /\ \A m \in Ids \ {n} : status'[m] = status[m] /\ orderKey'[m] = orderKey[m]
          /\ \A j \in Keys : pendingMap[j] # n /\ tradeMap[j] # n
      BY <1>19, LostOrder
    <2>2. OrdersBooked'
      BY <1>19, <2>1 DEF PlaceLost
    <2>5. SignalsBooked'
      BY <1>19 DEF PlaceLost
    <2>6. TradesBooked'
      <3>1. \A j \in Keys : tradeMap[j] # None => tradeMap[j] \in Ids \ {n}
        BY <2>1
      <3>2. \A j \in Keys : tradeMap[j] # None => status'[tradeMap[j]] = status[tradeMap[j]]
        BY <2>1, <3>1
      <3>3. QED
        BY <1>19, <3>2 DEF PlaceLost
    <2>3. Snapshots' /\ HandedOnce'
      BY <1>19, <2>1 DEF PlaceLost
    <2>4. QED
      BY <2>2, <2>3, <2>5, <2>6
  <1>20. ASSUME NEW k \in Keys, NEW n \in Ids, NEW m \in Ids, PlaceNetted(k, n, m) PROVE Sound'
    BY <1>20 DEF PlaceNetted, Unused, Mapped
  <1>21. ASSUME NEW k \in Keys, PlaceCapped(k) PROVE Sound'
    BY <1>21 DEF PlaceCapped
  <1>22. ASSUME CycleAborts PROVE Sound'
    BY <1>22 DEF CycleAborts
  <1>23. ASSUME NEW k \in Keys, NEW n \in Ids, SaveTradeFails(k, n) PROVE Sound'
    BY <1>23 DEF SaveTradeFails, Unused, Mapped
  <1>24. ASSUME CycleDone PROVE Sound'
    BY <1>24 DEF CycleDone
  <1>25. CASE UNCHANGED vars
    BY <1>25 DEF vars, Mapped
  <1>26. QED
    BY NextCases, <1>1, <1>2, <1>3, <1>4, <1>5, <1>6, <1>7, <1>8, <1>9, <1>10, <1>11, <1>12,
       <1>13, <1>14, <1>15, <1>16, <1>17, <1>18, <1>19, <1>20, <1>21, <1>22, <1>23, <1>24,
       <1>25


\* As long as no poll and no cycle is cut short and the cap is not reached, a key
\* that is taken for placed has an order or a signal, or its level is retired.
Backed ==
  faults \cap {"poll", "abort", "crowded"} = {} =>
    \A k \in placed :
      /\ k.level \notin retired => pendingMap[k] # None \/ k \in signals
      /\ k \in HandedKeys => k.level \in retired

LEMMA BackedStep ==
  ASSUME TypeOK, Sound, Backed, ~capped, [Next]_vars
  PROVE  Backed'
  <1> USE FillTrackingConstants DEF brokerVars, mapVars, cycleVars, strategyVars, pollVars,
        ReportFill, OnSignalRejected, ReportTradesClosed, TakesOrder, Processing, Unmap
  <1> USE DEF TypeOK, Backed, HandedKeys
  <1>1. ASSUME NEW n \in Ids, BrokerFill(n) PROVE Backed'
    BY <1>1 DEF BrokerFill, MarketMoves
  <1>2. ASSUME NEW n \in Ids, BrokerStopOut(n) PROVE Backed'
    BY <1>2 DEF BrokerStopOut, MarketMoves
  <1>3. ASSUME NEW n \in Ids, BrokerExpire(n) PROVE Backed'
    BY <1>3 DEF BrokerExpire, MarketMoves
  <1>4. ASSUME PollTrades PROVE Backed'
    BY <1>4 DEF PollTrades
  <1>5. ASSUME FetchPending PROVE Backed'
    BY <1>5 DEF FetchPending, Mapped
  <1>6. ASSUME NEW k \in Keys, NEW n \in Ids, MatchFill(k, n) PROVE Backed'
    BY <1>6 DEF MatchFill, Nearest
  <1>7. ASSUME NEW k \in Keys, MatchCancelled(k) PROVE Backed'
    BY <1>7 DEF MatchCancelled
  <1>8. ASSUME MatchDone PROVE Backed'
    BY <1>8 DEF MatchDone
  <1>9. ASSUME CheckClosures PROVE Backed'
    BY <1>9 DEF CheckClosures
  <1>10. ASSUME NEW k \in Keys, TrimCancel(k) PROVE Backed'
    BY <1>10 DEF TrimCancel
  <1>11. ASSUME NEW k \in Keys, TrimClose(k) PROVE Backed'
    BY <1>11 DEF TrimClose
  <1>12. ASSUME NEW k \in Keys, TrimSkip(k) PROVE Backed'
    BY <1>12 DEF TrimSkip
  <1>13. ASSUME PollDone PROVE Backed'
    BY <1>13 DEF PollDone
  <1>14. ASSUME SkipCycle PROVE Backed'
    BY <1>14 DEF SkipCycle
  <1>15. ASSUME NEW window \in SUBSET Levels, NEW trimmed \in SUBSET Levels,
            NEW queued \in SUBSET Keys, Generate(window, trimmed, queued)
         PROVE  Backed'
    BY <1>15 DEF Generate, HandedOver, Stale, Missing, Sound, HandedOnce
  <1>16. ASSUME NEW k \in Keys, PlaceRejected(k) PROVE Backed'
    BY <1>16 DEF PlaceRejected
  <1>17. ASSUME NEW k \in Keys, NEW n \in Ids, PlaceResting(k, n) PROVE Backed'
    BY <1>17 DEF PlaceResting, Unused, Mapped
  <1>18. ASSUME NEW k \in Keys, NEW n \in Ids, PlaceFilled(k, n) PROVE Backed'
    BY <1>18 DEF PlaceFilled, Unused, Mapped
  <1>19. ASSUME NEW k \in Keys, NEW n \in Ids, PlaceLost(k, n) PROVE Backed'
    BY <1>19 DEF PlaceLost, Unused, Mapped
  <1>20. ASSUME NEW k \in Keys, NEW n \in Ids, NEW m \in Ids, PlaceNetted(k, n, m) PROVE Backed'
    BY <1>20 DEF PlaceNetted, Unused, Mapped
  <1>21. ASSUME NEW k \in Keys, PlaceCapped(k) PROVE Backed'
    BY <1>21 DEF PlaceCapped
  <1>22. ASSUME CycleAborts PROVE Backed'
    BY <1>22 DEF CycleAborts
  <1>23. ASSUME NEW k \in Keys, NEW n \in Ids, SaveTradeFails(k, n) PROVE Backed'
    BY <1>23 DEF SaveTradeFails, Unused, Mapped
  <1>24. ASSUME CycleDone PROVE Backed'
    BY <1>24 DEF CycleDone
  <1>25. CASE UNCHANGED vars
    BY <1>25 DEF vars, Mapped
  <1>26. QED
    BY NextCases, <1>1, <1>2, <1>3, <1>4, <1>5, <1>6, <1>7, <1>8, <1>9, <1>10, <1>11, <1>12,
       <1>13, <1>14, <1>15, <1>16, <1>17, <1>18, <1>19, <1>20, <1>21, <1>22, <1>23, <1>24,
       <1>25


\* A trade of a retired level is handed over, or has ended.
Trimming ==
  faults \cap {"close", "netted"} = {} =>
    \A k \in filled : k.level \in retired => k \in HandedKeys \/ status[tradeMap[k]] = "free"

LEMMA TrimmingStep ==
  ASSUME TypeOK, BooksAgree, Sound, Trimming, [Next]_vars
  PROVE  Trimming'
  <1> USE FillTrackingConstants DEF brokerVars, mapVars, cycleVars, strategyVars, pollVars,
        ReportFill, OnSignalRejected, ReportTradesClosed, TakesOrder, Processing, Unmap
  <1> USE DEF TypeOK, BooksAgree, Trimming, HandedKeys, Mapped
  <1>1. ASSUME NEW n \in Ids, BrokerFill(n) PROVE Trimming'
    BY <1>1 DEF BrokerFill, MarketMoves
  <1>2. ASSUME NEW n \in Ids, BrokerStopOut(n) PROVE Trimming'
    BY <1>2 DEF BrokerStopOut, MarketMoves
  <1>3. ASSUME NEW n \in Ids, BrokerExpire(n) PROVE Trimming'
    BY <1>3 DEF BrokerExpire, MarketMoves
  <1>4. ASSUME PollTrades PROVE Trimming'
    BY <1>4 DEF PollTrades
  <1>5. ASSUME FetchPending PROVE Trimming'
    BY <1>5 DEF FetchPending, Mapped
  <1>6. ASSUME NEW k \in Keys, NEW n \in Ids, MatchFill(k, n) PROVE Trimming'
    BY <1>6 DEF MatchFill, Sound, OrdersBooked, Snapshots
  <1>7. ASSUME NEW k \in Keys, MatchCancelled(k) PROVE Trimming'
    BY <1>7 DEF MatchCancelled
  <1>8. ASSUME MatchDone PROVE Trimming'
    BY <1>8 DEF MatchDone
  <1>9. ASSUME CheckClosures PROVE Trimming'
    BY <1>9 DEF CheckClosures
  <1>10. ASSUME NEW k \in Keys, TrimCancel(k) PROVE Trimming'
    BY <1>10 DEF TrimCancel
  <1>11. ASSUME NEW k \in Keys, TrimClose(k) PROVE Trimming'
    BY <1>11 DEF TrimClose, Sound, TradesBooked
  <1>12. ASSUME NEW k \in Keys, TrimSkip(k) PROVE Trimming'
    BY <1>12 DEF TrimSkip
  <1>13. ASSUME PollDone PROVE Trimming'
    BY <1>13 DEF PollDone
  <1>14. ASSUME SkipCycle PROVE Trimming'
    BY <1>14 DEF SkipCycle
  <1>15. ASSUME NEW window \in SUBSET Levels, NEW trimmed \in SUBSET Levels,
            NEW queued \in SUBSET Keys, Generate(window, trimmed, queued)
         PROVE  Trimming'
    BY <1>15 DEF Generate, HandedOver, Stale, Missing
  <1>16. ASSUME NEW k \in Keys, PlaceRejected(k) PROVE Trimming'
    BY <1>16 DEF PlaceRejected
  <1>17. ASSUME NEW k \in Keys, NEW n \in Ids, PlaceResting(k, n) PROVE Trimming'
    BY <1>17 DEF PlaceResting, Unused
  <1>18. ASSUME NEW k \in Keys, NEW n \in Ids, PlaceFilled(k, n) PROVE Trimming'
    BY <1>18 DEF PlaceFilled, Unused, Sound, SignalsBooked
  <1>19. ASSUME NEW k \in Keys, NEW n \in Ids, PlaceLost(k, n) PROVE Trimming'
    <2>1. /\ \A m \in Ids \ {n} : status'[m] = status[m]
          /\ \A j \in Keys : tradeMap[j] # n
      BY <1>19, LostOrder
    <2>2. QED
      BY <1>19, <2>1 DEF PlaceLost
  <1>20. ASSUME NEW k \in Keys, NEW n \in Ids, NEW m \in Ids, PlaceNetted(k, n, m) PROVE Trimming'
    BY <1>20 DEF PlaceNetted, Unused, Mapped
  <1>21. ASSUME NEW k \in Keys, PlaceCapped(k) PROVE Trimming'
    BY <1>21 DEF PlaceCapped
  <1>22. ASSUME CycleAborts PROVE Trimming'
    BY <1>22 DEF CycleAborts
  <1>23. ASSUME NEW k \in Keys, NEW n \in Ids, SaveTradeFails(k, n) PROVE Trimming'
    BY <1>23 DEF SaveTradeFails, Unused
  <1>24. ASSUME CycleDone PROVE Trimming'
    BY <1>24 DEF CycleDone
  <1>25. CASE UNCHANGED vars
    BY <1>25 DEF vars, Mapped
  <1>26. QED
    BY NextCases, <1>1, <1>2, <1>3, <1>4, <1>5, <1>6, <1>7, <1>8, <1>9, <1>10, <1>11, <1>12,
       <1>13, <1>14, <1>15, <1>16, <1>17, <1>18, <1>19, <1>20, <1>21, <1>22, <1>23, <1>24,
       <1>25


\* A set of numbers has a least element.
LEMMA LeastElement ==
  ASSUME NEW T \in SUBSET Nat, T # {}
  PROVE  \E d \in T : \A e \in T : d <= e
  <1> DEFINE less == OpToRel(<, Nat)
  <1>1. PICK d \in T : \A e \in T : ~(<<e, d>> \in less)
    BY NatLessThanWellFounded, WFMin
  <1>2. ASSUME NEW e \in T PROVE d <= e
    <2>1. d \in Nat /\ e \in Nat
      OBVIOUS
    <2>2. ~(<<e, d>> \in less)
      BY <1>1
    <2>3. e < d => <<e, d>> \in less
      BY <2>1, Zenon DEF OpToRel
    <2> HIDE DEF less
    <2>4. ~(e < d)
      BY <2>2, <2>3
    <2>5. QED
      BY <2>1, <2>4
  <1>3. QED
    BY <1>2

\* Of the new trades of a key's side there is a nearest one.
LEMMA NearestExists ==
  ASSUME TypeOK, Sound, NEW k \in Keys, NEW p \in newTrades, orderKey[p].side = k.side
  PROVE  Nearest(k) # {}
  <1> DEFINE sameSide == {n \in newTrades : orderKey[n].side = k.side}
             far == {Distance(n, k) : n \in sameSide}
  <1>1. \A n \in sameSide : Distance(n, k) \in Nat
    <2>1. k.level \in Nat /\ \A n \in sameSide : openPrice[n] \in Nat
      BY FillTrackingConstants DEF FillTrackingConstants, Keys, TypeOK
    <2>2. QED
      BY <2>1 DEF Distance
  <1>2. far \in SUBSET Nat /\ far # {}
    BY <1>1
  <1>3. PICK d \in far : \A e \in far : d <= e
    <2> HIDE DEF far
    <2>1. QED
      BY <1>2, LeastElement
  <1>4. PICK n \in sameSide : d = Distance(n, k)
    OBVIOUS
  <1>5. n \in Nearest(k)
    BY <1>3, <1>4 DEF Nearest
  <1>6. QED
    BY <1>5

\* An order or a trade, and what a poll has read of one, has the price of its entry, or
\* of its level.
AtEntry ==
  \A n \in Ids : status[n] # "free" \/ n \in openSnap \cup newTrades
    => openPrice[n] \in {Entry(orderKey[n]), orderKey[n].level}

\* If the trade of a key's own order is on offer, only trades placed for it are nearest:
\* its own is at most the offset away from its level, and others are farther.
LEMMA NearestIsOwn ==
  ASSUME TypeOK, Sound, Separated, AtEntry,
         NEW k \in Keys, NEW p \in newTrades, orderKey[p] = k, NEW n \in Nearest(k)
  PROVE  orderKey[n] = k
  <1> DEFINE a == k.level
             b == orderKey[n].level
             x == openPrice[n]
             y == openPrice[p]
  <1>1. n \in newTrades /\ orderKey[n] \in Keys /\ orderKey[n].side = k.side
    BY DEF Nearest, Sound, Snapshots, TypeOK
  <1>2. Distance(n, k) <= Distance(p, k)
    BY DEF Nearest
  <1>3. a \in Nat /\ b \in Nat /\ BuySellOffset \in Nat
    BY <1>1, FillTrackingConstants DEF Keys
  <1>4. x \in {b, b + BuySellOffset} /\ y \in {a, a + BuySellOffset}
    BY <1>1 DEF AtEntry, Entry, TypeOK
  <1>5. (a < b => 2 * BuySellOffset < b - a) /\ (b < a => 2 * BuySellOffset < a - b)
    BY <1>1 DEF Separated, Keys
  <1>6. (IF x > a THEN x - a ELSE a - x) <= (IF y > a THEN y - a ELSE a - y)
    BY <1>2 DEF Distance
  <1>7. a = b
    <2> HIDE DEF a, b, x, y
    <2>1. QED
      BY <1>3, <1>4, <1>5, <1>6
  <1>8. QED
    BY <1>1, <1>7 DEF Keys

\* As long as the broker moves between polls only, fills at the entries, and orders do not end unseen: a
\* trade is tracked under its own key, and a gone order's trade is on offer.
Right ==
  Separated /\ faults \subseteq {"poll", "pending", "cancel", "close", "lost", "abort", "crowded"} =>
    /\ \A k \in Keys : tradeMap[k] # None => orderKey[tradeMap[k]] = k
    /\ \A k \in Keys : pendingMap[k] # None =>
         /\ status[pendingMap[k]] # "free"
         /\ \A j \in Keys : tradeMap[j] # pendingMap[k]
    /\ \A k \in gone : pendingMap[k] \in newTrades
    /\ AtEntry

LEMMA RightStep ==
  ASSUME TypeOK, Sound, Right, [Next]_vars
  PROVE  Right'
  <1> USE FillTrackingConstants DEF brokerVars, mapVars, cycleVars, strategyVars, pollVars,
        ReportFill, OnSignalRejected, ReportTradesClosed, TakesOrder, Processing, Unmap
  <1> USE DEF TypeOK, Right, AtEntry
  <1>1. ASSUME NEW n \in Ids, BrokerFill(n) PROVE Right'
    <2>1. PICK q \in FillPrices(orderKey[n]) : openPrice' = [openPrice EXCEPT ![n] = q]
      BY <1>1 DEF BrokerFill
    <2>2. "slip" \notin faults => q = Entry(orderKey[n])
      BY <2>1 DEF FillPrices
    <2>3. \A m \in Ids : openPrice'[m] = IF m = n THEN q ELSE openPrice[m]
      BY <2>1
    <2>4. QED
      BY <1>1, <2>2, <2>3 DEF BrokerFill, MarketMoves
  <1>2. ASSUME NEW n \in Ids, BrokerStopOut(n) PROVE Right'
    BY <1>2 DEF BrokerStopOut, Mapped
  <1>3. ASSUME NEW n \in Ids, BrokerExpire(n) PROVE Right'
    BY <1>3 DEF BrokerExpire, MarketMoves
  <1>4. ASSUME PollTrades PROVE Right'
    BY <1>4 DEF PollTrades
  <1>5. ASSUME FetchPending PROVE Right'
    BY <1>5 DEF FetchPending, Sound, Snapshots, Mapped
  <1>6. ASSUME NEW k \in Keys, NEW n \in Ids, MatchFill(k, n) PROVE Right'
    <2> SUFFICES ASSUME Separated,
                        faults \subseteq {"poll", "pending", "cancel", "close", "lost", "abort",
                                          "crowded"}
                 PROVE  Right'
      BY <1>6 DEF MatchFill
    <2>1. pendingMap[k] \in newTrades /\ orderKey[pendingMap[k]] = k
      BY <1>6 DEF MatchFill, Sound, OrdersBooked, Snapshots
    <2>2. orderKey[n] = k /\ n \in newTrades
      BY <1>6, <2>1, NearestIsOwn DEF MatchFill, Nearest
    <2>3. \A j \in Keys : j # k /\ pendingMap[j] # None => pendingMap[j] # n
      BY <2>2 DEF Sound, OrdersBooked
    <2>4. QED
      BY <1>6, <2>2, <2>3 DEF MatchFill, Sound, Snapshots
  <1>7. ASSUME NEW k \in Keys, MatchCancelled(k) PROVE Right'
    BY <1>7 DEF MatchCancelled
  <1>8. ASSUME MatchDone PROVE Right'
    BY <1>8 DEF MatchDone
  <1>9. ASSUME CheckClosures PROVE Right'
    BY <1>9 DEF CheckClosures
  <1>10. ASSUME NEW k \in Keys, TrimCancel(k) PROVE Right'
    BY <1>10 DEF TrimCancel, Sound, OrdersBooked
  <1>11. ASSUME NEW k \in Keys, TrimClose(k) PROVE Right'
    BY <1>11 DEF TrimClose
  <1>12. ASSUME NEW k \in Keys, TrimSkip(k) PROVE Right'
    BY <1>12 DEF TrimSkip
  <1>13. ASSUME PollDone PROVE Right'
    BY <1>13 DEF PollDone
  <1>14. ASSUME SkipCycle PROVE Right'
    BY <1>14 DEF SkipCycle
  <1>15. ASSUME NEW window \in SUBSET Levels, NEW trimmed \in SUBSET Levels,
            NEW queued \in SUBSET Keys, Generate(window, trimmed, queued)
         PROVE  Right'
    BY <1>15 DEF Generate, HandedOver, Stale, Missing
  <1>16. ASSUME NEW k \in Keys, PlaceRejected(k) PROVE Right'
    BY <1>16 DEF PlaceRejected
  <1>17. ASSUME NEW k \in Keys, NEW n \in Ids, PlaceResting(k, n) PROVE Right'
    BY <1>17 DEF PlaceResting, Unused, Mapped
  <1>18. ASSUME NEW k \in Keys, NEW n \in Ids, PlaceFilled(k, n) PROVE Right'
    <2>1. PICK q \in FilledAtOnce(k) : openPrice' = [openPrice EXCEPT ![n] = q]
      BY <1>18 DEF PlaceFilled
    <2>2. "slip" \notin faults => q \in {Entry(k), k.level}
      BY <2>1, FilledAtEntry
    <2>3. \A m \in Ids : openPrice'[m] = IF m = n THEN q ELSE openPrice[m]
      BY <2>1
    <2>4. QED
      BY <1>18, <2>2, <2>3 DEF PlaceFilled, Unused, Mapped
  <1>19. ASSUME NEW k \in Keys, NEW n \in Ids, PlaceLost(k, n) PROVE Right'
    <2>1. /\ status'[n] # "free" /\ \A m \in Ids \ {n} : status'[m] = status[m]
          /\ \A m \in Ids \ {n} : orderKey'[m] = orderKey[m]
          /\ \A j \in Keys : pendingMap[j] # n /\ tradeMap[j] # n
          /\ orderKey'[n] = k /\ \A m \in Ids \ {n} : openPrice'[m] = openPrice[m]
          /\ "slip" \notin faults => openPrice'[n] \in {Entry(k), k.level}
      BY <1>19, LostOrder
    <2>2. UNCHANGED <<faults, mapVars, openSnap, newTrades, gone>>
      BY <1>19 DEF PlaceLost
    <2>3. "slip" \notin faults /\ AtEntry => AtEntry'
      BY <2>1, <2>2
    <2>4. QED
      BY <2>1, <2>2, <2>3
  <1>20. ASSUME NEW k \in Keys, NEW n \in Ids, NEW m \in Ids, PlaceNetted(k, n, m) PROVE Right'
    BY <1>20 DEF PlaceNetted, Unused, Mapped
  <1>21. ASSUME NEW k \in Keys, PlaceCapped(k) PROVE Right'
    BY <1>21 DEF PlaceCapped
  <1>22. ASSUME CycleAborts PROVE Right'
    BY <1>22 DEF CycleAborts
  <1>23. ASSUME NEW k \in Keys, NEW n \in Ids, SaveTradeFails(k, n) PROVE Right'
    <2>1. PICK q \in FilledAtOnce(k) : openPrice' = [openPrice EXCEPT ![n] = q]
      BY <1>23 DEF SaveTradeFails
    <2>2. "slip" \notin faults => q \in {Entry(k), k.level}
      BY <2>1, FilledAtEntry
    <2>3. \A m \in Ids : openPrice'[m] = IF m = n THEN q ELSE openPrice[m]
      BY <2>1
    <2>4. QED
      BY <1>23, <2>2, <2>3 DEF SaveTradeFails, Unused, Mapped
  <1>24. ASSUME CycleDone PROVE Right'
    BY <1>24 DEF CycleDone
  <1>25. CASE UNCHANGED vars
    BY <1>25 DEF vars, Mapped
  <1>26. QED
    BY NextCases, <1>1, <1>2, <1>3, <1>4, <1>5, <1>6, <1>7, <1>8, <1>9, <1>10, <1>11, <1>12,
       <1>13, <1>14, <1>15, <1>16, <1>17, <1>18, <1>19, <1>20, <1>21, <1>22, <1>23, <1>24,
       <1>25


\* Calls answer, except for closes, and the broker moves between polls only.
Quiet == faults \subseteq {"whipsaw", "expire", "close", "crowded", "netted", "slip"}

\* A key that waits for an order has no trade.  What a poll has not found gone still
\* rests, until the poll is over.
KnownOrders ==
  /\ \A k \in Keys : pendingMap[k] # None =>
       /\ k \notin filled \cup signals
       /\ pc \in {"closures", "trim"} \/ (pc = "match" /\ k \notin gone)
            => status[pendingMap[k]] = "resting"
  /\ \A k \in gone : status[pendingMap[k]] # "resting"

\* What is at the broker is in one of the maps, or is about to be matched.
KnownIds ==
  \A n \in Ids :
    /\ status[n] = "resting" => n \in Mapped(pendingMap)
    /\ status[n] = "open" =>
         \/ n \in Mapped(tradeMap)
         \/ pc = "match" /\ n \in newTrades
         \/ pc \notin {"match", "closures", "trim"} /\ n \in Mapped(pendingMap)

\* A pairing of the trades on offer with gone orders of their sides.
Pairs(f, trades, orders, key) ==
  /\ f \in [trades -> orders]
  /\ \A n \in trades : f[n].side = key[n].side
  /\ \A m, n \in trades : m # n => f[m] # f[n]

\* There are as many gone orders of a side as there are trades to match.
KnownPairs == pc = "match" => \E f : Pairs(f, newTrades, gone, orderKey)

Known == Quiet => KnownOrders /\ KnownIds /\ KnownPairs

\* The nearest trade is one on offer, of the key's side.
LEMMA NearestIsNew ==
  ASSUME NEW k \in Keys, NEW n \in Nearest(k)
  PROVE  n \in newTrades /\ orderKey[n].side = k.side
  BY DEF Nearest

LEMMA KnownOrdersStep ==
  ASSUME TypeOK, Sound, Quiet, KnownOrders, [Next]_vars
  PROVE  KnownOrders'
  <1> USE FillTrackingConstants DEF brokerVars, mapVars, cycleVars, strategyVars, pollVars,
        ReportFill, OnSignalRejected, ReportTradesClosed, TakesOrder, Processing, Unmap
  <1> USE DEF TypeOK, Quiet, KnownOrders
  <1>1. ASSUME NEW n \in Ids, BrokerFill(n) PROVE KnownOrders'
    BY <1>1 DEF BrokerFill, MarketMoves
  <1>2. ASSUME NEW n \in Ids, BrokerStopOut(n) PROVE KnownOrders'
    BY <1>2 DEF BrokerStopOut, MarketMoves
  <1>3. ASSUME NEW n \in Ids, BrokerExpire(n) PROVE KnownOrders'
    BY <1>3 DEF BrokerExpire, MarketMoves
  <1>4. ASSUME PollTrades PROVE KnownOrders'
    BY <1>4 DEF PollTrades
  <1>5. ASSUME FetchPending PROVE KnownOrders'
    BY <1>5 DEF FetchPending, Sound, Snapshots, Mapped
  <1>6. ASSUME NEW k \in Keys, NEW n \in Ids, MatchFill(k, n) PROVE KnownOrders'
    BY <1>6 DEF MatchFill, Nearest
  <1>7. ASSUME NEW k \in Keys, MatchCancelled(k) PROVE KnownOrders'
    BY <1>7 DEF MatchCancelled
  <1>8. ASSUME MatchDone PROVE KnownOrders'
    BY <1>8 DEF MatchDone
  <1>9. ASSUME CheckClosures PROVE KnownOrders'
    BY <1>9 DEF CheckClosures
  <1>10. ASSUME NEW k \in Keys, TrimCancel(k) PROVE KnownOrders'
    BY <1>10 DEF TrimCancel, Sound, OrdersBooked
  <1>11. ASSUME NEW k \in Keys, TrimClose(k) PROVE KnownOrders'
    BY <1>11 DEF TrimClose
  <1>12. ASSUME NEW k \in Keys, TrimSkip(k) PROVE KnownOrders'
    BY <1>12 DEF TrimSkip
  <1>13. ASSUME PollDone PROVE KnownOrders'
    BY <1>13 DEF PollDone
  <1>14. ASSUME SkipCycle PROVE KnownOrders'
    BY <1>14 DEF SkipCycle
  <1>15. ASSUME NEW window \in SUBSET Levels, NEW trimmed \in SUBSET Levels,
            NEW queued \in SUBSET Keys, Generate(window, trimmed, queued)
         PROVE  KnownOrders'
    BY <1>15 DEF Generate, Sound, HandedOnce, OrdersBooked, HandedKeys, Missing
  <1>16. ASSUME NEW k \in Keys, PlaceRejected(k) PROVE KnownOrders'
    BY <1>16 DEF PlaceRejected
  <1>17. ASSUME NEW k \in Keys, NEW n \in Ids, PlaceResting(k, n) PROVE KnownOrders'
    BY <1>17 DEF PlaceResting, Unused, Mapped, Sound, SignalsBooked, OrdersBooked
  <1>18. ASSUME NEW k \in Keys, NEW n \in Ids, PlaceFilled(k, n) PROVE KnownOrders'
    BY <1>18 DEF PlaceFilled, Unused, Mapped, Sound, OrdersBooked
  <1>19. ASSUME NEW k \in Keys, NEW n \in Ids, PlaceLost(k, n) PROVE KnownOrders'
    BY <1>19 DEF PlaceLost, Unused, Mapped
  <1>20. ASSUME NEW k \in Keys, NEW n \in Ids, NEW m \in Ids, PlaceNetted(k, n, m)
         PROVE KnownOrders'
    BY <1>20 DEF PlaceNetted, Unused, Mapped
  <1>21. ASSUME NEW k \in Keys, PlaceCapped(k) PROVE KnownOrders'
    BY <1>21 DEF PlaceCapped
  <1>22. ASSUME CycleAborts PROVE KnownOrders'
    BY <1>22 DEF CycleAborts
  <1>23. ASSUME NEW k \in Keys, NEW n \in Ids, SaveTradeFails(k, n) PROVE KnownOrders'
    BY <1>23 DEF SaveTradeFails, Unused, Mapped
  <1>24. ASSUME CycleDone PROVE KnownOrders'
    BY <1>24 DEF CycleDone
  <1>25. CASE UNCHANGED vars
    BY <1>25 DEF vars, Mapped
  <1>26. QED
    BY NextCases, <1>1, <1>2, <1>3, <1>4, <1>5, <1>6, <1>7, <1>8, <1>9, <1>10, <1>11, <1>12,
       <1>13, <1>14, <1>15, <1>16, <1>17, <1>18, <1>19, <1>20, <1>21, <1>22, <1>23, <1>24,
       <1>25


LEMMA KnownIdsStep ==
  ASSUME TypeOK, Sound, Quiet, KnownOrders, KnownIds, KnownPairs, [Next]_vars
  PROVE  KnownIds'
  <1> USE FillTrackingConstants DEF brokerVars, mapVars, cycleVars, strategyVars, pollVars,
        ReportFill, OnSignalRejected, ReportTradesClosed, TakesOrder, Processing, Unmap
  <1> USE DEF TypeOK, Quiet, KnownIds, Mapped
  <1>1. ASSUME NEW n \in Ids, BrokerFill(n) PROVE KnownIds'
    BY <1>1 DEF BrokerFill, MarketMoves
  <1>2. ASSUME NEW n \in Ids, BrokerStopOut(n) PROVE KnownIds'
    BY <1>2 DEF BrokerStopOut, MarketMoves
  <1>3. ASSUME NEW n \in Ids, BrokerExpire(n) PROVE KnownIds'
    BY <1>3 DEF BrokerExpire, MarketMoves
  <1>4. ASSUME PollTrades PROVE KnownIds'
    BY <1>4 DEF PollTrades
  <1>5. ASSUME FetchPending PROVE KnownIds'
    BY <1>5 DEF FetchPending, Sound, Snapshots
  <1>6. ASSUME NEW k \in Keys, NEW n \in Ids, MatchFill(k, n) PROVE KnownIds'
    <2>1. tradeMap[k] = None /\ status[pendingMap[k]] # "resting" /\ n \in Ids
      BY <1>6 DEF MatchFill, KnownOrders, Sound, TradesBooked, Snapshots
    <2>2. QED
      BY <1>6, <2>1 DEF MatchFill
  <1>7. ASSUME NEW k \in Keys, MatchCancelled(k) PROVE KnownIds'
    BY <1>7 DEF MatchCancelled, KnownOrders
  <1>8. ASSUME MatchDone PROVE KnownIds'
    BY <1>8 DEF MatchDone, KnownPairs, Pairs
  <1>9. ASSUME CheckClosures PROVE KnownIds'
    BY <1>9 DEF CheckClosures, Sound, Snapshots
  <1>10. ASSUME NEW k \in Keys, TrimCancel(k) PROVE KnownIds'
    BY <1>10 DEF TrimCancel, KnownOrders, Sound, OrdersBooked
  <1>11. ASSUME NEW k \in Keys, TrimClose(k) PROVE KnownIds'
    BY <1>11 DEF TrimClose
  <1>12. ASSUME NEW k \in Keys, TrimSkip(k) PROVE KnownIds'
    BY <1>12 DEF TrimSkip
  <1>13. ASSUME PollDone PROVE KnownIds'
    BY <1>13 DEF PollDone
  <1>14. ASSUME SkipCycle PROVE KnownIds'
    BY <1>14 DEF SkipCycle
  <1>15. ASSUME NEW window \in SUBSET Levels, NEW trimmed \in SUBSET Levels,
            NEW queued \in SUBSET Keys, Generate(window, trimmed, queued)
         PROVE  KnownIds'
    BY <1>15 DEF Generate, HandedOver, Stale, Missing
  <1>16. ASSUME NEW k \in Keys, PlaceRejected(k) PROVE KnownIds'
    BY <1>16 DEF PlaceRejected
  <1>17. ASSUME NEW k \in Keys, NEW n \in Ids, PlaceResting(k, n) PROVE KnownIds'
    BY <1>17 DEF PlaceResting, Unused, KnownOrders
  <1>18. ASSUME NEW k \in Keys, NEW n \in Ids, PlaceFilled(k, n) PROVE KnownIds'
    BY <1>18 DEF PlaceFilled, Unused, Sound, TradesBooked, SignalsBooked
  <1>19. ASSUME NEW k \in Keys, NEW n \in Ids, PlaceLost(k, n) PROVE KnownIds'
    BY <1>19 DEF PlaceLost, Unused, Mapped
  <1>20. ASSUME NEW k \in Keys, NEW n \in Ids, NEW m \in Ids, PlaceNetted(k, n, m) PROVE KnownIds'
    BY <1>20 DEF PlaceNetted, Unused, Sound, TradesBooked, SignalsBooked
  <1>21. ASSUME NEW k \in Keys, PlaceCapped(k) PROVE KnownIds'
    BY <1>21 DEF PlaceCapped
  <1>22. ASSUME CycleAborts PROVE KnownIds'
    BY <1>22 DEF CycleAborts
  <1>23. ASSUME NEW k \in Keys, NEW n \in Ids, SaveTradeFails(k, n) PROVE KnownIds'
    BY <1>23 DEF SaveTradeFails, Unused, Mapped
  <1>24. ASSUME CycleDone PROVE KnownIds'
    BY <1>24 DEF CycleDone
  <1>25. CASE UNCHANGED vars
    BY <1>25 DEF vars, Mapped
  <1>26. QED
    BY NextCases, <1>1, <1>2, <1>3, <1>4, <1>5, <1>6, <1>7, <1>8, <1>9, <1>10, <1>11, <1>12,
       <1>13, <1>14, <1>15, <1>16, <1>17, <1>18, <1>19, <1>20, <1>21, <1>22, <1>23, <1>24,
       <1>25


LEMMA KnownPairsStep ==
  ASSUME TypeOK, Sound, Quiet, KnownIds, KnownPairs, [Next]_vars
  PROVE  KnownPairs'
  <1> USE FillTrackingConstants DEF brokerVars, mapVars, cycleVars, strategyVars, pollVars,
        ReportFill, OnSignalRejected, ReportTradesClosed, TakesOrder, Processing, Unmap
  <1> USE DEF TypeOK, Quiet, KnownPairs
  <1>1. ASSUME NEW n \in Ids, BrokerFill(n) PROVE KnownPairs'
    BY <1>1 DEF BrokerFill, MarketMoves
  <1>2. ASSUME NEW n \in Ids, BrokerStopOut(n) PROVE KnownPairs'
    BY <1>2 DEF BrokerStopOut, MarketMoves
  <1>3. ASSUME NEW n \in Ids, BrokerExpire(n) PROVE KnownPairs'
    BY <1>3 DEF BrokerExpire, MarketMoves
  <1>4. ASSUME PollTrades PROVE KnownPairs'
    BY <1>4 DEF PollTrades
  <1>5. ASSUME FetchPending PROVE KnownPairs'
    <2> SUFFICES ASSUME pc' = "match" PROVE \E f : Pairs(f, newTrades', gone', orderKey')
      BY DEF KnownPairs
    <2> DEFINE f == [n \in newTrades' |-> CHOOSE k \in Keys : pendingMap[k] = n]
    <2>1. \A n \in newTrades' : n \in Mapped(pendingMap) /\ status[n] # "resting"
      BY <1>5 DEF FetchPending, TypeOK, KnownIds, Sound, Snapshots
    <2>2. \A n \in newTrades' : f[n] \in Keys /\ pendingMap[f[n]] = n /\ n # None
      BY <2>1 DEF Mapped
    <2>3. \A n \in newTrades' : f[n] \in gone' /\ orderKey'[n] = f[n]
      <3> HIDE DEF f
      <3>1. QED
        BY <1>5, <2>1, <2>2 DEF FetchPending, Sound, OrdersBooked
    <2>4. f \in [newTrades' -> gone']
      BY <2>3
    <2>5. Pairs(f, newTrades', gone', orderKey')
      <3> HIDE DEF f
      <3>1. QED
        BY <2>2, <2>3, <2>4 DEF Pairs
    <2>6. QED
      BY <2>5
  <1>6. ASSUME NEW k \in Keys, NEW n \in Ids, MatchFill(k, n) PROVE KnownPairs'
    <2>1. PICK f : Pairs(f, newTrades, gone, orderKey)
      BY <1>6 DEF MatchFill, KnownPairs
    <2> DEFINE g == [m \in newTrades \ {n} |-> IF f[m] = k THEN f[n] ELSE f[m]]
    <2>2. n \in newTrades /\ orderKey[n].side = k.side
      BY <1>6, NearestIsNew DEF MatchFill
    <2>3. g \in [newTrades \ {n} -> gone \ {k}]
      BY <2>1, <2>2 DEF Pairs
    <2>4. \A m \in newTrades \ {n} : g[m].side = orderKey[m].side
      BY <2>1, <2>2 DEF Pairs
    <2>5. \A m, o \in newTrades \ {n} : m # o => g[m] # g[o]
      BY <2>1, <2>2 DEF Pairs
    <2>6. Pairs(g, newTrades', gone', orderKey')
      <3> HIDE DEF g
      <3>1. QED
        BY <1>6, <2>3, <2>4, <2>5 DEF Pairs, MatchFill
    <2>7. QED
      BY <2>6 DEF KnownPairs
  <1>7. ASSUME NEW k \in Keys, MatchCancelled(k) PROVE KnownPairs'
    <2>1. PICK f : Pairs(f, newTrades, gone, orderKey)
      BY <1>7 DEF MatchCancelled, KnownPairs
    <2>2. \A n \in newTrades : orderKey[n].side # k.side
      BY <1>7, NearestExists DEF MatchCancelled
    <2>3. f \in [newTrades -> gone \ {k}]
      BY <2>1, <2>2 DEF Pairs
    <2>4. Pairs(f, newTrades', gone', orderKey')
      BY <1>7, <2>1, <2>3 DEF Pairs, MatchCancelled
    <2>5. QED
      BY <2>4 DEF KnownPairs
  <1>8. ASSUME MatchDone PROVE KnownPairs'
    BY <1>8 DEF MatchDone
  <1>9. ASSUME CheckClosures PROVE KnownPairs'
    BY <1>9 DEF CheckClosures
  <1>10. ASSUME NEW k \in Keys, TrimCancel(k) PROVE KnownPairs'
    BY <1>10 DEF TrimCancel
  <1>11. ASSUME NEW k \in Keys, TrimClose(k) PROVE KnownPairs'
    BY <1>11 DEF TrimClose
  <1>12. ASSUME NEW k \in Keys, TrimSkip(k) PROVE KnownPairs'
    BY <1>12 DEF TrimSkip
  <1>13. ASSUME PollDone PROVE KnownPairs'
    BY <1>13 DEF PollDone
  <1>14. ASSUME SkipCycle PROVE KnownPairs'
    BY <1>14 DEF SkipCycle
  <1>15. ASSUME NEW window \in SUBSET Levels, NEW trimmed \in SUBSET Levels,
            NEW queued \in SUBSET Keys, Generate(window, trimmed, queued)
         PROVE  KnownPairs'
    BY <1>15 DEF Generate, HandedOver, Stale, Missing
  <1>16. ASSUME NEW k \in Keys, PlaceRejected(k) PROVE KnownPairs'
    BY <1>16 DEF PlaceRejected
  <1>17. ASSUME NEW k \in Keys, NEW n \in Ids, PlaceResting(k, n) PROVE KnownPairs'
    BY <1>17 DEF PlaceResting, Unused, Mapped
  <1>18. ASSUME NEW k \in Keys, NEW n \in Ids, PlaceFilled(k, n) PROVE KnownPairs'
    BY <1>18 DEF PlaceFilled, Unused, Mapped
  <1>19. ASSUME NEW k \in Keys, NEW n \in Ids, PlaceLost(k, n) PROVE KnownPairs'
    BY <1>19 DEF PlaceLost, Unused, Mapped
  <1>20. ASSUME NEW k \in Keys, NEW n \in Ids, NEW m \in Ids, PlaceNetted(k, n, m) PROVE KnownPairs'
    BY <1>20 DEF PlaceNetted, Unused, Mapped
  <1>21. ASSUME NEW k \in Keys, PlaceCapped(k) PROVE KnownPairs'
    BY <1>21 DEF PlaceCapped
  <1>22. ASSUME CycleAborts PROVE KnownPairs'
    BY <1>22 DEF CycleAborts
  <1>23. ASSUME NEW k \in Keys, NEW n \in Ids, SaveTradeFails(k, n) PROVE KnownPairs'
    BY <1>23 DEF SaveTradeFails, Unused, Mapped
  <1>24. ASSUME CycleDone PROVE KnownPairs'
    BY <1>24 DEF CycleDone
  <1>25. CASE UNCHANGED vars
    BY <1>25 DEF vars, Mapped
  <1>26. QED
    BY NextCases, <1>1, <1>2, <1>3, <1>4, <1>5, <1>6, <1>7, <1>8, <1>9, <1>10, <1>11, <1>12,
       <1>13, <1>14, <1>15, <1>16, <1>17, <1>18, <1>19, <1>20, <1>21, <1>22, <1>23, <1>24,
       <1>25


\* What is at the broker is in one of the maps, at every moment.
Tracked == \A n \in Ids : status[n] # "free" => n \in Mapped(pendingMap) \cup Mapped(tradeMap)

\* Only closes fail, and no trade ends unseen.
Calm == faults \subseteq {"close", "crowded"}

Single == Separated /\ Calm => Tracked

LEMMA TrackedStep ==
  ASSUME TypeOK, OnOffer, Sound, Separated, Calm, Right, KnownOrders, Tracked, [Next]_vars
  PROVE  Tracked'
  <1> USE FillTrackingConstants DEF brokerVars, mapVars, cycleVars, strategyVars, pollVars,
        ReportFill, OnSignalRejected, ReportTradesClosed, TakesOrder, Processing, Unmap
  <1> USE DEF TypeOK, Calm, Tracked, Mapped
  <1>1. ASSUME NEW n \in Ids, BrokerFill(n) PROVE Tracked'
    BY <1>1 DEF BrokerFill, MarketMoves
  <1>2. ASSUME NEW n \in Ids, BrokerStopOut(n) PROVE Tracked'
    BY <1>2 DEF BrokerStopOut, MarketMoves
  <1>3. ASSUME NEW n \in Ids, BrokerExpire(n) PROVE Tracked'
    BY <1>3 DEF BrokerExpire, MarketMoves
  <1>4. ASSUME PollTrades PROVE Tracked'
    BY <1>4 DEF PollTrades
  <1>5. ASSUME FetchPending PROVE Tracked'
    BY <1>5 DEF FetchPending, Mapped
  <1>6. ASSUME NEW k \in Keys, NEW n \in Ids, MatchFill(k, n) PROVE Tracked'
    <2>1. pendingMap[k] \in newTrades /\ orderKey[pendingMap[k]] = k
      BY <1>6 DEF MatchFill, Right, Sound, OrdersBooked, Snapshots
    <2>2. orderKey[n] = k /\ n \in newTrades /\ status[n] # "resting"
      <3>1. AtEntry
        BY DEF Right
      <3>2. n \in Nearest(k) /\ n \in newTrades
        BY <1>6, NearestIsNew DEF MatchFill
      <3>3. orderKey[n] = k
        BY <2>1, <3>1, <3>2, NearestIsOwn
      <3>4. QED
        BY <3>2, <3>3 DEF Sound, Snapshots
    <2>3. tradeMap[k] = None
      BY <1>6 DEF MatchFill, KnownOrders, Sound, TradesBooked, Snapshots
    <2>4. n = pendingMap[k]
      <3>1. status[n] = "open" /\ n \notin Mapped(tradeMap)
        BY <1>6, <2>2 DEF MatchFill, Sound, Snapshots, OnOffer
      <3>2. n \in Mapped(pendingMap)
        BY <2>2, <3>1
      <3>3. QED
        BY <2>2, <3>2 DEF Sound, OrdersBooked
    <2>5. QED
      BY <1>6, <2>2, <2>3, <2>4 DEF MatchFill
  <1>7. ASSUME NEW k \in Keys, MatchCancelled(k) PROVE Tracked'
    <2>1. pendingMap[k] \in newTrades /\ orderKey[pendingMap[k]] = k
      BY <1>7 DEF MatchCancelled, Right, Sound, OrdersBooked, Snapshots
    <2>2. QED
      BY <1>7, <2>1, NearestExists DEF MatchCancelled
  <1>8. ASSUME MatchDone PROVE Tracked'
    BY <1>8 DEF MatchDone
  <1>9. ASSUME CheckClosures PROVE Tracked'
    BY <1>9 DEF CheckClosures, Sound, Snapshots, TradesBooked
  <1>10. ASSUME NEW k \in Keys, TrimCancel(k) PROVE Tracked'
    BY <1>10 DEF TrimCancel, KnownOrders
  <1>11. ASSUME NEW k \in Keys, TrimClose(k) PROVE Tracked'
    BY <1>11 DEF TrimClose
  <1>12. ASSUME NEW k \in Keys, TrimSkip(k) PROVE Tracked'
    BY <1>12 DEF TrimSkip
  <1>13. ASSUME PollDone PROVE Tracked'
    BY <1>13 DEF PollDone
  <1>14. ASSUME SkipCycle PROVE Tracked'
    BY <1>14 DEF SkipCycle
  <1>15. ASSUME NEW window \in SUBSET Levels, NEW trimmed \in SUBSET Levels,
            NEW queued \in SUBSET Keys, Generate(window, trimmed, queued)
         PROVE  Tracked'
    BY <1>15 DEF Generate, HandedOver, Stale, Missing
  <1>16. ASSUME NEW k \in Keys, PlaceRejected(k) PROVE Tracked'
    BY <1>16 DEF PlaceRejected
  <1>17. ASSUME NEW k \in Keys, NEW n \in Ids, PlaceResting(k, n) PROVE Tracked'
    BY <1>17 DEF PlaceResting, Unused, KnownOrders
  <1>18. ASSUME NEW k \in Keys, NEW n \in Ids, PlaceFilled(k, n) PROVE Tracked'
    BY <1>18 DEF PlaceFilled, Unused, Sound, TradesBooked, SignalsBooked
  <1>19. ASSUME NEW k \in Keys, NEW n \in Ids, PlaceLost(k, n) PROVE Tracked'
    BY <1>19 DEF PlaceLost
  <1>20. ASSUME NEW k \in Keys, NEW n \in Ids, NEW m \in Ids, PlaceNetted(k, n, m) PROVE Tracked'
    BY <1>20 DEF PlaceNetted
  <1>21. ASSUME NEW k \in Keys, PlaceCapped(k) PROVE Tracked'
    BY <1>21 DEF PlaceCapped
  <1>22. ASSUME CycleAborts PROVE Tracked'
    BY <1>22 DEF CycleAborts
  <1>23. ASSUME NEW k \in Keys, NEW n \in Ids, SaveTradeFails(k, n) PROVE Tracked'
    BY <1>23 DEF SaveTradeFails
  <1>24. ASSUME CycleDone PROVE Tracked'
    BY <1>24 DEF CycleDone
  <1>25. CASE UNCHANGED vars
    BY <1>25 DEF vars, Mapped
  <1>26. QED
    BY NextCases, <1>1, <1>2, <1>3, <1>4, <1>5, <1>6, <1>7, <1>8, <1>9, <1>10, <1>11, <1>12,
       <1>13, <1>14, <1>15, <1>16, <1>17, <1>18, <1>19, <1>20, <1>21, <1>22, <1>23, <1>24,
       <1>25


LEMMA FaultsStay ==
  ASSUME [Next]_vars
  PROVE  faults' = faults
  BY NextCases DEF vars, BrokerFill, BrokerStopOut, BrokerExpire, PollTrades, FetchPending,
     MatchFill, MatchCancelled, MatchDone, CheckClosures, TrimCancel, TrimClose, TrimSkip,
     PollDone, SkipCycle, Generate, PlaceRejected, PlaceResting, PlaceFilled, PlaceLost,
     PlaceNetted, PlaceCapped, CycleAborts, SaveTradeFails, CycleDone

\* All that holds of a poll, a cycle and the books between their steps.
Tracking == TypeOK /\ OnOffer /\ BooksAgree /\ Sound /\ Trimming /\ Right /\ Known /\ Single

LEMMA TrackingInit == Init => Tracking
  <1> SUFFICES ASSUME Init PROVE Tracking
    OBVIOUS
  <1>1. TypeOK /\ OnOffer /\ BooksAgree
    BY TypeInit, BooksInit
  <1>2. Sound /\ Trimming
    BY FillTrackingConstants DEF Init, Sound, OrdersBooked, SignalsBooked, TradesBooked, Snapshots,
       HandedOnce, Trimming
  <1>3. Right /\ KnownOrders /\ KnownPairs
    BY FillTrackingConstants DEF Init, Right, AtEntry, KnownOrders, KnownPairs
  <1>4. KnownIds /\ Tracked
    BY DEF Init, KnownIds, Tracked
  <1>5. QED
    BY <1>1, <1>2, <1>3, <1>4 DEF Tracking, Known, Single

LEMMA TrackingStep ==
  ASSUME Tracking, [Next]_vars
  PROVE  Tracking'
  <1>1. TypeOK' /\ (OnOffer /\ BooksAgree)'
    BY TypeStep, BooksStep DEF Tracking, IInv
  <1>2. Sound' /\ Trimming' /\ Right'
    BY SoundStep, TrimmingStep, RightStep DEF Tracking
  <1>3. Known'
    <2>1. Quiet' => KnownOrders' /\ KnownIds' /\ KnownPairs'
      BY FaultsStay, KnownOrdersStep, KnownIdsStep, KnownPairsStep DEF Tracking, Known, Quiet
    <2>2. QED
      BY <2>1 DEF Known
  <1>4. Single'
    <2>1. Calm' => Calm /\ Quiet
      BY FaultsStay DEF Calm, Quiet
    <2>2. Separated /\ Calm' => Tracked'
      BY <2>1, TrackedStep DEF Tracking, Single, Known
    <2>3. QED
      BY <2>2 DEF Single
  <1>5. QED
    BY <1>1, <1>2, <1>3, <1>4 DEF Tracking

LEMMA TrackingCorrect == Spec => []Tracking
  BY TrackingInit, TrackingStep, PTL DEF Spec

\* What _check_limit_fills takes for the fill of an order is that order's fill, whatever
\* number of levels, sides and orders there are.  Calls may fail, with and without effect,
\* as long as the broker does not move within a poll, nothing ends unseen, fills are made
\* at the entries, and a buy is entered within half the spacing of the levels.
THEOREM RightKeyCorrect == Spec => []RightKey
  <1>1. Tracking => RightKey
    BY DEF Tracking, Right, RightKey
  <1>2. QED
    BY <1>1, TrackingCorrect, PTL

\* Between polls the engine knows every order and trade at the broker, although trades are
\* stopped out, orders expire and fills net each other before it sees them: the poll finds
\* a gone order of the right side for each trade it did not know.
THEOREM KeepsTrackCorrect == Spec => []KeepsTrack
  <1>1. Tracking => KeepsTrack
    BY DEF Tracking, Known, Quiet, KnownIds, KeepsTrack, NothingUntracked, TypeOK
  <1>2. QED
    BY <1>1, TrackingCorrect, PTL

\* No key holds two of the broker's orders and trades, as long as all that fails are closes,
\* and each fill is nearer to its own level than to any other of its side.
THEOREM ExposureCorrect == Spec => []NoDoubleExposure
  <1>1. ASSUME Tracking, Separated, Calm PROVE \A m, n \in Ids :
          m # n /\ status[m] # "free" /\ status[n] # "free" => orderKey[m] # orderKey[n]
    <2>1. \A n \in Ids : status[n] # "free" =>
            /\ orderKey[n] \in Keys
            /\ pendingMap[orderKey[n]] = n \/ tradeMap[orderKey[n]] = n
      BY <1>1 DEF Tracking, Single, Tracked, Mapped, Sound, Snapshots, OrdersBooked, Right, Calm,
         TypeOK
    <2>2. \A k \in Keys : pendingMap[k] = None \/ tradeMap[k] = None
      BY <1>1 DEF Tracking, Known, Quiet, Calm, KnownOrders, Sound, TradesBooked
    <2>3. QED
      BY <2>1, <2>2, FillTrackingConstants
  <1>2. Tracking => NoDoubleExposure
    BY <1>1 DEF NoDoubleExposure, Calm
  <1>3. QED
    BY <1>2, TrackingCorrect, PTL

\* A trade of a trimmed level is going to be closed, unless the close itself is refused.
THEOREM TrimmedCorrect == Spec => []TrimmedIsClosed
  <1>1. Tracking => TrimmedIsClosed
    BY DEF Tracking, Trimming, HandedKeys, TrimmedIsClosed, TypeOK
  <1>2. QED
    BY <1>1, TrackingCorrect, PTL

LEMMA BackedInit == Init => Backed
  BY DEF Init, Backed

\* A side that the strategy takes for placed has an order, as long as no cycle and no poll
\* is cut short and the cap on open trades is not reached.
THEOREM PlacedCorrect == Spec /\ []~capped => []PlacedIsBacked
  <1>1. Tracking /\ Backed => PlacedIsBacked
    BY DEF Tracking, Backed, HandedKeys, PlacedIsBacked, TypeOK
  <1>2. Tracking /\ Backed /\ ~capped /\ [Next]_vars => Backed'
    BY BackedStep DEF Tracking
  <1>3. QED
    BY <1>1, <1>2, BackedInit, TrackingCorrect, PTL DEF Spec
=============================================================================
