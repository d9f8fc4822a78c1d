-------------------------- MODULE SessionPnl_proof --------------------------
(***************************************************************************)
(* For any limits, any amounts and any number of days: which money ends a  *)
(* session, what is recorded of it, and when a new one may be opened.      *)
(***************************************************************************)
EXTENDS SessionPnl, TLAPS

\* A grid with orders or trades, or the liquidation that is to remove them.
Live == anchored /\ (active \/ closing)

\* Where the flags can be in each place of the cycle, and what is known there.
Shape ==
  /\ closing => anchored
  /\ pc \in {"liquidate", "settle"} => closing
  /\ pc \in {"drain", "process"} => Live
  /\ pc = "drain" => active /\ ~closing /\ gridLogged /\ got \in {"entry", "open"}
  /\ pc = "log" /\ got \in {"entry", "open"} => anchored /\ active /\ ~closing
  /\ got = "flat" => closing
  /\ pc \in {"idle", "generate"} => got = "none"
  /\ ~Live \/ pc = "settle" => ~open
  /\ ~open => floating = 0
  /\ pc \in {"generate", "log", "drain"} => lastBalance = balance
  /\ pc = "generate" => unreal = floating

\* A day on which the limit was hit stays paused on its bars.
Halted ==
  /\ haltDay <= barDay /\ barDay <= wallDay /\ strategyDay <= barDay
  /\ haltDay = barDay => strategyDay = barDay /\ ~active

\* Bars and clock in step: both day boundaries fall into the same cycle.
DaysInStep ==
  "lag" \notin faults =>
    /\ barDay = wallDay
    /\ pc = "generate" => balanceDay = barDay /\ dailyReal = lastBalance - dayStart
    /\ pc = "generate" /\ strategyDay # barDay => dayStart = lastBalance
    /\ pc # "generate" => strategyDay = balanceDay
    /\ pc \notin {"idle", "generate"} => strategyDay = barDay

\* Every session has been recorded against the balance of the record before it.
Banked ==
  "read" \notin faults =>
    /\ sessionStart = bankedAt
    /\ ~gridLogged => ~open /\ balance = bankedAt /\ pc \in {"idle", "generate", "log"}
    /\ ~gridLogged /\ pc \in {"idle", "generate"} => ~Live

\* A session's baseline is the balance its grid was opened with.
Clean == faults \cap {"none", "read"} = {}
Baseline ==
  Clean =>
    /\ Live => sessionStart = openedAt
    /\ ~Live => sessionStart = balance
    /\ Live /\ ~(pc = "log" /\ got = "open") /\ pc \notin {"drain", "process", "settle"} => open
    /\ pc = "generate" => sessionReal = lastBalance - sessionStart
    /\ pc = "drain" \/ (pc = "log" /\ got \in {"entry", "open"}) => sessionReal = lastBalance - openedAt

LEMMA NextCases ==
  ASSUME Next
  PROVE  \/ \E d \in {-1, 1} : PriceMoves(d)
         \/ \E d \in {-1, 1} : StopOut(d)
         \/ OrderFills
         \/ Midnight
         \/ NewBar
         \/ ReadSummary
         \/ ReEmitFlat
         \/ StayPaused
         \/ DailyHalt
         \/ SessionExit
         \/ OpenSession
         \/ Maintain
         \/ LogGrid
         \/ Process
         \/ AttemptFails
         \/ NothingToClose
         \/ \E d \in -1 .. 1 : CloseTrades(d)
         \/ Settle
         \/ SettleBlind
  BY DEF Next, Market, Cycle, Liquidate

-----------------------------------------------------------------------------
LEMMA Zero == 0 \in Money /\ 0 \in Gap /\ 0 \in Day
  BY SessionPnlConstants DEF Money, Gap, Day

LEMMA Difference ==
  ASSUME NEW a \in Money, NEW b \in Money
  PROVE  a - b \in Gap
  BY SessionPnlConstants DEF Money, Gap

LEMMA TypeInit == Init => TypeOK
  BY Zero DEF Init, TypeOK

LEMMA NotifyTypes ==
  ASSUME TypeOK, Notify
  PROVE  /\ closing' \in BOOLEAN /\ anchored' \in BOOLEAN /\ active' \in BOOLEAN
         /\ sessionReal' \in Gap /\ dailyReal' \in Gap /\ unreal' \in Money
         /\ pc' = "idle" /\ got' = "none" /\ strategyDay' \in Day
         /\ openedAt' \in Money /\ haltDay' \in Day \cup {-1}
  BY Zero DEF Notify, TypeOK

LEMMA TypeStep ==
  ASSUME TypeOK, [Next]_vars
  PROVE  TypeOK'
  <1> USE SessionPnlConstants DEF accountVars, clockVars, baselineVars, flagVars, pnlVars, ghostVars,
        Moving, RollOver, Restarts, NewDay, gridUp, Trading, Returns
  <1>1. ASSUME NEW d \in {-1, 1}, PriceMoves(d) PROVE TypeOK'
    BY <1>1 DEF PriceMoves, TypeOK, Money, Gap, Day
  <1>2. ASSUME NEW d \in {-1, 1}, StopOut(d) PROVE TypeOK'
    BY <1>2 DEF StopOut, TypeOK, Money, Gap, Day
  <1>3. ASSUME OrderFills PROVE TypeOK'
    BY <1>3 DEF OrderFills, TypeOK, Money, Gap, Day
  <1>4. ASSUME Midnight PROVE TypeOK'
    BY <1>4 DEF Midnight, TypeOK, Money, Gap, Day
  <1>5. ASSUME NewBar PROVE TypeOK'
    BY <1>5 DEF NewBar, TypeOK, Money, Gap, Day
  <1>6. ASSUME ReadSummary PROVE TypeOK'
    BY <1>6 DEF ReadSummary, TypeOK, Money, Gap, Day
  <1>7. ASSUME ReEmitFlat PROVE TypeOK'
    BY <1>7 DEF ReEmitFlat, TypeOK, Money, Gap, Day
  <1>8. ASSUME StayPaused PROVE TypeOK'
    BY <1>8 DEF StayPaused, TypeOK, Money, Gap, Day
  <1>9. ASSUME DailyHalt PROVE TypeOK'
    BY <1>9, Zero DEF DailyHalt, TypeOK
  <1>10. ASSUME SessionExit PROVE TypeOK'
    BY <1>10 DEF SessionExit, TypeOK, Money, Gap, Day
  <1>11. ASSUME OpenSession PROVE TypeOK'
    BY <1>11 DEF OpenSession, TypeOK, Money, Gap, Day
  <1>12. ASSUME Maintain PROVE TypeOK'
    BY <1>12 DEF Maintain, TypeOK, Money, Gap, Day
  <1>13. ASSUME LogGrid PROVE TypeOK'
    BY <1>13 DEF LogGrid, TypeOK, Money, Gap, Day
  <1>14. ASSUME Process PROVE TypeOK'
    BY <1>14 DEF Process, TypeOK, Money, Gap, Day
  <1>15. ASSUME AttemptFails PROVE TypeOK'
    BY <1>15 DEF AttemptFails, TypeOK, Money, Gap, Day
  <1>16. ASSUME NothingToClose PROVE TypeOK'
    BY <1>16, NotifyTypes DEF NothingToClose, TypeOK
  <1>17. ASSUME NEW d \in -1 .. 1, CloseTrades(d) PROVE TypeOK'
    BY <1>17, Zero DEF CloseTrades, TypeOK
  <1>18. ASSUME Settle PROVE TypeOK'
    BY <1>18, NotifyTypes, Difference DEF Settle, TypeOK
  <1>19. ASSUME SettleBlind PROVE TypeOK'
    BY <1>19, NotifyTypes DEF SettleBlind, TypeOK
  <1>20. CASE UNCHANGED vars
    BY <1>20 DEF vars, TypeOK, Money, Gap, Day
  <1>21. QED
    BY NextCases, <1>1, <1>2, <1>3, <1>4, <1>5, <1>6, <1>7, <1>8, <1>9, <1>10, <1>11, <1>12,
       <1>13, <1>14, <1>15, <1>16, <1>17, <1>18, <1>19, <1>20

\* Balances stay in their bounds, figures pushed in twice as much.
THEOREM TypeCorrect == Spec => []TypeOK
  <1>1. QED
    BY TypeInit, TypeStep, PTL DEF Spec

-----------------------------------------------------------------------------
LEMMA ShapeStep ==
  ASSUME TypeOK, Shape, [Next]_vars
  PROVE  Shape'
  <1> USE SessionPnlConstants DEF accountVars, clockVars, baselineVars, flagVars, pnlVars, ghostVars,
        Moving, RollOver, Restarts, NewDay, gridUp, Trading, Returns, Notify
  <1>1. ASSUME NEW d \in {-1, 1}, PriceMoves(d) PROVE Shape'
    BY <1>1 DEF PriceMoves, TypeOK, Money, Gap, Day, Shape, Live
  <1>2. ASSUME NEW d \in {-1, 1}, StopOut(d) PROVE Shape'
    BY <1>2 DEF StopOut, TypeOK, Money, Gap, Day, Shape, Live
  <1>3. ASSUME OrderFills PROVE Shape'
    BY <1>3 DEF OrderFills, TypeOK, Money, Gap, Day, Shape, Live
  <1>4. ASSUME Midnight PROVE Shape'
    BY <1>4 DEF Midnight, TypeOK, Money, Gap, Day, Shape, Live
  <1>5. ASSUME NewBar PROVE Shape'
    BY <1>5 DEF NewBar, TypeOK, Money, Gap, Day, Shape, Live
  <1>6. ASSUME ReadSummary PROVE Shape'
    BY <1>6 DEF ReadSummary, TypeOK, Money, Gap, Day, Shape, Live
  <1>7. ASSUME ReEmitFlat PROVE Shape'
    BY <1>7 DEF ReEmitFlat, TypeOK, Money, Gap, Day, Shape, Live
  <1>8. ASSUME StayPaused PROVE Shape'
    BY <1>8 DEF StayPaused, TypeOK, Money, Gap, Day, Shape, Live
  <1>9. ASSUME DailyHalt PROVE Shape'
    BY <1>9 DEF DailyHalt, TypeOK, Money, Gap, Day, Shape, Live
  <1>10. ASSUME SessionExit PROVE Shape'
    BY <1>10 DEF SessionExit, TypeOK, Money, Gap, Day, Shape, Live
  <1>11. ASSUME OpenSession PROVE Shape'
    BY <1>11 DEF OpenSession, TypeOK, Money, Gap, Day, Shape, Live
  <1>12. ASSUME Maintain PROVE Shape'
    BY <1>12 DEF Maintain, TypeOK, Money, Gap, Day, Shape, Live
  <1>13. ASSUME LogGrid PROVE Shape'
    BY <1>13 DEF LogGrid, TypeOK, Money, Gap, Day, Shape, Live
  <1>14. ASSUME Process PROVE Shape'
    BY <1>14 DEF Process, TypeOK, Money, Gap, Day, Shape, Live
  <1>15. ASSUME AttemptFails PROVE Shape'
    BY <1>15 DEF AttemptFails, TypeOK, Money, Gap, Day, Shape, Live
  <1>16. ASSUME NothingToClose PROVE Shape'
    BY <1>16 DEF NothingToClose, TypeOK, Money, Gap, Day, Shape, Live
  <1>17. ASSUME NEW d \in -1 .. 1, CloseTrades(d) PROVE Shape'
    BY <1>17 DEF CloseTrades, TypeOK, Money, Gap, Day, Shape, Live
  <1>18. ASSUME Settle PROVE Shape'
    BY <1>18 DEF Settle, TypeOK, Money, Gap, Day, Shape, Live
  <1>19. ASSUME SettleBlind PROVE Shape'
    BY <1>19 DEF SettleBlind, TypeOK, Money, Gap, Day, Shape, Live
  <1>20. CASE UNCHANGED vars
    BY <1>20 DEF vars, TypeOK, Money, Gap, Day, Shape, Live
  <1>21. QED
    BY NextCases, <1>1, <1>2, <1>3, <1>4, <1>5, <1>6, <1>7, <1>8, <1>9, <1>10, <1>11, <1>12,
       <1>13, <1>14, <1>15, <1>16, <1>17, <1>18, <1>19, <1>20

LEMMA HaltedStep ==
  ASSUME TypeOK, Halted, [Next]_vars
  PROVE  Halted'
  <1> USE SessionPnlConstants DEF accountVars, clockVars, baselineVars, flagVars, pnlVars, ghostVars,
        Moving, RollOver, Restarts, NewDay, gridUp, Trading, Returns, Notify
  <1>1. ASSUME NEW d \in {-1, 1}, PriceMoves(d) PROVE Halted'
    BY <1>1 DEF PriceMoves, TypeOK, Day, Halted
  <1>2. ASSUME NEW d \in {-1, 1}, StopOut(d) PROVE Halted'
    BY <1>2 DEF StopOut, TypeOK, Day, Halted
  <1>3. ASSUME OrderFills PROVE Halted'
    BY <1>3 DEF OrderFills, TypeOK, Day, Halted
  <1>4. ASSUME Midnight PROVE Halted'
    BY <1>4 DEF Midnight, TypeOK, Day, Halted
  <1>5. ASSUME NewBar PROVE Halted'
    BY <1>5 DEF NewBar, TypeOK, Day, Halted
  <1>6. ASSUME ReadSummary PROVE Halted'
    BY <1>6 DEF ReadSummary, TypeOK, Day, Halted
  <1>7. ASSUME ReEmitFlat PROVE Halted'
    BY <1>7 DEF ReEmitFlat, TypeOK, Day, Halted
  <1>8. ASSUME StayPaused PROVE Halted'
    BY <1>8 DEF StayPaused, TypeOK, Day, Halted
  <1>9. ASSUME DailyHalt PROVE Halted'
    BY <1>9 DEF DailyHalt, TypeOK, Day, Halted
  <1>10. ASSUME SessionExit PROVE Halted'
    BY <1>10 DEF SessionExit, TypeOK, Day, Halted
  <1>11. ASSUME OpenSession PROVE Halted'
    BY <1>11 DEF OpenSession, TypeOK, Day, Halted
  <1>12. ASSUME Maintain PROVE Halted'
    BY <1>12 DEF Maintain, TypeOK, Day, Halted
  <1>13. ASSUME LogGrid PROVE Halted'
    BY <1>13 DEF LogGrid, TypeOK, Day, Halted
  <1>14. ASSUME Process PROVE Halted'
    BY <1>14 DEF Process, TypeOK, Day, Halted
  <1>15. ASSUME AttemptFails PROVE Halted'
    BY <1>15 DEF AttemptFails, TypeOK, Day, Halted
  <1>16. ASSUME NothingToClose PROVE Halted'
    BY <1>16 DEF NothingToClose, TypeOK, Day, Halted
  <1>17. ASSUME NEW d \in -1 .. 1, CloseTrades(d) PROVE Halted'
    BY <1>17 DEF CloseTrades, TypeOK, Day, Halted
  <1>18. ASSUME Settle PROVE Halted'
    BY <1>18 DEF Settle, TypeOK, Day, Halted
  <1>19. ASSUME SettleBlind PROVE Halted'
    BY <1>19 DEF SettleBlind, TypeOK, Day, Halted
  <1>20. CASE UNCHANGED vars
    BY <1>20 DEF vars, TypeOK, Day, Halted
  <1>21. QED
    BY NextCases, <1>1, <1>2, <1>3, <1>4, <1>5, <1>6, <1>7, <1>8, <1>9, <1>10, <1>11, <1>12,
       <1>13, <1>14, <1>15, <1>16, <1>17, <1>18, <1>19, <1>20

LEMMA DaysStep ==
  ASSUME TypeOK, Shape, DaysInStep, [Next]_vars
  PROVE  DaysInStep'
  <1> USE SessionPnlConstants DEF accountVars, clockVars, baselineVars, flagVars, pnlVars, ghostVars,
        Moving, RollOver, Restarts, NewDay, gridUp, Trading, Returns, Notify
  <1>1. ASSUME NEW d \in {-1, 1}, PriceMoves(d) PROVE DaysInStep'
    BY <1>1 DEF PriceMoves, TypeOK, Money, Gap, Day, Shape, DaysInStep
  <1>2. ASSUME NEW d \in {-1, 1}, StopOut(d) PROVE DaysInStep'
    BY <1>2 DEF StopOut, TypeOK, Money, Gap, Day, Shape, DaysInStep
  <1>3. ASSUME OrderFills PROVE DaysInStep'
    BY <1>3 DEF OrderFills, TypeOK, Money, Gap, Day, Shape, DaysInStep
  <1>4. ASSUME Midnight PROVE DaysInStep'
    BY <1>4 DEF Midnight, TypeOK, Money, Gap, Day, Shape, DaysInStep
  <1>5. ASSUME NewBar PROVE DaysInStep'
    BY <1>5 DEF NewBar, TypeOK, Money, Gap, Day, Shape, DaysInStep
  <1>6. ASSUME ReadSummary PROVE DaysInStep'
    BY <1>6 DEF ReadSummary, TypeOK, Money, Gap, Day, Shape, DaysInStep
  <1>7. ASSUME ReEmitFlat PROVE DaysInStep'
    BY <1>7 DEF ReEmitFlat, TypeOK, Money, Gap, Day, Shape, DaysInStep
  <1>8. ASSUME StayPaused PROVE DaysInStep'
    BY <1>8 DEF StayPaused, TypeOK, Money, Gap, Day, Shape, DaysInStep
  <1>9. ASSUME DailyHalt PROVE DaysInStep'
    BY <1>9 DEF DailyHalt, TypeOK, Money, Gap, Day, Shape, DaysInStep
  <1>10. ASSUME SessionExit PROVE DaysInStep'
    BY <1>10 DEF SessionExit, TypeOK, Money, Gap, Day, Shape, DaysInStep
  <1>11. ASSUME OpenSession PROVE DaysInStep'
    BY <1>11 DEF OpenSession, TypeOK, Money, Gap, Day, Shape, DaysInStep
  <1>12. ASSUME Maintain PROVE DaysInStep'
    BY <1>12 DEF Maintain, TypeOK, Money, Gap, Day, Shape, DaysInStep
  <1>13. ASSUME LogGrid PROVE DaysInStep'
    BY <1>13 DEF LogGrid, TypeOK, Money, Gap, Day, Shape, DaysInStep
  <1>14. ASSUME Process PROVE DaysInStep'
    BY <1>14 DEF Process, TypeOK, Money, Gap, Day, Shape, DaysInStep
  <1>15. ASSUME AttemptFails PROVE DaysInStep'
    BY <1>15 DEF AttemptFails, TypeOK, Money, Gap, Day, Shape, DaysInStep
  <1>16. ASSUME NothingToClose PROVE DaysInStep'
    BY <1>16 DEF NothingToClose, TypeOK, Money, Gap, Day, Shape, DaysInStep
  <1>17. ASSUME NEW d \in -1 .. 1, CloseTrades(d) PROVE DaysInStep'
    BY <1>17 DEF CloseTrades, TypeOK, Money, Gap, Day, Shape, DaysInStep
  <1>18. ASSUME Settle PROVE DaysInStep'
    BY <1>18 DEF Settle, TypeOK, Money, Gap, Day, Shape, DaysInStep
  <1>19. ASSUME SettleBlind PROVE DaysInStep'
    BY <1>19 DEF SettleBlind, TypeOK, Money, Gap, Day, Shape, DaysInStep
  <1>20. CASE UNCHANGED vars
    BY <1>20 DEF vars, TypeOK, Money, Gap, Day, Shape, DaysInStep
  <1>21. QED
    BY NextCases, <1>1, <1>2, <1>3, <1>4, <1>5, <1>6, <1>7, <1>8, <1>9, <1>10, <1>11, <1>12,
       <1>13, <1>14, <1>15, <1>16, <1>17, <1>18, <1>19, <1>20

LEMMA BankedStep ==
  ASSUME TypeOK, Shape, Banked, [Next]_vars
  PROVE  Banked'
  <1> USE SessionPnlConstants DEF accountVars, clockVars, baselineVars, flagVars, pnlVars, ghostVars,
        Moving, RollOver, Restarts, NewDay, gridUp, Trading, Returns, Notify
  <1>1. ASSUME NEW d \in {-1, 1}, PriceMoves(d) PROVE Banked'
    BY <1>1 DEF PriceMoves, TypeOK, Money, Gap, Shape, Live, Banked
  <1>2. ASSUME NEW d \in {-1, 1}, StopOut(d) PROVE Banked'
    BY <1>2 DEF StopOut, TypeOK, Money, Gap, Shape, Live, Banked
  <1>3. ASSUME OrderFills PROVE Banked'
    BY <1>3 DEF OrderFills, TypeOK, Money, Gap, Shape, Live, Banked
  <1>4. ASSUME Midnight PROVE Banked'
    BY <1>4 DEF Midnight, TypeOK, Money, Gap, Shape, Live, Banked
  <1>5. ASSUME NewBar PROVE Banked'
    BY <1>5 DEF NewBar, TypeOK, Money, Gap, Shape, Live, Banked
  <1>6. ASSUME ReadSummary PROVE Banked'
    BY <1>6 DEF ReadSummary, TypeOK, Money, Gap, Shape, Live, Banked
  <1>7. ASSUME ReEmitFlat PROVE Banked'
    BY <1>7 DEF ReEmitFlat, TypeOK, Money, Gap, Shape, Live, Banked
  <1>8. ASSUME StayPaused PROVE Banked'
    BY <1>8 DEF StayPaused, TypeOK, Money, Gap, Shape, Live, Banked
  <1>9. ASSUME DailyHalt PROVE Banked'
    BY <1>9 DEF DailyHalt, TypeOK, Money, Gap, Shape, Live, Banked
  <1>10. ASSUME SessionExit PROVE Banked'
    BY <1>10 DEF SessionExit, TypeOK, Money, Gap, Shape, Live, Banked
  <1>11. ASSUME OpenSession PROVE Banked'
    BY <1>11 DEF OpenSession, TypeOK, Money, Gap, Shape, Live, Banked
  <1>12. ASSUME Maintain PROVE Banked'
    BY <1>12 DEF Maintain, TypeOK, Money, Gap, Shape, Live, Banked
  <1>13. ASSUME LogGrid PROVE Banked'
    BY <1>13 DEF LogGrid, TypeOK, Money, Gap, Shape, Live, Banked
  <1>14. ASSUME Process PROVE Banked'
    BY <1>14 DEF Process, TypeOK, Money, Gap, Shape, Live, Banked
  <1>15. ASSUME AttemptFails PROVE Banked'
    BY <1>15 DEF AttemptFails, TypeOK, Money, Gap, Shape, Live, Banked
  <1>16. ASSUME NothingToClose PROVE Banked'
    BY <1>16 DEF NothingToClose, TypeOK, Money, Gap, Shape, Live, Banked
  <1>17. ASSUME NEW d \in -1 .. 1, CloseTrades(d) PROVE Banked'
    BY <1>17 DEF CloseTrades, TypeOK, Money, Gap, Shape, Live, Banked
  <1>18. ASSUME Settle PROVE Banked'
    BY <1>18 DEF Settle, TypeOK, Money, Gap, Shape, Live, Banked
  <1>19. ASSUME SettleBlind PROVE Banked'
    BY <1>19 DEF SettleBlind, TypeOK, Money, Gap, Shape, Live, Banked
  <1>20. CASE UNCHANGED vars
    BY <1>20 DEF vars, TypeOK, Money, Gap, Shape, Live, Banked
  <1>21. QED
    BY NextCases, <1>1, <1>2, <1>3, <1>4, <1>5, <1>6, <1>7, <1>8, <1>9, <1>10, <1>11, <1>12,
       <1>13, <1>14, <1>15, <1>16, <1>17, <1>18, <1>19, <1>20

LEMMA BaselineStep ==
  ASSUME TypeOK, Shape, Banked, Baseline, [Next]_vars
  PROVE  Baseline'
  <1> USE SessionPnlConstants DEF accountVars, clockVars, baselineVars, flagVars, pnlVars, ghostVars,
        Moving, RollOver, Restarts, NewDay, gridUp, Trading, Returns, Notify
  <1>1. ASSUME NEW d \in {-1, 1}, PriceMoves(d) PROVE Baseline'
    BY <1>1 DEF PriceMoves, TypeOK, Money, Gap, Shape, Live, Banked, Clean, Baseline
  <1>2. ASSUME NEW d \in {-1, 1}, StopOut(d) PROVE Baseline'
    BY <1>2 DEF StopOut, TypeOK, Money, Gap, Shape, Live, Banked, Clean, Baseline
  <1>3. ASSUME OrderFills PROVE Baseline'
    BY <1>3 DEF OrderFills, TypeOK, Money, Gap, Shape, Live, Banked, Clean, Baseline
  <1>4. ASSUME Midnight PROVE Baseline'
    BY <1>4 DEF Midnight, TypeOK, Money, Gap, Shape, Live, Banked, Clean, Baseline
  <1>5. ASSUME NewBar PROVE Baseline'
    BY <1>5 DEF NewBar, TypeOK, Money, Gap, Shape, Live, Banked, Clean, Baseline
  <1>6. ASSUME ReadSummary PROVE Baseline'
    BY <1>6 DEF ReadSummary, TypeOK, Money, Gap, Shape, Live, Banked, Clean, Baseline
  <1>7. ASSUME ReEmitFlat PROVE Baseline'
    BY <1>7 DEF ReEmitFlat, TypeOK, Money, Gap, Shape, Live, Banked, Clean, Baseline
  <1>8. ASSUME StayPaused PROVE Baseline'
    BY <1>8 DEF StayPaused, TypeOK, Money, Gap, Shape, Live, Banked, Clean, Baseline
  <1>9. ASSUME DailyHalt PROVE Baseline'
    BY <1>9 DEF DailyHalt, TypeOK, Money, Gap, Shape, Live, Banked, Clean, Baseline
  <1>10. ASSUME SessionExit PROVE Baseline'
    BY <1>10 DEF SessionExit, TypeOK, Money, Gap, Shape, Live, Banked, Clean, Baseline
  <1>11. ASSUME OpenSession PROVE Baseline'
    BY <1>11 DEF OpenSession, TypeOK, Money, Gap, Shape, Live, Banked, Clean, Baseline
  <1>12. ASSUME Maintain PROVE Baseline'
    BY <1>12 DEF Maintain, TypeOK, Money, Gap, Shape, Live, Banked, Clean, Baseline
  <1>13. ASSUME LogGrid PROVE Baseline'
    BY <1>13 DEF LogGrid, TypeOK, Money, Gap, Shape, Live, Banked, Clean, Baseline
  <1>14. ASSUME Process PROVE Baseline'
    BY <1>14 DEF Process, TypeOK, Money, Gap, Shape, Live, Banked, Clean, Baseline
  <1>15. ASSUME AttemptFails PROVE Baseline'
    BY <1>15 DEF AttemptFails, TypeOK, Money, Gap, Shape, Live, Banked, Clean, Baseline
  <1>16. ASSUME NothingToClose PROVE Baseline'
    BY <1>16 DEF NothingToClose, TypeOK, Money, Gap, Shape, Live, Banked, Clean, Baseline
  <1>17. ASSUME NEW d \in -1 .. 1, CloseTrades(d) PROVE Baseline'
    BY <1>17 DEF CloseTrades, TypeOK, Money, Gap, Shape, Live, Banked, Clean, Baseline
  <1>18. ASSUME Settle PROVE Baseline'
    BY <1>18 DEF Settle, TypeOK, Money, Gap, Shape, Live, Banked, Clean, Baseline
  <1>19. ASSUME SettleBlind PROVE Baseline'
    BY <1>19 DEF SettleBlind, TypeOK, Money, Gap, Shape, Live, Banked, Clean, Baseline
  <1>20. CASE UNCHANGED vars
    BY <1>20 DEF vars, TypeOK, Money, Gap, Shape, Live, Banked, Clean, Baseline
  <1>21. QED
    BY NextCases, <1>1, <1>2, <1>3, <1>4, <1>5, <1>6, <1>7, <1>8, <1>9, <1>10, <1>11, <1>12,
       <1>13, <1>14, <1>15, <1>16, <1>17, <1>18, <1>19, <1>20

-----------------------------------------------------------------------------
IInv == TypeOK /\ Shape /\ Halted /\ DaysInStep /\ Banked /\ Baseline

LEMMA Invariant == Spec => []IInv
  <1>1. Init => IInv
    <2>1. Init => Shape /\ Halted /\ DaysInStep /\ Banked /\ Baseline
      BY DEF Init, Shape, Live, Halted, DaysInStep, Banked, Baseline
    <2>2. QED
      BY <2>1, TypeInit DEF IInv
  <1>2. IInv /\ [Next]_vars => IInv'
    BY TypeStep, ShapeStep, HaltedStep, DaysStep, BankedStep, BaselineStep DEF IInv
  <1>3. QED
    BY <1>1, <1>2, PTL DEF Spec

\* A session that ends at its target or limit has earned or lost it itself, for
\* every liquidation that found trades to close and read its closing balance.
THEOREM ExitCorrect == Spec => ExitIsOwnUnlessUnread
  <1>1. ASSUME IInv, Clean, SessionExit
        PROVE  OwnPnl >= ProfitTarget \/ OwnPnl <= -SessionLimit
    <2>1. sessionReal = lastBalance - openedAt
      BY <1>1 DEF IInv, TypeOK, Baseline, Live, SessionExit, Trading, gridUp, Restarts, NewDay
    <2>2. sessionReal' = sessionReal /\ unreal' = unreal
      BY <1>1 DEF SessionExit, RollOver, gridUp
    <2>3. QED
      BY <1>1, <2>1, <2>2, SessionPnlConstants
      DEF IInv, TypeOK, Money, SessionExit, AtSessionLimit, sessionTotal, OwnPnl
  <1>2. IInv => [Clean /\ SessionExit =>
                   OwnPnl >= ProfitTarget \/ OwnPnl <= -SessionLimit]_vars
    BY <1>1
  <1>3. QED
    BY <1>2, Invariant, PTL DEF ExitIsOwnUnlessUnread, Clean

\* And under the same condition no cycle that maintains the grid overlooks it.
THEOREM ExitTaken == Spec => ExitIsTaken
  <1>1. ASSUME IInv, Clean, Maintain
        PROVE  OwnPnl < ProfitTarget /\ OwnPnl > -SessionLimit
    <2>1. sessionReal = lastBalance - openedAt
      BY <1>1 DEF IInv, TypeOK, Baseline, Live, Maintain, Trading, gridUp, Restarts, NewDay
    <2>2. sessionReal' = sessionReal /\ unreal' = unreal
      BY <1>1 DEF Maintain, RollOver, gridUp
    <2>3. QED
      BY <1>1, <2>1, <2>2, SessionPnlConstants
      DEF IInv, TypeOK, Money, Maintain, AtSessionLimit, sessionTotal, OwnPnl
  <1>2. IInv => [Clean /\ Maintain => OwnPnl < ProfitTarget /\ OwnPnl > -SessionLimit]_vars
    BY <1>1
  <1>3. QED
    BY <1>2, Invariant, PTL DEF ExitIsTaken, Clean

\* The session history adds up to what the account banked, with readable balances.
THEOREM RecordCorrect == Spec => RecordIsTheBank
  <1>1. ASSUME IInv, Next, pc = "settle", "read" \notin faults
        PROVE  recorded' = balance - bankedAt
    <2>1. Settle
      <3> USE <1>1 DEF Moving
      <3>1. QED
        BY NextCases DEF PriceMoves, StopOut, OrderFills, Midnight, NewBar, ReadSummary,
          ReEmitFlat, StayPaused, DailyHalt, SessionExit, OpenSession, Maintain, LogGrid,
          Process, AttemptFails, NothingToClose, CloseTrades, SettleBlind, Returns
    <2>2. QED
      BY <1>1, <2>1 DEF IInv, Banked, Settle
  <1>2. IInv /\ [Next]_vars =>
          [pc = "settle" /\ "read" \notin faults => recorded' = balance - bankedAt]_vars
    BY <1>1
  <1>3. QED
    BY <1>2, Invariant, PTL DEF RecordIsTheBank, Spec

\* No grid is opened on bars of a day whose limit was hit, whatever goes wrong.
THEOREM HaltCorrect == Spec => HaltHolds
  <1>1. ASSUME IInv, OpenSession PROVE barDay # haltDay
    BY <1>1 DEF IInv, TypeOK, Halted, OpenSession, Trading, NewDay
  <1>2. IInv => [OpenSession => barDay # haltDay]_vars
    BY <1>1
  <1>3. QED
    BY <1>2, Invariant, PTL DEF HaltHolds

\* With bars and clock in step, a day whose loss has reached the limit opens no
\* grid, also when the loss came from several sessions.
THEOREM BreachedDayStaysShut == Spec => NoFreshSessionOnBreachedDay
  <1>1. ASSUME IInv, "lag" \notin faults, OpenSession
        PROVE  lastBalance - dayStart > -DailyLimit
    <2>1. pc = "generate" /\ unreal = 0
      BY <1>1 DEF IInv, TypeOK, Shape, Live, OpenSession, gridUp, Restarts, Trading
    <2>2. unreal' = 0
      BY <1>1, <2>1 DEF OpenSession, RollOver
    <2>3. dailyReal' = lastBalance - dayStart
      BY <1>1, <2>1, SessionPnlConstants
      DEF IInv, TypeOK, Money, DaysInStep, OpenSession, RollOver, NewDay
    <2>4. QED
      BY <1>1, <2>2, <2>3, SessionPnlConstants
      DEF IInv, TypeOK, Money, OpenSession, DailyLoss, dailyTotal
  <1>2. IInv => [OpenSession /\ "lag" \notin faults => lastBalance - dayStart > -DailyLimit]_vars
    BY <1>1
  <1>3. QED
    BY <1>2, Invariant, PTL DEF NoFreshSessionOnBreachedDay
=============================================================================
