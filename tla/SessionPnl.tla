----------------------------- MODULE SessionPnl -----------------------------
(***************************************************************************)
(* The money that decides when a session of the sliding grid ends: the     *)
(* account balance, the baselines TradingEngine takes of it, the realized  *)
(* P&L it pushes to CibySlidingGridStrategy as balance differences, and    *)
(* the exits that generate() takes on the numbers it was given.            *)
(*                                                                         *)
(* Amounts are integers in units of the smallest move.  The balance moves  *)
(* only when something is realized, and the account is the bot's alone.    *)
(* One strategy cycle is cut where the engine calls out: the account       *)
(* summary, generate(), the drain of further signals, the liquidation.     *)
(* The retries of a liquidation are CloseAll's; here an attempt closes     *)
(* everything, finds nothing to close, or fails.                           *)
(***************************************************************************)
EXTENDS Integers

CONSTANTS
  ProfitTarget,   \* _session_profit_target
  SessionLimit,   \* _session_loss_limit
  DailyLimit,     \* _daily_loss_limit
  MaxMoney,       \* bound: balance and floating P&L stay within +-MaxMoney
  MaxDay,         \* bound: the days of a behaviour are 0 .. MaxDay
  Environments    \* which faults may come together: sets of FaultKinds

\* "none": a liquidation may find that every trade has already been stopped out
\* "read": the balance read after a liquidation may fail
\* "lag":  the date of the latest completed bar may trail the clock's
FaultKinds == {"none", "read", "lag"}

ASSUME SessionPnlConstants ==
  /\ ProfitTarget \in Nat \ {0} /\ SessionLimit \in Nat \ {0}
  /\ DailyLimit \in Nat \ {0}
  /\ MaxMoney \in Nat /\ MaxDay \in Nat
  /\ Environments \subseteq SUBSET FaultKinds

VARIABLES
  faults,         \* what may go wrong in this behaviour
  \* the account and the clocks
  balance,        \* without open positions
  floating,       \* unrealized P&L of the open trades
  open,           \* the bot has open trades
  wallDay,        \* datetime.now(UTC)
  barDay,         \* date of the latest completed bar
  \* the engine: _last_balance, _session_start_balance, _day_start_balance,
  \* _balance_day, _grid_logged, and the realized_pnl of its last SessionSummary
  lastBalance, sessionStart, dayStart, balanceDay, gridLogged, recorded,
  \* the strategy: _anchor_price is set, _session_active, _close_all_in_progress,
  \* _session_realized_pnl, _daily_realized_pnl, _session_unrealized_pnl,
  \* _current_date
  anchored, active, closing, sessionReal, dailyReal, unreal, strategyDay,
  \* the cycle's place, and what generate() returned first
  pc, got,
  \* for the properties: the balance when the present grid was opened, the
  \* balance at the last SessionSummary, and the last day the daily limit was hit
  openedAt, bankedAt, haltDay

accountVars  == <<balance, floating, open>>
clockVars    == <<wallDay, barDay>>
baselineVars == <<lastBalance, sessionStart, dayStart, balanceDay, gridLogged, recorded>>
flagVars     == <<anchored, active, closing>>
pnlVars      == <<sessionReal, dailyReal, unreal, strategyDay>>
ghostVars    == <<openedAt, bankedAt, haltDay>>
vars == <<faults, accountVars, clockVars, baselineVars, flagVars, pnlVars, pc, got,
          ghostVars>>

Money == -MaxMoney .. MaxMoney
-----------------------------------------------------------------------------
\* run() seeds the baselines from the balance it starts with.
Init ==
  /\ faults \in Environments
  /\ balance = 0 /\ floating = 0 /\ open = FALSE
  /\ wallDay = 0 /\ barDay = 0
  /\ lastBalance = 0 /\ sessionStart = 0 /\ dayStart = 0 /\ balanceDay = 0
  /\ gridLogged = FALSE /\ recorded = 0
  /\ anchored = FALSE /\ active = TRUE /\ closing = FALSE
  /\ sessionReal = 0 /\ dailyReal = 0 /\ unreal = 0 /\ strategyDay = 0
  /\ pc = "idle" /\ got = "none"
  /\ openedAt = 0 /\ bankedAt = 0 /\ haltDay = -1

(***************************************************************************)
(* The market moves between cycles; what it does within one shows in the   *)
(* next cycle, or in the price at which a liquidation closes.              *)
(***************************************************************************)
Moving == open /\ pc = "idle"

PriceMoves(d) ==
  /\ Moving /\ floating + d \in Money
  /\ floating' = floating + d
  /\ UNCHANGED <<faults, balance, open, clockVars, baselineVars, flagVars, pnlVars, pc,
                 got, ghostVars>>

\* Some trades are stopped out, or all of them if a liquidation may find none.
StopOut(d) ==
  /\ Moving /\ balance + d \in Money /\ floating - d \in Money
  /\ balance' = balance + d
  /\ floating' = floating - d
  /\ \/ UNCHANGED open
     \/ "none" \in faults /\ floating' = 0 /\ open' = FALSE
  /\ UNCHANGED <<faults, clockVars, baselineVars, flagVars, pnlVars, pc, got, ghostVars>>

\* A resting order of the grid fills, until a liquidation has cancelled it.
OrderFills ==
  /\ anchored /\ (active \/ closing) /\ pc = "idle"
  /\ open' = TRUE
  /\ UNCHANGED <<faults, balance, floating, clockVars, baselineVars, flagVars, pnlVars, pc,
                 got, ghostVars>>

(***************************************************************************)
(* The clocks, between cycles.  The first completed bar of a day comes     *)
(* later than midnight if the bars lag.                                    *)
(***************************************************************************)
Midnight ==
  /\ pc = "idle" /\ wallDay < MaxDay
  /\ wallDay' = wallDay + 1
  /\ \/ barDay' = wallDay + 1
     \/ "lag" \in faults /\ barDay' = barDay
  /\ UNCHANGED <<faults, accountVars, baselineVars, flagVars, pnlVars, pc, got, ghostVars>>

NewBar ==
  /\ pc = "idle" /\ barDay < wallDay
  /\ barDay' = wallDay
  /\ UNCHANGED <<faults, accountVars, wallDay, baselineVars, flagVars, pnlVars, pc, got,
                 ghostVars>>

(***************************************************************************)
(* The strategy cycle.                                                     *)
(***************************************************************************)

\* Mutant: the equity is pushed instead of the balance.
ReadSummaryEquity ==
  LET start == IF wallDay # balanceDay THEN balance ELSE dayStart IN
  /\ pc = "idle"
  /\ lastBalance' = balance /\ unreal' = floating
  /\ dayStart' = start /\ balanceDay' = wallDay
  /\ sessionReal' = balance + floating - sessionStart
  /\ dailyReal' = balance + floating - start
  /\ pc' = "generate" /\ got' = "none"
  /\ UNCHANGED <<faults, accountVars, clockVars, sessionStart, gridLogged, recorded,
                 flagVars, strategyDay, ghostVars>>

\* get_account_summary; _push_realized_pnl re-anchors the day by the clock and
\* pushes both differences.
ReadSummary ==
  LET start == IF wallDay # balanceDay THEN balance ELSE dayStart IN
  /\ pc = "idle"
  /\ lastBalance' = balance /\ unreal' = floating
  /\ dayStart' = start /\ balanceDay' = wallDay
  /\ sessionReal' = balance - sessionStart
  /\ dailyReal' = balance - start
  /\ pc' = "generate" /\ got' = "none"
  /\ UNCHANGED <<faults, accountVars, clockVars, sessionStart, gridLogged, recorded,
                 flagVars, strategyDay, ghostVars>>

\* The day-boundary block of generate(), by the bars' date: the daily figure
\* starts again, and a paused session is restarted unless it is still closing.
NewDay == strategyDay # barDay
Restarts == NewDay /\ ~active /\ ~closing
gridUp == anchored /\ ~Restarts
Trading == ~closing /\ (active \/ NewDay)

RollOver ==
  /\ strategyDay' = barDay
  /\ dailyReal' = IF NewDay THEN 0 ELSE dailyReal
  /\ sessionReal' = IF Restarts THEN 0 ELSE sessionReal
  /\ unreal' = IF Restarts THEN 0 ELSE unreal

\* What generate() compares with its limits, after that block.
dailyTotal == dailyReal' + unreal'
sessionTotal == sessionReal' + unreal'

\* Mutant: the daily limit is checked only for a grid that is up.
DailyLossOfGrid == gridUp /\ dailyTotal <= -DailyLimit

DailyLoss == dailyTotal <= -DailyLimit

\* generate() is called once, and then again until it has nothing more to say.
Returns(signal) ==
  /\ \/ pc = "generate" /\ pc' = "log"
     \/ pc = "drain" /\ pc' = "process"
  /\ got' = signal

\* A liquidation is still being retried.
ReEmitFlat ==
  /\ pc = "generate" /\ closing
  /\ RollOver
  /\ active' = (active \/ NewDay)
  /\ Returns("flat")
  /\ UNCHANGED <<faults, accountVars, clockVars, baselineVars, anchored, closing, ghostVars>>

\* The daily limit was hit today.
StayPaused ==
  /\ pc = "generate" /\ ~closing /\ ~Trading
  /\ RollOver
  /\ Returns("none")
  /\ UNCHANGED <<faults, accountVars, clockVars, baselineVars, flagVars, ghostVars>>

\* Mutant: the daily limit ends the session, and trading goes on.
DailyHaltRestarts ==
  /\ pc \in {"generate", "drain"} /\ Trading
  /\ RollOver /\ DailyLoss
  /\ active' = TRUE /\ anchored' = gridUp
  /\ closing' = gridUp
  /\ haltDay' = barDay
  /\ Returns(IF gridUp THEN "flat" ELSE "none")
  /\ UNCHANGED <<faults, accountVars, clockVars, baselineVars, openedAt, bankedAt>>

\* The daily loss limit: trading pauses, and what is live is liquidated.
DailyHalt ==
  /\ pc \in {"generate", "drain"} /\ Trading
  /\ RollOver /\ DailyLoss
  /\ active' = FALSE /\ anchored' = gridUp
  /\ closing' = gridUp
  /\ haltDay' = barDay
  /\ Returns(IF gridUp THEN "flat" ELSE "none")
  /\ UNCHANGED <<faults, accountVars, clockVars, baselineVars, openedAt, bankedAt>>

\* Mutant: what the open trades float is left out.
AtRealizedLimit == sessionReal' >= ProfitTarget \/ sessionReal' <= -SessionLimit

AtSessionLimit == sessionTotal >= ProfitTarget \/ sessionTotal <= -SessionLimit

\* The session's profit target or loss limit.
SessionExit ==
  /\ pc \in {"generate", "drain"} /\ Trading /\ gridUp
  /\ RollOver /\ ~DailyLoss /\ AtSessionLimit
  /\ active' = TRUE /\ closing' = TRUE
  /\ Returns("flat")
  /\ UNCHANGED <<faults, accountVars, clockVars, baselineVars, anchored, ghostVars>>

\* A fresh anchor: the first signal of the new grid is returned.
OpenSession ==
  /\ pc = "generate" /\ Trading /\ ~gridUp
  /\ RollOver /\ ~DailyLoss
  /\ active' = TRUE /\ anchored' = TRUE
  /\ openedAt' = balance
  /\ Returns("open")
  /\ UNCHANGED <<faults, accountVars, clockVars, baselineVars, closing, bankedAt, haltDay>>

\* Nothing is due: the grid is maintained, with or without signals.
Maintain ==
  /\ pc \in {"generate", "drain"} /\ Trading /\ gridUp
  /\ RollOver /\ ~DailyLoss /\ ~AtSessionLimit
  /\ active' = TRUE
  /\ \/ Returns("none")
     \/ pc = "generate" /\ Returns("entry")
  /\ UNCHANGED <<faults, accountVars, clockVars, baselineVars, anchored, closing, ghostVars>>

\* After the first signal: a grid that has not been logged yet is, and the
\* session's baseline becomes the balance read at the start of the cycle.
LogGrid ==
  /\ pc = "log"
  /\ gridLogged' = (gridLogged \/ anchored)
  /\ sessionStart' = IF anchored /\ ~gridLogged THEN lastBalance ELSE sessionStart
  /\ pc' = CASE got = "none" -> "idle" [] got = "flat" -> "liquidate" [] OTHER -> "drain"
  /\ UNCHANGED <<faults, accountVars, clockVars, lastBalance, dayStart, balanceDay, recorded,
                 flagVars, pnlVars, got, ghostVars>>

\* The entries are placed, and the anchor pair fills at market, before a FLAT
\* that ended the drain is processed.
Process ==
  /\ pc = "process"
  /\ open' = TRUE \/ ("none" \in faults /\ UNCHANGED open)
  /\ pc' = IF got = "flat" THEN "liquidate" ELSE "idle"
  /\ got' = "none"
  /\ UNCHANGED <<faults, balance, floating, clockVars, baselineVars, flagVars, pnlVars,
                 ghostVars>>

(***************************************************************************)
(* The liquidation.                                                        *)
(***************************************************************************)

\* notify_close_all_complete: a fresh session, or a pause that keeps its anchor.
Notify ==
  /\ pc' = "idle" /\ got' = "none"
  /\ closing' = FALSE
  /\ anchored' = (anchored /\ ~active)
  /\ sessionReal' = IF active THEN 0 ELSE sessionReal
  /\ unreal' = 0
  /\ UNCHANGED <<active, dailyReal, strategyDay, openedAt, haltDay>>

\* The attempt fails, or is not due yet: the next cycle tries again.
AttemptFails ==
  /\ pc = "liquidate"
  /\ pc' = "idle" /\ got' = "none"
  /\ UNCHANGED <<faults, accountVars, clockVars, baselineVars, flagVars, pnlVars, ghostVars>>

\* Every trade was closed by its stop before the liquidation came to it.
NothingToClose ==
  /\ pc = "liquidate" /\ ~open
  /\ Notify
  /\ UNCHANGED <<faults, accountVars, clockVars, baselineVars, bankedAt>>

\* The trades are closed at market: what floats by then is realized.
CloseTrades(d) ==
  /\ pc = "liquidate" /\ open /\ balance + floating + d \in Money
  /\ balance' = balance + floating + d
  /\ floating' = 0 /\ open' = FALSE
  /\ pc' = "settle"
  /\ UNCHANGED <<faults, clockVars, baselineVars, flagVars, pnlVars, got, ghostVars>>

\* Mutant: the baseline is left for the next grid's first log line to move.
SettleKeepsBaseline ==
  /\ pc = "settle"
  /\ lastBalance' = balance
  /\ recorded' = balance - sessionStart /\ bankedAt' = balance
  /\ gridLogged' = FALSE
  /\ Notify
  /\ UNCHANGED <<faults, accountVars, clockVars, sessionStart, dayStart, balanceDay>>

\* Mutant: the record is taken against the baseline of the day.
SettleAgainstDay ==
  /\ pc = "settle"
  /\ lastBalance' = balance
  /\ recorded' = balance - dayStart /\ bankedAt' = balance
  /\ sessionStart' = balance /\ gridLogged' = FALSE
  /\ Notify
  /\ UNCHANGED <<faults, accountVars, clockVars, dayStart, balanceDay>>

\* The closing balance: the session is recorded, the next one starts from it.
Settle ==
  /\ pc = "settle"
  /\ lastBalance' = balance
  /\ recorded' = balance - sessionStart /\ bankedAt' = balance
  /\ sessionStart' = balance /\ gridLogged' = FALSE
  /\ Notify
  /\ UNCHANGED <<faults, accountVars, clockVars, dayStart, balanceDay>>

\* The read fails: the strategy's own tally is recorded, the baseline stays.
SettleBlind ==
  /\ pc = "settle" /\ "read" \in faults
  /\ recorded' = sessionReal /\ bankedAt' = balance
  /\ gridLogged' = FALSE
  /\ Notify
  /\ UNCHANGED <<faults, accountVars, clockVars, lastBalance, sessionStart, dayStart,
                 balanceDay>>
-----------------------------------------------------------------------------
Market == OrderFills \/ (\E d \in {-1, 1} : PriceMoves(d) \/ StopOut(d))

Cycle ==
  \/ ReadSummary
  \/ ReEmitFlat \/ StayPaused \/ DailyHalt \/ SessionExit \/ OpenSession \/ Maintain
  \/ LogGrid \/ Process

Liquidate == AttemptFails \/ NothingToClose \/ (\E d \in -1 .. 1 : CloseTrades(d)) \/ Settle \/ SettleBlind

Next == Market \/ Midnight \/ NewBar \/ Cycle \/ Liquidate

Spec == Init /\ [][Next]_vars
-----------------------------------------------------------------------------
(***************************************************************************)
(* Properties.                                                             *)
(***************************************************************************)

Day == 0 .. MaxDay
Gap == -2 * MaxMoney .. 2 * MaxMoney

\* Types.  A floating P&L that the summary read may have been realized since.
TypeOK ==
  /\ faults \in Environments
  /\ balance \in Money /\ floating \in Money /\ open \in BOOLEAN
  /\ wallDay \in Day /\ barDay \in Day
  /\ lastBalance \in Money /\ sessionStart \in Money /\ dayStart \in Money
  /\ balanceDay \in Day /\ gridLogged \in BOOLEAN /\ recorded \in Gap
  /\ anchored \in BOOLEAN /\ active \in BOOLEAN /\ closing \in BOOLEAN
  /\ sessionReal \in Gap /\ dailyReal \in Gap /\ unreal \in Money
  /\ strategyDay \in Day
  /\ pc \in {"idle", "generate", "log", "drain", "process", "liquidate", "settle"}
  /\ got \in {"none", "entry", "open", "flat"}
  /\ openedAt \in Money /\ bankedAt \in Money /\ haltDay \in Day \cup {-1}

\* What the present grid has earned, as far as the last summary read tells.
OwnPnl == lastBalance + unreal - openedAt

\* A session ends at its target or limit only if what its own grid earned has
\* reached it: the profit or loss of an earlier session never ends a later one
\* (_push_realized_pnl and the re-anchoring in _run_strategy_cycle), unless a
\* liquidation finds no trades to close or cannot read the closing balance: the two
\* ways past the re-anchoring of _close_all_trades.
ExitIsOwnUnlessUnread ==
  [][faults \cap {"none", "read"} = {} /\ SessionExit =>
       OwnPnl >= ProfitTarget \/ OwnPnl <= -SessionLimit]_vars

\* And it is never overlooked: a cycle that has read such a P&L for a grid that
\* trades does not leave it open with new entries.
ExitIsTaken ==
  [][faults \cap {"none", "read"} = {} /\ Maintain =>
       OwnPnl < ProfitTarget /\ OwnPnl > -SessionLimit]_vars

\* The realized_pnl of a SessionSummary is what the account has banked since the
\* previous one, so the history adds up to the account, whatever the days did.
RecordIsTheBank ==
  [][pc = "settle" /\ "read" \notin faults => recorded' = balance - bankedAt]_vars

\* After the daily limit was hit, no grid is opened on bars of that day
\* (generate()'s pause and its day-boundary block, under every fault).
HaltHolds == [][OpenSession => barDay # haltDay]_vars

\* If bars and clock change day together, no grid is opened on a day whose loss
\* has reached the limit, whichever session the loss came from.
NoFreshSessionOnBreachedDay ==
  [][OpenSession /\ "lag" \notin faults => lastBalance - dayStart > -DailyLimit]_vars
=============================================================================
