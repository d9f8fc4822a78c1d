------------------------------ MODULE CloseAll ------------------------------
(***************************************************************************)
(* The close-all protocol: TradingEngine._close_all_trades with its        *)
(* retries, back-off and circuit breaker, driven by the session flags of   *)
(* CibySlidingGridStrategy, against a broker that fills, stops and fails   *)
(* between any two of the engine's calls, and against TradingEngine.stop,  *)
(* which the web server's thread runs while the engine's own thread is     *)
(* anywhere in its loop.                                                   *)
(*                                                                         *)
(* An Entry is one side of one grid level at the broker: it may rest as an *)
(* order, be open as a trade, or be absent.  One broker call of the engine *)
(* is one step, so the broker and the web thread move in between.  Which   *)
(* levels are placed, the engine's maps and the money are in other modules *)
(* (FillTracking, SlidingGrid, SessionPnl); here the session exits are     *)
(* nondeterministic choices of generate().                                 *)
(***************************************************************************)
EXTENDS Naturals

CONSTANTS
  Entry,               \* the order/trade slots
  MaxRetries,          \* _MAX_CLOSE_ALL_RETRIES (5 in the code)
  MaxBalanceFailures   \* _MAX_BALANCE_READ_FAILURES (3 in the code)

ASSUME CloseAllConstants ==
  /\ MaxRetries \in Nat \ {0}
  /\ MaxBalanceFailures \in Nat \ {0}

VARIABLES
  \* the broker
  cancelsWork,      \* does every cancel of this behaviour succeed?
  orders,           \* entries resting at the broker
  trades,           \* entries open as trades at the broker
  \* the strategy: _anchor_price is set, _session_active, _close_all_in_progress
  anchored,
  sessionActive,
  closing,
  \* the engine: _running, _close_all_failed_count, "_close_all_next_retry_at
  \* lies in the future", _balance_read_failures
  running,
  failedCount,
  waiting,
  balanceFailures,
  \* the engine thread's place in its loop, and its local variables
  pc,
  signals,          \* entry signals generate() returned, not yet processed
  toClose,          \* trades of the snapshot still to be closed
  anyFailed,        \* a close_trade of this attempt has failed
  \* the web thread inside stop()
  stopPc

brokerVars   == <<cancelsWork, orders, trades>>
strategyVars == <<anchored, sessionActive, closing>>
retryVars    == <<failedCount, waiting>>
attemptVars  == <<toClose, anyFailed>>
vars == <<cancelsWork, orders, trades, anchored, sessionActive, closing, running,
          failedCount, waiting, balanceFailures, pc, signals, toClose,
          anyFailed, stopPc>>

\* Everything the broker holds for the bot.
Exposure == orders \union trades

\* Steps of an attempt, after the circuit breaker and the back-off let it by.
Attempting == pc \in {"fetch", "close", "verify", "notify"}
-----------------------------------------------------------------------------
Init ==
  /\ cancelsWork \in BOOLEAN /\ orders = {} /\ trades = {}
  /\ anchored = FALSE /\ sessionActive = TRUE /\ closing = FALSE
  /\ running = TRUE /\ failedCount = 0 /\ waiting = FALSE
  /\ balanceFailures = 0
  /\ pc = "top" /\ signals = {} /\ toClose = {} /\ anyFailed = FALSE
  /\ stopPc = "none"

(***************************************************************************)
(* The broker.                                                             *)
(***************************************************************************)

\* A resting order fills and becomes a trade.
BrokerFill(e) ==
  /\ e \in orders
  /\ orders' = orders \ {e}
  /\ trades' = trades \union {e}
  /\ UNCHANGED <<cancelsWork, strategyVars, running, retryVars, balanceFailures, pc,
                 signals, attemptVars, stopPc>>

\* A trade's protective stop fills.
BrokerStopOut(e) ==
  /\ e \in trades
  /\ trades' = trades \ {e}
  /\ UNCHANGED <<cancelsWork, orders, strategyVars, running, retryVars, balanceFailures,
                 pc, signals, attemptVars, stopPc>>

\* cancel_all_orders lists the resting orders and cancels them one by one.  A
\* cancel that fails is logged and skipped, and so is a failing list call: the
\* orders left are any subset of those that were resting.
CancelAll ==
  IF cancelsWork THEN orders' = {} ELSE orders' \in SUBSET orders

(***************************************************************************)
(* The engine thread: run() and _run_strategy_cycle().                     *)
(***************************************************************************)

\* "while self._running": one iteration begins with the fast poll ...
LoopTop ==
  /\ pc = "top"
  /\ pc' = IF running THEN "due" ELSE "stopped"
  /\ UNCHANGED <<brokerVars, strategyVars, running, retryVars,
                 balanceFailures, signals, attemptVars, stopPc>>

\* ... and may end without a strategy cycle: the interval has not elapsed, or
\* the cycle raised before it touched any state (bars, equity).
NoCycle ==
  /\ pc = "due"
  /\ pc' = "top"
  /\ UNCHANGED <<brokerVars, strategyVars, running, retryVars,
                 balanceFailures, signals, attemptVars, stopPc>>

\* get_account_summary fails: the cycle is skipped, and after
\* MaxBalanceFailures in a row the engine stops itself.
BalanceReadFails ==
  /\ pc = "due"
  /\ IF balanceFailures + 1 >= MaxBalanceFailures
       THEN /\ running' = FALSE
            /\ CancelAll
            /\ balanceFailures' = MaxBalanceFailures
       ELSE /\ balanceFailures' = balanceFailures + 1
            /\ UNCHANGED <<running, orders>>
  /\ pc' = "top"
  /\ UNCHANGED <<cancelsWork, trades, strategyVars, retryVars, signals, attemptVars, stopPc>>

\* Slip (used to test FlatWithoutSession): midnight restarts the session of a
\* paused bot even while its liquidation is still being retried.
RollOverAbandons(day) ==
  /\ anchored' = (anchored /\ ~(day /\ ~sessionActive))
  /\ sessionActive' = (sessionActive \/ day)

\* The day-boundary block of generate(): a paused strategy starts a fresh
\* session, unless a liquidation is still being retried.
RollOver(day) ==
  /\ anchored' = (anchored /\ ~(day /\ ~sessionActive /\ ~closing))
  /\ sessionActive' = (sessionActive \/ day)

\* generate() under an in-progress close-all re-emits the FLAT signal.
ReEmitFlat ==
  /\ pc = "due" /\ closing
  /\ \E day \in BOOLEAN : RollOver(day)
  /\ signals' = {}
  /\ pc' = "signals"
  /\ balanceFailures' = 0
  /\ UNCHANGED <<brokerVars, closing, running, retryVars, attemptVars, stopPc>>

\* generate() of a paused strategy (daily loss limit hit today) returns None.
Paused ==
  /\ pc = "due" /\ ~closing /\ ~sessionActive
  /\ pc' = "top"
  /\ balanceFailures' = 0
  /\ UNCHANGED <<brokerVars, strategyVars, running, retryVars, signals,
                 attemptVars, stopPc>>

\* The daily limit is already breached when a fresh session would open: the
\* strategy pauses with nothing to close.
PauseFlat ==
  /\ pc = "due" /\ ~closing
  /\ \E day \in BOOLEAN :
       /\ sessionActive \/ day
       /\ ~(anchored /\ ~(day /\ ~sessionActive))
  /\ anchored' = FALSE
  /\ sessionActive' = FALSE
  /\ pc' = "top"
  /\ balanceFailures' = 0
  /\ UNCHANGED <<brokerVars, closing, running, retryVars, signals, attemptVars,
                 stopPc>>

\* generate() of an active session, drained until it returns None or FLAT: it
\* opens the grid if there is none, returns entry signals for some absent
\* entries, and may end in a session exit ("session": profit target or loss
\* limit, "daily": daily loss limit, which also pauses).  An exit that ends the
\* drain leaves the entry signals collected before it to be processed first.
Generate ==
  /\ pc = "due" /\ ~closing
  /\ \E day \in BOOLEAN, exit \in {"none", "session", "daily"} :
       /\ sessionActive \/ day
       /\ anchored' = TRUE
       /\ closing' = (exit # "none")
       /\ sessionActive' = (exit # "daily")
  /\ signals' \in SUBSET (Entry \ Exposure)
  /\ pc' = "signals"
  /\ balanceFailures' = 0
  /\ UNCHANGED <<brokerVars, running, retryVars, attemptVars, stopPc>>

(***************************************************************************)
(* _process_signal() for the entries, in any order (the order within a     *)
(* cycle does not matter at this level).  A rejected or failed entry never *)
(* reaches the broker; a resting entry may fill at once; an order whose    *)
(* response was lost is live at the broker all the same.                   *)
(***************************************************************************)
ProcessEntry(e) ==
  /\ pc = "signals" /\ e \in signals
  /\ signals' = signals \ {e}
  /\ \/ UNCHANGED brokerVars
     \/ orders' = orders \union {e} /\ UNCHANGED trades
     \/ trades' = trades \union {e} /\ UNCHANGED orders
  /\ UNCHANGED <<cancelsWork, strategyVars, running, retryVars, balanceFailures, pc,
                 attemptVars, stopPc>>

\* A call outside the guarded ones raises (positions, open trades, repository):
\* run() logs "cycle_error" and the remaining signals are lost.
CycleError ==
  /\ pc = "signals"
  /\ signals' = {}
  /\ pc' = "top"
  /\ UNCHANGED <<brokerVars, strategyVars, running, retryVars,
                 balanceFailures, attemptVars, stopPc>>

CycleDone ==
  /\ pc = "signals" /\ signals = {} /\ ~closing
  /\ pc' = "top"
  /\ UNCHANGED <<brokerVars, strategyVars, running, retryVars,
                 balanceFailures, signals, attemptVars, stopPc>>

(***************************************************************************)
(* _close_all_trades().                                                    *)
(***************************************************************************)
AtFlatSignal == pc = "signals" /\ signals = {} /\ closing

\* The circuit breaker: after MaxRetries failed attempts the engine stops.
CircuitBreaker ==
  /\ AtFlatSignal /\ failedCount >= MaxRetries
  /\ running' = FALSE
  /\ pc' = "top"
  /\ UNCHANGED <<brokerVars, strategyVars, retryVars, balanceFailures, signals,
                 attemptVars, stopPc>>

\* The next retry is not due yet.
BackOff ==
  /\ AtFlatSignal /\ failedCount < MaxRetries /\ waiting
  /\ pc' = "top"
  /\ UNCHANGED <<brokerVars, strategyVars, running, retryVars,
                 balanceFailures, signals, attemptVars, stopPc>>

\* Wall-clock time reaches _close_all_next_retry_at.
RetryDue ==
  /\ waiting
  /\ waiting' = FALSE
  /\ UNCHANGED <<brokerVars, strategyVars, running, failedCount,
                 balanceFailures, pc, signals, attemptVars, stopPc>>

\* Slip (used to test BreakerHolds): one attempt too many.
CancelOrdersOnceMore ==
  /\ AtFlatSignal /\ failedCount <= MaxRetries /\ ~waiting
  /\ CancelAll
  /\ pc' = "fetch"
  /\ UNCHANGED <<cancelsWork, trades, strategyVars, running, retryVars, balanceFailures,
                 signals, attemptVars, stopPc>>

\* An attempt starts by cancelling every resting order.
CancelOrders ==
  /\ AtFlatSignal /\ failedCount < MaxRetries /\ ~waiting
  /\ CancelAll
  /\ pc' = "fetch"
  /\ UNCHANGED <<cancelsWork, trades, strategyVars, running, retryVars, balanceFailures,
                 signals, attemptVars, stopPc>>

\* notify_close_all_complete(): the strategy restarts, or stays paused with
\* its anchor kept for display.  The failure count and the retry time go.
Complete ==
  /\ failedCount' = 0
  /\ waiting' = FALSE
  /\ closing' = FALSE
  /\ anchored' = (anchored /\ ~sessionActive)
  /\ pc' = "top"
  /\ UNCHANGED <<brokerVars, sessionActive, running, balanceFailures, signals,
                 stopPc>>

\* get_open_trades answers with no trade: done.
FetchNone ==
  /\ pc = "fetch" /\ trades = {}
  /\ Complete
  /\ UNCHANGED attemptVars

\* get_open_trades answers with the trades to close.
FetchSome ==
  /\ pc = "fetch" /\ trades # {}
  /\ toClose' = trades
  /\ anyFailed' = FALSE
  /\ pc' = "close"
  /\ UNCHANGED <<brokerVars, strategyVars, running, retryVars,
                 balanceFailures, signals, stopPc>>

\* get_open_trades raises: the cycle ends here, and no failure is counted.
FetchRaises ==
  /\ pc = "fetch"
  /\ pc' = "top"
  /\ UNCHANGED <<brokerVars, strategyVars, running, retryVars,
                 balanceFailures, signals, attemptVars, stopPc>>

\* close_trade returns: the trade is gone.
CloseOne(e) ==
  /\ pc = "close" /\ e \in toClose
  /\ toClose' = toClose \ {e}
  /\ trades' = trades \ {e}
  /\ UNCHANGED <<cancelsWork, orders, strategyVars, running, retryVars, balanceFailures, pc,
                 signals, anyFailed, stopPc>>

\* close_trade raises: refused, already stopped out, or executed with the
\* response lost.
CloseOneFails(e) ==
  /\ pc = "close" /\ e \in toClose
  /\ toClose' = toClose \ {e}
  /\ anyFailed' = TRUE
  /\ trades' \in {trades, trades \ {e}}
  /\ UNCHANGED <<cancelsWork, orders, strategyVars, running, retryVars, balanceFailures, pc,
                 signals, stopPc>>

\* Slip (used to test ImplementsLiquidation): the strategy is told although a
\* trade could not be closed.
AttemptFailsButCompletes ==
  /\ pc = "close" /\ toClose = {} /\ anyFailed
  /\ Complete
  /\ UNCHANGED attemptVars

\* Slip (used to test LiquidationEnds): the failed attempt is not counted.
AttemptFailsUncounted ==
  /\ pc = "close" /\ toClose = {} /\ anyFailed
  /\ waiting' = TRUE
  /\ pc' = "top"
  /\ UNCHANGED <<brokerVars, strategyVars, running, failedCount,
                 balanceFailures, signals, attemptVars, stopPc>>

\* Some close failed: count the attempt and schedule the next one.
AttemptFails ==
  /\ pc = "close" /\ toClose = {} /\ anyFailed
  /\ failedCount' = failedCount + 1
  /\ waiting' = TRUE
  /\ pc' = "top"
  /\ UNCHANGED <<brokerVars, strategyVars, running, balanceFailures, signals,
                 attemptVars, stopPc>>

AttemptCloses ==
  /\ pc = "close" /\ toClose = {} /\ ~anyFailed
  /\ pc' = "verify"
  /\ UNCHANGED <<brokerVars, strategyVars, running, retryVars,
                 balanceFailures, signals, attemptVars, stopPc>>

\* The second get_open_trades: the broker must confirm that nothing is left.
VerifyFlat ==
  /\ pc = "verify" /\ trades = {}
  /\ pc' = "notify"
  /\ UNCHANGED <<brokerVars, strategyVars, running, retryVars,
                 balanceFailures, signals, attemptVars, stopPc>>

\* Residual trades count as a failed attempt, with no back-off scheduled.
VerifyResidual ==
  /\ pc = "verify" /\ trades # {}
  /\ failedCount' = failedCount + 1
  /\ pc' = "top"
  /\ UNCHANGED <<brokerVars, strategyVars, running, waiting, balanceFailures,
                 signals, attemptVars, stopPc>>

VerifyRaises ==
  /\ pc = "verify"
  /\ pc' = "top"
  /\ UNCHANGED <<brokerVars, strategyVars, running, retryVars,
                 balanceFailures, signals, attemptVars, stopPc>>

\* The closing balance has been read (or its failure swallowed); the maps are
\* cleared and the strategy is told.
Notify ==
  /\ pc = "notify"
  /\ Complete
  /\ UNCHANGED attemptVars

(***************************************************************************)
(* The web thread: TradingEngine.stop().                                   *)
(***************************************************************************)
StopFlag ==
  /\ stopPc = "none"
  /\ running' = FALSE
  /\ stopPc' = "cancel"
  /\ UNCHANGED <<brokerVars, strategyVars, retryVars, balanceFailures, pc,
                 signals, attemptVars>>

StopCancel ==
  /\ stopPc = "cancel"
  /\ CancelAll
  /\ stopPc' = "done"
  /\ UNCHANGED <<cancelsWork, trades, strategyVars, running, retryVars, balanceFailures, pc,
                 signals, attemptVars>>
-----------------------------------------------------------------------------
BrokerNext == \E e \in Entry : BrokerFill(e) \/ BrokerStopOut(e)

CycleNext ==
  \/ LoopTop \/ NoCycle \/ BalanceReadFails
  \/ ReEmitFlat \/ Paused \/ PauseFlat \/ Generate
  \/ \E e \in Entry : ProcessEntry(e)
  \/ CycleError \/ CycleDone

CloseAllNext ==
  \/ CircuitBreaker \/ BackOff \/ CancelOrders
  \/ FetchNone \/ FetchSome \/ FetchRaises
  \/ \E e \in Entry : CloseOne(e) \/ CloseOneFails(e)
  \/ AttemptFails \/ AttemptCloses
  \/ VerifyFlat \/ VerifyResidual \/ VerifyRaises \/ Notify

StopNext == StopFlag \/ StopCancel

Next == BrokerNext \/ CycleNext \/ CloseAllNext \/ RetryDue \/ StopNext

Spec == Init /\ [][Next]_vars


(***************************************************************************)
(* Fairness, for the liveness property only.  The engine thread keeps      *)
(* running its loop and its clock keeps going (weak fairness).  Each       *)
(* broker call that a liquidation retries until it answers is assumed not  *)
(* to fail for ever (strong fairness): an outage of the broker ends.       *)
(* Nothing is assumed about closes, which may all fail, about cancels, or  *)
(* about the web thread.                                                   *)
(***************************************************************************)
Fairness ==
  /\ WF_vars(LoopTop)
  /\ WF_vars(RetryDue)
  /\ SF_vars(ReEmitFlat)
  /\ SF_vars(\E e \in Entry : ProcessEntry(e))
  /\ SF_vars(CircuitBreaker \/ BackOff \/ CancelOrders)
  /\ SF_vars(FetchNone \/ FetchSome)
  /\ WF_vars(\E e \in Entry : CloseOne(e) \/ CloseOneFails(e))
  /\ WF_vars(AttemptFails \/ AttemptCloses)
  /\ SF_vars(VerifyFlat \/ VerifyResidual)
  /\ WF_vars(Notify)

FairSpec == Spec /\ Fairness
-----------------------------------------------------------------------------
(***************************************************************************)
(* Properties.                                                             *)
(***************************************************************************)

\* The type of every variable; the counters stay within their limits.
CountersOK ==
  /\ failedCount \in 0..MaxRetries
  /\ balanceFailures \in 0..MaxBalanceFailures

TypeOK ==
  /\ CountersOK
  /\ cancelsWork \in BOOLEAN
  /\ orders \in SUBSET Entry /\ trades \in SUBSET Entry
  /\ anchored \in BOOLEAN /\ sessionActive \in BOOLEAN /\ closing \in BOOLEAN
  /\ running \in BOOLEAN
  /\ waiting \in BOOLEAN
  /\ pc \in {"top", "due", "signals", "fetch", "close", "verify", "notify",
             "stopped"}
  /\ signals \in SUBSET Entry /\ toClose \in SUBSET Entry
  /\ anyFailed \in BOOLEAN
  /\ stopPc \in {"none", "cancel", "done"}

\* Between sessions, and through the daily pause once its liquidation is over,
\* the broker holds nothing of the bot, neither a trade nor a resting order that
\* could fill into the next session, provided that cancels work: a cancel that
\* fails is swallowed, and nothing looks at resting orders again.
FlatWithoutSession ==
  cancelsWork /\ (~anchored \/ ~(sessionActive \/ closing)) => Exposure = {}

\* No liquidation is attempted once MaxRetries attempts have failed in a row,
\* and the count never passes the limit: the breaker stays tripped until a
\* liquidation succeeds, whatever order failures, read errors and pauses take.
BreakerHolds == Attempting => failedCount < MaxRetries

\* A liquidation, once started, ends: the strategy is told the bot is flat, or
\* the engine stops (the circuit breaker, the balance halt, the user).
LiquidationEnds == closing ~> (~closing \/ ~running)

\* After the engine thread and stop() are both through, no order is left resting
\* at the broker, if cancels work: stop() says "Always cancel pending limit orders at
\* the broker", and the user is told that the bot stops the moment it is asked to.
StopLeavesNothingResting ==
  cancelsWork /\ pc = "stopped" /\ stopPc = "done" => orders = {}

(***************************************************************************)
(* The protocol implements the abstract liquidation when cancels work:     *)
(* while a close-all is in progress, and the entry signals collected       *)
(* before it are processed, the broker's holdings only shrink, and the     *)
(* hand-over finds them empty.                                             *)
(***************************************************************************)
mode == IF closing /\ signals = {} THEN "liquidating" ELSE "trading"
exposure == IF cancelsWork THEN Exposure ELSE {}

Abstract == INSTANCE Liquidation WITH Entry <- Entry, mode <- mode, exposure <- exposure

ImplementsLiquidation == Abstract!Spec
=============================================================================
