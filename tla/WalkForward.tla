----------------------------- MODULE WalkForward -----------------------------
(***************************************************************************)
(* The arithmetic of walk-forward validation: which bars a window trains   *)
(* and tests on, which result of a sweep wins, and how the equity curves   *)
(* of the tests are chained.  The replays themselves are Backtest's.       *)
(*                                                                         *)
(* Bars are numbered from 0.  A sweep result is a record of its number of  *)
(* trades, whether its profit factor is finite, and the metric that ranks  *)
(* it, below all others where that is not finite.                          *)
(***************************************************************************)
EXTENDS Integers

WindowSize(train, test) == train + test
Windows(bars, train, test) == 0 .. bars \div WindowSize(train, test) - 1
Offset(i, train, test) == i * WindowSize(train, test)

TrainSlice(i, train, test) ==
  Offset(i, train, test) .. Offset(i, train, test) + train - 1
TestSlice(i, train, test) ==
  Offset(i, train, test) + train .. Offset(i, train, test) + WindowSize(train, test) - 1
-----------------------------------------------------------------------------
Qualifies(result, minTrades) == result.trades >= minTrades /\ result.finite

\* _sort_key
RanksBelow(r, s, minTrades) ==
  \/ ~Qualifies(r, minTrades) /\ Qualifies(s, minTrades)
  \/ /\ Qualifies(r, minTrades) = Qualifies(s, minTrades)
     /\ r.metric < s.metric

\* The results that may come first; a sweep without one gives no window.
Winners(results, minTrades) ==
  {r \in results : \A s \in results : ~RanksBelow(r, s, minTrades)}
-----------------------------------------------------------------------------
\* One round of _aggregate_test_metrics: running capital, and a test that began with
\* capital and made pnl.  The scaled curve is kept times capital, to stay whole.
ScaledEnd(capital, running, pnl) == running * (capital + pnl)
NextRunning(running, pnl) == running + pnl

\* The scaled curve of a window ends where the next one's starts.
Meets(capital, running, pnl) ==
  ScaledEnd(capital, running, pnl) = NextRunning(running, pnl) * capital
=============================================================================
